CONSTANTS
    e1 = e1
    bad = bad
    m1 = m1
    m2 = m2
    Events = {e1, bad}
    Message <- MessageOf
    Kind <- KindOf
    Sums <- SumsOf
    Slots = {s1, s2}
    MaxSize = 1
    MaxFaults = 2
    None = None
    Frames <- MCFrames
    Unknown <- MCUnknown
    Word = 65536
    Largest = 70000
SPECIFICATION PartsSpec
INVARIANTS ReceptionIsSound AskedOncePerMemory DecodedIsSent
PROPERTY EventsAcknowledged
CHECK_DEADLOCK FALSE
