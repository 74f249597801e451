CONSTANTS
    Clients = {c1, c2}
    save1 = save1
    save2 = save2
    delete = delete
    Ops <- Requests
    Kind <- Kinds
    Serial = TRUE
    Intervals = {1, 2}
    ReconnectCount = 1
    MaxDials = 2
    MaxFrames = 1
    None = None
SPECIFICATION FairSpec
INVARIANTS StopIsClean PingFollowsConfig 
PROPERTY RequestsEnd
CHECK_DEADLOCK FALSE
