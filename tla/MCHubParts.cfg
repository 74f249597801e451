CONSTANTS
    k1 = k1
    alice = alice
    bob = bob
    laptop = laptop
    desktop = desktop
    bobs = bobs
    NoMachine = NoMachine
    Members <- MCMembers
    Machines <- MCMachines
    Owner <- MCOwner
    Sessions = {s1, s2, s3}
    None = None
    NAttempts = 4
    Keys <- OneKey
    Key <- SameKey
    TTL = 2
    CacheTTL = 1
    Burst = 2
    Rate = 3
    Scale = 4
    MaxTime = 4
    MaxCrashes = 1
    Overlap = FALSE
    Replies = {"r1", "r2"}
    Clients = {1, 2}
    MaxTokens = 3
SPECIFICATION PartsSpec
INVARIANTS  RateIsBounded SessionsAreSound TokensMoveForward
PROPERTIES StopReturns PresenceSettles RepliesEnd
CHECK_DEADLOCK FALSE
