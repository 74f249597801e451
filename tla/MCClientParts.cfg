CONSTANTS
    q1 = q1
    q2 = q2
    r1 = r1
    r2 = r2
    NoRequest = NoRequest
    Requests <- MCRequests
    Queries <- MCQueries
    QueryOf <- MCDistinct
    Slots = 1
    MaxConns = 1
    None = None
    MaxSteps = 2
    MaxAnswer = 2
    MaxOutput = 2
    Texts <- MCTexts
    Outputs <- MCOutputs
    Batches <- MCBatches
    Outcomes = {"completed", "refused", "timeout", "expired"}
    Pids = {p1, p2, p3}
    Tries = 2
SPECIFICATION PartsSpec
INVARIANTS ProbeIsSafe  
PROPERTIES RequestsServed StopCompletes DeadConnectionIsLeft ClientEnds
CHECK_DEADLOCK FALSE
