CONSTANTS
    q1 = q1
    q2 = q2
    r1 = r1
    r2 = r2
    NoRequest = NoRequest
    Requests <- MCRequests
    Queries <- MCQueries
    QueryOf <- MCRepeated
    Slots = 1
    MaxConns = 2

SPECIFICATION Spec

INVARIANTS
    SlotsAreKept
    DrainIsFinal
    FilesAreRight
    RegistryIsLive

PROPERTY ImplementsContract

CHECK_DEADLOCK FALSE
