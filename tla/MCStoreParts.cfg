CONSTANTS
    m1 = m1
    m2 = m2
    a1 = a1
    k1 = k1
    None = None
    NoAnswer = NoAnswer
    Members <- MCMembers
    Queries <- MCQueries
    Target <- MCTarget
    Answers <- MCAnswers
    TTL <- MCTTL
    MaxTime = 3
    Invites = {"i1", "i2"}
    DisplayNames = {"n1"}
    Aliases = {"a1"}
    Machines <- MCMachines
    Creds = {"c1"}
    Faults = {"error", "torn"}
    Names <- MCNames
    AliasSets <- MCAliasSets
    Questions <- MCQuestions
    Wide = {"c"}
    MaxRenames = 1
    MaxQueries = 3
    MaxInt = 7
    Limits = {0, 1, 2, 7}
    Skips = {0, 1}
    DefaultLimit = 3
SPECIFICATION PartsSpec
INVARIANTS
    OutcomeIsDurable QueuesAreRight
    PairingIsDurable IndexesAgree
    RightMemberAsked
    PagesMissNothing
PROPERTY ImplementsLifecycle
CHECK_DEADLOCK FALSE
