CONSTANTS
    alice = alice
    bob = bob
    laptop = laptop
    desktop = desktop
    q1 = q1
    q2 = q2
    NoMachine = NoMachine
    NoSession = NoSession
    Sweeper = Sweeper
    Members <- Alice
    Machines <- OneMachine
    Owner <- AllAlices
    Sessions = {s1}
    Queries <- TwoQueries
    Target <- ForAlice
    Waited = {}
    Feishu = {}
    Polled = {}
    Expiring = {}
    Quitting = {}
    MaxConcurrency = 1
    Outcomes = {"completed"}
SPECIFICATION FairSpec
PROPERTY ReconnectAnswers
CHECK_DEADLOCK FALSE
