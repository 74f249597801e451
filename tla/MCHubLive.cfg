CONSTANTS
    alice = alice
    bob = bob
    laptop = laptop
    desktop = desktop
    q1 = q1
    q2 = q2
    NoMachine = NoMachine
    NoSession = NoSession
    Sweeper = Sweeper
    Members <- Alice
    Machines <- OneMachine
    Owner <- AllAlices
    Sessions = {s1, s2}
    Queries <- OneQuery
    Target <- ForAlice
    Waited = {}
    Feishu = {q1}
    Polled = {}
    Expiring = {q1}
    Quitting = {s1}
    MaxConcurrency = 1
    Outcomes = {"completed"}
SPECIFICATION FairSpec
PROPERTIES QueriesSettle ReconnectAnswers SocketCloseRequeues
CHECK_DEADLOCK FALSE
