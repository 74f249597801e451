CONSTANTS
    alice = alice
    bob = bob
    laptop = laptop
    desktop = desktop
    q1 = q1
    q2 = q2
    NoMachine = NoMachine
    NoSession = NoSession
    Sweeper = Sweeper
    Members <- Alice
    Machines <- TwoMachines
    Owner <- AllAlices
    Sessions = {s1, s2}
    Queries <- OneQuery
    Target <- ForAlice
    Waited = {}
    Feishu = {}
    Polled = {}
    Expiring = {}
    Quitting = {s1}
    MaxConcurrency = 1
    Outcomes = {"completed"}
SPECIFICATION FairSpec
PROPERTY SocketCloseRequeues
CHECK_DEADLOCK FALSE
