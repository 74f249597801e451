CONSTANTS
    alice = alice
    bob = bob
    laptop = laptop
    desktop = desktop
    q1 = q1
    q2 = q2
    NoMachine = NoMachine
    NoSession = NoSession
    Sweeper = Sweeper
    Members <- Alice
    Machines <- OneMachine
    Owner <- AllAlices
    Sessions = {s1}
    Queries <- OneQuery
    Target <- ForAlice
    Waited = {}
    Feishu = {}
    Polled = {}
    Expiring = {}
    Quitting = {}
    MaxConcurrency = 1
    Outcomes = {"completed"}
SPECIFICATION Spec
PROPERTY TerminalAbsorbing
CHECK_DEADLOCK FALSE
