CONSTANTS
    alice = alice
    bob = bob
    laptop = laptop
    desktop = desktop
    q1 = q1
    q2 = q2
    NoMachine = NoMachine
    NoSession = NoSession
    Sweeper = Sweeper
    Members <- Both
    Machines <- TwoMachines
    Owner <- OneEach
    Sessions = {s1, s2}
    Queries <- OneQuery
    Target <- ForEach
    Waited = {q1}
    Feishu = {}
    Polled = {q1}
    Expiring = {q1}
    Quitting = {}
    MaxConcurrency = 1
    Outcomes = {"success"}
SPECIFICATION CrashSpec
INVARIANTS WaitersAreSound FramesAreRouted
PROPERTY ImplementsLifecycle
SYMMETRY SessionSymmetry
CHECK_DEADLOCK FALSE
