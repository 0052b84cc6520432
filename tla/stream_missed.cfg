CONSTANTS
    j1 = j1
    j2 = j2
    Jobs = {j1, j2}
    Events = {1, 2, 4}
    JobOf <- Owners
    KindOf <- Kinds
    Env = {}
    MaxReplay = 2
    QueueSize = 3
    MaxFaults = 2
SPECIFICATION Spec
CHECK_DEADLOCK FALSE
INVARIANTS
    MissedAreReplayed
