CONSTANTS
    j1 = j1
    j2 = j2
    Jobs = {j1, j2}
    Events = {1, 2, 3, 4}
    JobOf <- Owners
    KindOf <- Kinds
    Env = {"lockError", "age", "cancel"}
    MaxReplay = 2
    QueueSize = 3
    MaxFaults = 2
SPECIFICATION FairSpec
CHECK_DEADLOCK FALSE
INVARIANTS
    NoSilentGap
    FramesInOrder
    ViewIsCurrent
PROPERTIES
    EventsArrive
