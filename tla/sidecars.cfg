CONSTANTS
    reviewer = reviewer
    watcher = watcher
    c1 = c1
    c2 = c2
    c3 = c3
    Sidecars = {reviewer, watcher}
    Triggers = {1, 2, 3, 4}
    SidecarOf <- Owners
    OnOf <- On
    PolicyOf <- Policy
    Once = {3}
    Gates = {1, 4}
    PhaseOf <- Phase
    Calls = {c1, c2, c3}
    Main = Main
    Env = {"operator", "stall"}
SPECIFICATION Spec
CHECK_DEADLOCK FALSE
SYMMETRY AnyCall
INVARIANTS
    OneAtATime
    QueuedRunsOnce
    NothingLeftBehind
    PausedHasReason
    GatesDoNotLiftOthers
