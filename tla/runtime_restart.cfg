CONSTANTS
    Jobs = {1, 2}
    MaxConcurrent = 1
    Slots = {1, 2, 3}
    Requests = {}
    Recovery = recovery
    NoProc = noProc
    MaxSessions = 2
    MaxRestarts = 1
    Env = {"approval", "resolve", "sessionError", "conflictMerge", "setupError", "shutdown", "crash", "lostWorktree", "planApproval"}
    CancelWhen = {"task", "tail"}
    ResumeWhen = {}
SPECIFICATION FairSpec
CHECK_DEADLOCK FALSE
INVARIANTS
    CapacityRespected
PROPERTIES
    ShutdownCancelsNothing
    EveryJobSettles
    TasksAreReturned
