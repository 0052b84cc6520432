CONSTANTS
    Jobs = {1, 2, 3}
    MaxConcurrent = 1
    Slots = {1, 2}
    Requests = {}
    Recovery = recovery
    NoProc = noProc
    MaxSessions = 2
    MaxRestarts = 0
    Env = {}
    CancelWhen = {"preflight"}
    ResumeWhen = {}
SPECIFICATION FairSpec
CHECK_DEADLOCK FALSE
PROPERTIES
    QueuedJobsStart
