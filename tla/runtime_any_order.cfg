CONSTANTS
    Jobs = {1, 2}
    MaxConcurrent = 2
    Slots = {1, 2}
    Requests = {r1}
    Recovery = recovery
    NoProc = noProc
    MaxSessions = 2
    MaxRestarts = 0
    Env = {"lateArrival", "rerun", "startError", "setupError", "message"}
    CancelWhen = {"setup", "starting", "pending", "preflight", "created", "task", "tail"}
    ResumeWhen = {"setup", "starting", "pending", "preflight", "created", "task", "tail"}
SPECIFICATION Spec
CHECK_DEADLOCK FALSE
INVARIANTS
    RegistryNamesItsJob
PROPERTIES
    LaunchReplacesNoTask
