CONSTANTS
    Jobs = {1, 2}
    MaxConcurrent = 1
    Slots = {1, 2, 3}
    Requests = {r1}
    Recovery = recovery
    NoProc = noProc
    MaxSessions = 2
    MaxRestarts = 0
    Env = {"approval", "resolve", "message", "sessionError"}
    CancelWhen = {"preflight", "task", "tail"}
    ResumeWhen = {}
SPECIFICATION Spec
CHECK_DEADLOCK FALSE
INVARIANTS
    AgentsWithinCapacity
    RunningHasOwner
    WaitingHasWaiter
PROPERTIES
    TransitionsFollowTable
    RevivalIsAReset
