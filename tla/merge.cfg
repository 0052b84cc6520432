CONSTANTS
    j1 = j1
    j2 = j2
    Jobs = {j1, j2}
    Requests = {r1, r2}
    NoJob = noJob
    NoOne = noOne
    Env = {"resume", "cancel", "archive", "overlap", "gitError", "crash"}
    Home = "other"
    Choices <- Asked
    MaxSessions <- Sessions
    MaxFaults = 1
SPECIFICATION Spec
SYMMETRY AnyRequest
CHECK_DEADLOCK FALSE
INVARIANTS
    MergedIsInBase
    WorkIsKept
    CompletedIsResolved
    MainIsBack
PROPERTIES
    BaseKeepsWork
