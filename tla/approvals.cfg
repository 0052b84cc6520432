CONSTANTS
    first = first
    second = second
    jobA = jobA
    Approvals = {first, second}
    Jobs = {jobA}
    JobOf <- RequestedBy
    Explicit = {first}
    NoApproval = noApproval
    Env = {"trust", "cancel", "crash"}
    MaxTails = 1
    MaxRestarts = 1
SPECIFICATION FairSpec
CHECK_DEADLOCK FALSE
PROPERTIES
    ImplementsContract
    GoesOnApproved
    SessionsAreWoken
    CallbacksAreWoken
