CONSTANTS
    Env = {"cancel", "crash", "failure"}
    MaxSessions = 3
    MaxRestarts = 2
SPECIFICATION FairSpec
CHECK_DEADLOCK FALSE
INVARIANTS
    CompletedIsLogged
PROPERTIES
    EndedIsCollected
