CONSTANTS
    wipe = wipe
    fetch = fetch
    edit = edit
    destructive = destructive
    network = network
    mutation = mutation
    Actions = {wipe, fetch, edit}
    Reasons = {destructive, network, mutation}
    ReasonOf <- ReasonsOfCalls
    VerdictOf <- Verdicts
    Critical = {destructive}
    NoBatch = noBatch
    Env = {"trust", "abort"}
    MaxRounds = 2
SPECIFICATION FairSpec
CHECK_DEADLOCK FALSE
INVARIANTS
    CriticalIsHeld
    WaitingCanBeAnswered
PROPERTIES
    NoStaleAnswer
    ImplementsContract
    AsksAreDecided
