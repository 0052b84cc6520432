CONSTANTS
    Connectors = {1, 2, 3}
    FailThreshold = 2
    RelayEvery = 2
    Attempts = 2
    Env = {"interrupt", "spawnError", "slowJoin"}
    MaxSignals = 2
    MaxFaults = 2
SPECIFICATION FairSpec
CHECK_DEADLOCK FALSE
INVARIANTS
    OneConnector
    ClosedIsReaped
PROPERTIES
    DroppedIsReplaced
    SignalExits
