SPECIFICATION FairSpec
CONSTANTS
    Children = {c1, c2}
    NoChild = NoChild
    Restarts = {}
    Resets = {}
    Ports = {1, 2}
    Runners = 2
    MaxRestarts = 2
    Threshold = 2
    SpawnFaults = {"error", "throw"}
INVARIANTS
    TypeOK
    OneEngineManaged
PROPERTIES
    RecoveryWorks
CHECK_DEADLOCK FALSE
