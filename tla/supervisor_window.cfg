SPECIFICATION Spec
CONSTANTS
    Children = {c1, c2, c3}
    NoChild = NoChild
    Restarts = {}
    Resets = {"reset"}
    Ports = {1, 2, 3}
    Runners = 1
    MaxRestarts = 1
    Threshold = 1
    SpawnFaults = {}
SYMMETRY Symmetry
INVARIANTS
    WatchdogInControl
CHECK_DEADLOCK FALSE
