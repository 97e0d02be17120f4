SPECIFICATION Spec
CONSTANTS
    Children = {c1, c2, c3}
    NoChild = NoChild
    Restarts = {"restart"}
    Resets = {"reset"}
    Ports = {1, 2, 3}
    Runners = 1
    MaxRestarts = 2
    Threshold = 2
    SpawnFaults = {}
INVARIANT
    NoOrphans
CHECK_DEADLOCK FALSE
