\* Two requests at a time, demo loads of two tickets: the refinement
\* of the register and the end of every accepted request (no symmetry: liveness).
CONSTANTS
    Requests = {r1, r2}
    Statuses <- ThreeStatuses
    MaxAttempts = 2
    DemoCount = 2
SPECIFICATION FairSpec
PROPERTIES
    RegisterSpec
    RequestsEnd
