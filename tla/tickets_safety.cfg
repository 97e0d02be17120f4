\* Three concurrent requests of any kind; two attempts make the retry
\* loop give up when two others commit in between.
CONSTANTS
    Requests = {r1, r2, r3}
    Statuses <- ThreeStatuses
    MaxAttempts = 2
    DemoCount = 2
SPECIFICATION Spec
INVARIANTS
    TypeOK
    NumbersGapFree
    ConflictMeansContention
    ClosedAtFollowsStatus
    StatusExplained
SYMMETRY Symmetry
