SPECIFICATION Spec
CONSTANTS
    Beats = {b1, b2}
    Requests = {r1}
    MaxDelay = 2
    TTL = 1
    Threshold = 1
    TimeoutAfter = 3
    LastReport = 7
    MaxTime = 11
    MaxFailures = 1
INVARIANT TypeOK
INVARIANT EndsOncePerPeriod
INVARIANT LagBounded
PROPERTY EndsInactive
CHECK_DEADLOCK FALSE
