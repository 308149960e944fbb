SPECIFICATION Spec
CONSTANTS
    Sessions = {s1, s2}
    Endpoints = {e1, e2}
    NoEndpoint = NoEndpoint
    Capacity = 1
    MaxFaults = 2
INVARIANT TypeOK
INVARIANT AgentsWithinCapacity
INVARIANT OverMeansOver
INVARIANT RunningReachable
CHECK_DEADLOCK FALSE
PROPERTY EverySessionStarts
