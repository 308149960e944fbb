SPECIFICATION Spec
CONSTANTS
    Sessions = {s1, s2}
    Endpoints = {e1, e2}
    NoEndpoint = NoEndpoint
    Capacity = 1
    MaxFaults = 0
CHECK_DEADLOCK FALSE
INVARIANT PlacedWithinCapacity
