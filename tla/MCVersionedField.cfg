SPECIFICATION Spec
CONSTANTS
    Clients = {c1, c2}
    MaxWrites = 3
    MaxFailures = 1
INVARIANT NoLostUpdate
INVARIANT ReplicasTruthful
INVARIANT AnnouncedOnce
INVARIANT ReplicasConverge
PROPERTY EveryRequestAnswered
PROPERTY ImplementsRegister
CHECK_DEADLOCK FALSE
