SPECIFICATION Spec
CONSTANTS
    Sockets = {s1, s2, s3}
    Methods = {m1, m2}
    Calls = {c1, c2}
    Nobody = Nobody
INVARIANT ListenersOpen
INVARIANT OfflineAnnounced
PROPERTY OnlyListenerReleases
PROPERTY EveryCallAnswered
CHECK_DEADLOCK FALSE
