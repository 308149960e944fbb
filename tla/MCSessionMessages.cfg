SPECIFICATION Spec
CONSTANTS
    t1 = t1
    Sockets = {s1, s2}
    Creators = {}
    Deleters = {d1}
    Tags = {t1}
    LocalIds = {x}
    NoLocalId = NoLocalId
    PageSize = 1
    InitialTags <- OneSession
    MaxSessions = 1
    MaxSends = 2
    MaxFailures = 1
    MaxExits = 1
INVARIANT MessageSeqsDistinct
INVARIANT AnnouncedOnce
INVARIANT SenderOrder
INVARIANT NoMissedMessage
SYMMETRY SocketSymmetry
CHECK_DEADLOCK FALSE
