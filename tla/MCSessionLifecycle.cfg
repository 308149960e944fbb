SPECIFICATION Spec
CONSTANTS
    t1 = t1
    Sockets = {s1}
    Creators = {r1, r2}
    Deleters = {d1, d2}
    Tags = {t1}
    LocalIds = {}
    NoLocalId = NoLocalId
    PageSize = 1
    InitialTags <- NoSession
    MaxSessions = 2
    MaxSends = 1
    MaxFailures = 1
    MaxExits = 0
INVARIANT TypeOK
INVARIANT UpdateSeqsDistinct
INVARIANT OneSessionPerTag
INVARIANT LifecycleAnnouncedOnce
CHECK_DEADLOCK FALSE
