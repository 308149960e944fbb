SPECIFICATION Spec
CONSTANTS
    t1 = t1
    Sockets = {}
    Creators = {}
    Deleters = {d1}
    Tags = {t1}
    LocalIds = {x}
    NoLocalId = NoLocalId
    PageSize = 1
    InitialTags <- OneSession
    MaxSessions = 1
    MaxSends = 0
    MaxFailures = 1
    MaxExits = 1
INVARIANT NotificationErrorsIgnored
CHECK_DEADLOCK FALSE
