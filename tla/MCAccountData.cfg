SPECIFICATION Spec
CONSTANTS
    ArtifactCalls = {c1, c2, c3}
    KvSlots = {t1, t2}
    SocialSlots = {u1, u2}
    LinkCalls = {l1, l2, l3}
    Accounts = {a, b}
    NoAccount = NoAccount
    Keys = {k1, k2}
    Values = {v}
    Null = Null
    MaxVersion = 0
    GithubUsers = {g, h}
    None = None
    MaxFailures = 1
    MaxPosts = 2
    KeySets <- SomeKeySets
INVARIANT TypeOK
INVARIANT NoLostUpdate
INVARIANT LivesAnnounced
INVARIANT RelationsMirrored
INVARIANT ToldOncePerDay
INVARIANT NameOfLink
PROPERTY FeedConsistent
PROPERTY VersionsGrow
PROPERTY Serializable
SYMMETRY DataSymmetry
CHECK_DEADLOCK FALSE
