SPECIFICATION ComponentsSpec
CONSTANTS
    Addresses = {m1, m2}
    Word = 2
    Page = 4
    Characters = {"a", "b"}
    MaxLength = 4
    MaxCapacity = 12
    m1 = m1
    m2 = m2
    t1 = t1
    t2 = t2
    id0 = id0
    id1 = id1
    id2 = id2
    Texts <- Sent
    PipeSize = 3
    Inputs <- Arrays
    InitialCapacity = 2
    Fields = 3
    MaxText = 9
    Threads = {t1, t2}
    ValidIds = {id0, id1, id2}
    BadId = BadId
    First = id0
    Assoc <- FirstEarly
    Files <- SomeFiles
    MaxBytes = 6
    Size = 2
    MaxFile = 4
    Names <- TwoNames
    Words = {"k1", "k2", "alice", "ldap", ""}
    Nss <- Users
    Passwd = {0, 100}
    Self = Self
    MaxArgs = 4
    Uids = {1}
    Gids = {11, 12, 13}
    Variable = "TZ_SYS_ADMIN_GROUP"
    Group = "system"
    MaxChanges = 1
    s1 = s1
    s2 = s2
    s3 = s3
    Strings = {s1, s2, s3}
    StringLength <- LengthOf
    HashCode <- HashOf
    Slots = 2
    AreaCapacity = 2
    a1 = a1
    a2 = a2
    a3 = a3
    Items = {a1, a2, a3}
    l1 = l1
    root = root
    app = app
    u1 = u1
    u2 = u2
    Locks = {l1}
    LockOf <- SharedLock
    r1 = r1
    r2 = r2
    Regions = {r1, r2}
    UserNames = {root, app}
    UserIds = {u1, u2}
    PasswdFiles <- TwoFiles
    NULL = NULL
INVARIANTS
    StringsKept
    Layout
    NoFault
    OutputOfAllNames
    ConcatRight
    RowsRight
    NeverAnotherName
    SettledTable
    SignupFixesIds
    InfoRight
    BufferWhole
    GetPrints
    AdminVerdict
    AreaHolds
    ChainsSound
    NoWildRead
    LookupRight
    NothingLeaks
PROPERTIES
    CommandEnds
    PoolSpec
CHECK_DEADLOCK FALSE
