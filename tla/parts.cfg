SPECIFICATION PartsSpec
CONSTANTS
    n1 = n1
    n2 = n2
    k1 = k1
    k2 = k2
    k3 = k3
    ip1 = ip1
    ip2 = ip2
    ip3 = ip3
    d1 = d1
    d2 = d2
    d3 = d3
    CacheNames = {n1, n2}
    CacheKeys = {k1, k2, k3}
    KeyName <- nameOfKey
    Values = {"v"}
    TTLs = {1, 2}
    capacity = 2
    MaxClock = 4
    IPs = {ip1, ip2, ip3}
    burst = 4
    minute = 2
    maxTrackedIPs = 2
    MaxTicks = 3
    NaN = NaN
    Error = Error
    Bare = Bare
    RawKeys <- rawKeys
    lower <- lowers
    trimKey <- trimKeys
    keyRank <- ranks
    selKey <- goodKeys
    RawValues <- rawValues
    trim <- trims
    upper <- uppers
    selVal <- goodValues
    atoi <- numbers
    itoa <- decimals
    MaxFragments = 2
    Datagrams = {d1, d2, d3}
    WellFormed = {d1, d2}
    udpMaxInFlight = 2
    udpMaxResp = 2
    maxValue = 3
    Lengths = {1, 3, 4}
    Base = 3
    FieldTypes = {1, 2}
    MaxBytes = 7
    a1 = a1
    a2 = a2
    f1 = f1
    f2 = f2
    Logs = {"l1", "l2", "bad"}
    BadLogs = {"bad"}
    channelSize = 2
    MaxLogs = 3
    Names = {n1}
    Accounts = {a1, a2}
    PubKeys = {"p"}
    Keys = {k1, k2}
    Bodies = {"b"}
    NoOwner = NoOwner
    NoPubKey = NoPubKey
    NoBody = NoBody
    Period = 1
    Requests = {"r"}
    Skew = 1
    MaxTime = 4
    MaxGeneration = 3
    Uploads = {f1, f2}
    Publishers = {"p1", "p2"}
    Torn = Torn
    Absent = Absent
    MaxKeys = 2
    Unset = Unset
    Empty = Empty
    Refused = Refused
    local = local
    upLocal = upLocal
    sepolia = sepolia
    upSepolia = upSepolia
    Paths = {local, upLocal, sepolia, upSepolia}
    upDown <- withOrWithoutUp
    contents <- deployed
    Environments <- environments
    Lines <- assignments
    MaxLines = 2
    Radix = 2
    ChunkSize = 2
    MaxChunks = 2
    fieldSize = 5
INVARIANTS
    IndexExact
    ForgettingBounded
    SpellingIrrelevant
    AnsweredOnce
    DecodeExact
    IterationComplete
    PageAttributed
    IdentityKept
    UploadsReturn
    SameDeployment
    CommitmentBinds
PROPERTIES
    ArrivedAreAnswered
    ShutdownCompletes
CHECK_DEADLOCK FALSE
