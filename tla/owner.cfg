SPECIFICATION CLISpec
CONSTANTS
    a1 = a1
    a2 = a2
    n1 = n1
    pk1 = pk1
    pk2 = pk2
    p1 = p1
    p2 = p2
    NoBody = NoBody
    NoPubKey = NoPubKey
    ZeroAddress = ZeroAddress
    NoSignature = NoSignature
    NoCommitment = NoCommitment
    NoProof = NoProof
    PlaceholderKeys = {}
    tooLong = {}
    Types <- MCTypes
    ValidTypes <- MCTypes
    Fields <- BuiltInFields
    ValidFields <- BuiltInFields
    FieldLists <- OneFieldList
    MAX_FIELDS = 16
    Names = {n1}
    NameShape <- FiveLetters
    Accounts = {a1, a2}
    treasurer = a1
    PubKeys = {pk1, pk2}
    PubKeyLength <- KeyLength
    Secrets = {1, 2}
    RecordInputs <- TwoAddresses
    Payments = {1}
    basePrice = 1
    REGISTRATION_PERIOD = 2
    MIN_COMMITMENT_AGE = 2
    MAX_COMMITMENT_AGE = 3
    MAX_RECORD_FIELDS = 16
    MaxTime = 6
    MaxGeneration = 3
    MaxExpiry = 12
    Procs = {p1, p2}
    Hasty = {p2}
    account <- MCAccount
    SigningKey <- MCSigningKey
    slack = 0
    TypeArgs = {"GEO"}
    MaxCommands = 3
INVARIANTS
    RevealsMature
    VerifiedIsFresh
PROPERTIES
    RevealNotOvertaken
CHECK_DEADLOCK FALSE
