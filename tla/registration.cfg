SPECIFICATION Spec
CONSTANTS
    a1 = a1
    a2 = a2
    n1 = n1
    pk1 = pk1
    NoBody = NoBody
    NoPubKey = NoPubKey
    ZeroAddress = ZeroAddress
    Types <- MCTypes
    ValidTypes <- MCValidTypes
    Fields <- MCFields
    ValidFields <- MCFields
    FieldLists <- MCFieldLists
    MAX_FIELDS = 16
    Names = {n1}
    NameShape <- FourLetters
    Accounts = {a1, a2}
    treasurer = a1
    PubKeys = {pk1}
    PubKeyLength <- KeyLength
    Secrets = {"s"}
    RecordInputs <- SchemaInputs
    Payments = {1, 3}
    basePrice = 1
    REGISTRATION_PERIOD = 1
    MIN_COMMITMENT_AGE = 1
    MAX_COMMITMENT_AGE = 2
    MAX_RECORD_FIELDS = 16
    MaxTime = 5
    MaxGeneration = 2
    MaxExpiry = 4
INVARIANTS
    ResolvedMeetsSchema
PROPERTIES
    TakenByAgedCommitment
