SPECIFICATION Spec
CONSTANTS
    a1 = a1
    a2 = a2
    n1 = n1
    pk1 = pk1
    NoBody = NoBody
    NoPubKey = NoPubKey
    ZeroAddress = ZeroAddress
    Types <- BuiltInTypes
    ValidTypes <- BuiltInTypes
    Fields <- MCFields
    ValidFields <- MCFields
    FieldLists <- OneFieldList
    MAX_FIELDS = 16
    Names = {n1}
    NameShape <- FiveLetters
    Accounts = {a1, a2}
    treasurer = a1
    PubKeys = {pk1}
    PubKeyLength <- KeyLength
    Secrets = {"s"}
    RecordInputs <- ThreeKeyInputs
    Payments = {0}
    basePrice = 0
    REGISTRATION_PERIOD = 1
    MIN_COMMITMENT_AGE = 1
    MAX_COMMITMENT_AGE = 1
    MAX_RECORD_FIELDS = 16
    MaxTime = 4
    MaxGeneration = 2
    MaxExpiry = 4
INVARIANTS
    ListAgreesWithLookup
    LiveIffListed
    ResolvedByOwner
PROPERTIES
    ImplementsNamespace
