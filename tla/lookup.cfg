SPECIFICATION MCSpec
CONSTANTS
    op1 = op1
    op2 = op2
    id1 = id1
    id2 = id2
    e1 = e1
    e2 = e2
    e3 = e3
    n1 = n1
    a1 = a1
    a2 = a2
    pk1 = pk1
    pk2 = pk2
    b1 = b1
    b2 = b2
    ZeroKey = ZeroKey
    NoEndpoint = NoEndpoint
    NoSignature = NoSignature
    NoCommitment = NoCommitment
    NoProof = NoProof
    NoResult = NoResult
    Operators = {op1, op2}
    IdentityKeys = {id1, id2}
    Endpoints = {e1, e2, e3}
    EndpointLength <- lengths
    MAX_ENDPOINT_LENGTH = 256
    MaxTime = 1
    MaxShown = 2
    SigningKey <- wallets
    PlaceholderKeys = {}
    tooLong = {}
    theName = n1
    Results <- results
    Proofs <- proofs
SYMMETRY alike
INVARIANTS
    OperatorsExact
    AcceptedIsOnChain
    AcceptedIsAnnounced
    NoFalseAlarm
