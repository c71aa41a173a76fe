SPECIFICATION LiveSpec
CONSTANTS
    n1 = n1
    a1 = a1
    pk1 = pk1
    k1 = k1
    k2 = k2
    b1 = b1
    b2 = b2
    w1 = w1
    NoOwner = NoOwner
    NoPubKey = NoPubKey
    NoBody = NoBody
    Names = {n1}
    Accounts = {a1}
    PubKeys = {pk1}
    Keys = {k1, k2}
    Bodies = {b1}
    Period = 1
    Workers = {w1}
    BodyTTL <- oneSecond
    cacheSize = 2
    maxBlockSpan = 2
    MaxTime = 3
    MaxBlocks = 3
INVARIANTS
    NoEventLost
    ChangesAreAnnounced
PROPERTIES
    PushInvalidates
    EventsArrive
