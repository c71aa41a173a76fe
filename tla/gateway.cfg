SPECIFICATION MCSpec
CONSTANTS
    r1 = r1
    r2 = r2
    Requests = {r1, r2}
    HTTP = HTTP
    NoSelector = NoSelector
    BadQuery = BadQuery
    NoRef = NoRef
    Selectors = {HTTP, NoSelector}
    Refs <- refs
    maxConcurrentResourceFetches = 1
    enforceType = TRUE
    MediaTypes <- mediaTypes
    baseType <- baseTypes
    Textual = {"text/html", "application/json"}
    Resolvers = {"R1", "R2"}
    Strings <- strings
    Files = {"f1", "f2"}
    sha256 <- digests
    hexOf <- spelling
    Served <- answers
INVARIANTS
    SlotsExact
    ServedIsAnchored
    KeptAsServed
PROPERTIES
    RequestsDecided
