SPECIFICATION PublicationSpec
CONSTANTS
    Requests = {r1, r2, r3}
    NoCall = NoCall
    NoRecord = NoRecord
    Wildcard = ""
    Versions = {"v1"}
    ResultLimit = 5
    MaxRestarts = 1
    Publications <- MCPublications
    Missing = Missing
    Dois = {"doi"}
    NoProof = NoProof
    MaxKeys = 2
    Names <- MCNames
    Keys <- MCKeys
    ValidNames <- MCValidNames
    Lower <- MCLower
    Subject <- MCSubject
    Predicate <- MCPredicate
    Object <- MCObject
    DateTimes <- MCDateTimes
    SensorNames <- MCSensorNames
    Containing <- MCContaining
    SeedGraphs <- MCSeedGraphs
    FoxdenDids <- MCFoxdenDids
    RecordToTriples <- MCRecordToTriples
    Calls <- MCPublicationCalls
SYMMETRY Symmetry
INVARIANTS
    SignedGraphHolds
    SignedClaimsAgree
    PromisesKept
    ReadsSeeAcknowledged
CHECK_DEADLOCK FALSE
