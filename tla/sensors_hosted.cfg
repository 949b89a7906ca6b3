SPECIFICATION Spec
CONSTANTS
    Requests = {r1, r2}
    NoCall = NoCall
    NoRecord = NoRecord
    Wildcard = ""
    Versions = {"v1", "v2"}
    ResultLimit = 5
    MaxRestarts = 1
    Names <- MCNames
    Keys <- MCKeys
    ValidNames <- MCValidNames
    Lower <- MCLower
    Subject <- MCSubject
    Predicate <- MCPredicate
    Object <- MCObject
    DateTimes <- MCDateTimes
    SensorNames <- MCSensorNames
    Containing <- MCContaining
    SeedGraphs <- MCSeedGraphs
    FoxdenDids <- MCFoxdenDids
    RecordToTriples <- MCRecordToTriples
    Calls <- MCCalls
INVARIANT SensorsHosted
CHECK_DEADLOCK FALSE
