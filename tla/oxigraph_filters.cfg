SPECIFICATION Spec
CONSTANTS
    Requests = {r1, r2}
    NoCall = NoCall
    Wildcard = ""
    ResultLimit = 3
    MaxRestarts = 1
    Names <- MCNames
    Keys <- MCKeys
    ValidNames <- MCValidNames
    Lower <- MCLower
    Subject <- MCSubject
    Predicate <- MCPredicate
    Object <- MCObject
    Literals <- MCLiterals
    DateTimes <- MCDateTimes
    SensorNames <- MCSensorNames
    Containing <- MCContaining
    Calls <- MCCalls
INVARIANT FiltersSelect
CHECK_DEADLOCK FALSE
