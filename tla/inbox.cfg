SPECIFICATION Spec
CONSTANTS
    Requests = {r1, r2, r3, r4}
    Types = {run}
    AnyType = AnyType
    NoCall = NoCall
    NoId = NoId
    MaxTime = 1
    Calls <- MCCalls
SYMMETRY Symmetry
INVARIANTS
    TypeOK
    ReceivedKeptOnce
    ListsTrue
    RealTimeOrder
    StatsMonotonic
PROPERTIES
    NothingTakenBack
CHECK_DEADLOCK FALSE
