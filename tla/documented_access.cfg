SPECIFICATION Spec
CONSTANTS
    MaxRequests = 2
    Calls <- MCCalls
    ListLimit = 2
    Names <- MCNames
    Keys <- MCKeys
    ValidNames <- MCValidNames
    Lower <- MCLower
    Upper <- MCUpper
    Prefixes <- MCPrefixes
    BeamlineKeys <- MCBeamlineKeys
    Candidates <- MCCandidates
    Defaults <- MCDefaults
    Unusable = Unusable
    NoConfig = NoConfig
    IRIBases = {"http://n/"}
    Worlds <- DocumentedWorlds
    TokenFile = "token.txt"
    Tokens = {"t1", "t2"}
    RecordSets <- MCRecordSets
    KnownStores = {"memory", "oxigraph"}
    NoToken = NoToken
    MaxStarts = 3
    MaxChanges = 0
INVARIANT DocumentedAccess
CHECK_DEADLOCK FALSE
