SPECIFICATION Spec
CONSTANTS
    Unreadable = Unreadable
    MaxEntries = 4
    Field <- MCField
    FileLists <- DocumentedFiles
    Records <- DocumentedRecords
    StaticScalar <- MCStaticScalar
    StaticBool <- MCStaticBool
    StaticArray <- MCStaticArray
    StaticSkip <- MCStaticSkip
    CamelCase <- MCCamelCase
    Iso <- MCIso
    PhaseIRI <- MCPhaseIRI
    CellPredicates <- MCCellPredicates
INVARIANT DocumentedMapping
CHECK_DEADLOCK FALSE
