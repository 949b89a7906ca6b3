SPECIFICATION Spec
CONSTANTS
    Unreadable = Unreadable
    MaxEntries = 4
    Field <- MCField
    FileLists <- MCFileLists
    Records <- MCRecords
    StaticScalar <- MCStaticScalar
    StaticBool <- MCStaticBool
    StaticArray <- MCStaticArray
    StaticSkip <- MCStaticSkip
    CamelCase <- MCCamelCase
    Iso <- MCIso
    PhaseIRI <- MCPhaseIRI
    CellPredicates <- MCCellPredicates
INVARIANTS
    TypeOK
    FirstDeclarationWins
    VisitOrderIrrelevant
    DeclaredValuesSaid
    EverySubjectTyped
CHECK_DEADLOCK FALSE
