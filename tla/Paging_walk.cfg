SPECIFICATION Spec
CONSTANTS
    Null = None
    None = None
    Props <- MCProps
    Exprs <- MCExprs
    NotNullExprs <- MCNotNull
    Ids = {1, 2, 3}
    Rows <- MCRows
    Configs <- MCConfigs
    Filters <- MCFilters
    Sorts <- MCSorts
    Limits = {1, 2}
    WriteBudget = 1
INVARIANTS
    TypeOK
    NothingSkipped
    NothingTwice
    CountAgrees
PROPERTIES
    MissingLinkMeansEnd
    BackAndForth
