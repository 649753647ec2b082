CONSTANTS
    TextMatches <- MCTextMatches
    SpanShapes <- MCSpanShapes
    Selectors <- MCSelectors
    Expressions <- MCExpressions
    Filters <- MCFilters
    Windows <- MCWindows
    SearchLimits <- MCSearchLimits
    NoParent = "none"
    Cutoffs = {0, 9, 13}
    Services <- MCServices
    MaxSpans = 2
    MaxBatch = 2
    MaxSeq = 3
    UnitRatio = 2
    SecondsMax = 3
    SearchSeconds = 3
    MaxI64 = 22
    DefaultRecent = 1
    MaxSearch = 2
    MaxDepth = 2
    DefaultPage = 2
    MaxPage = 3
SPECIFICATION SearchSpec
INVARIANTS
    IndexesExact
    SelectorsFindTheirSpans
    DescendantIsTransitiveClosure
    SearchesKeepNewest
    TreesShowEverySpan
    PagesSurviveIngestion
PROPERTIES
    ImplementsSignalStore
    CapacityTakesOldestTraces
