CONSTANTS
    PatternMatches <- MCPatternMatches
    LabelSets <- MCLabelSets
    Matchers <- MCMatchers
    Timestamps = {0, 1}
    Cutoffs = {0, 1, 2}
    TraceIds = {"t"}
    NoTrace = "none"
    Services = {"a", "b"}
    MaxLogEntries = 1
    MaxBatch = 2
    MaxSeq = 4
    MaxStreams = 2
SPECIFICATION Spec
INVARIANTS
    TypeOK
    LabelIndexesExact
    QueriesExact
    StreamIdentity
    TotalIsExact
    TraceIndexComplete
PROPERTIES
    RangeReadsExact
    ImplementsSignalStore
