CONSTANTS
    PatternMatches <- MCPatternMatches
    LabelSets <- MCLabelSets
    Matchers <- MCMatchers
    Timestamps = {0, 1}
    Cutoffs = {0, 1, 2}
    TraceIds = {"t"}
    NoTrace = "none"
    Services = {"a", "b"}
    MaxLogEntries = 1
    MaxBatch = 2
    MaxSeq = 4
    MaxStreams = 3
SPECIFICATION Spec
PROPERTY
    EvictsOldestFirst
