CONSTANTS
    PatternMatches = {}
    OtlpMetrics <- MCOtlpMetrics
    Bounds <- MCBounds
    RemoteSeries <- MCRemoteSeries
    InferredType <- MCInferredType
    Suffixed <- MCSuffixed
    NoHelp = "none"
    Cutoffs = {0, 1, 2}
    Services = {"s1", "s2"}
    MaxSeries = 2
    MaxRequest = 2
    MaxSeq = 4
    MaxIds = 6
SPECIFICATION Spec
INVARIANTS
    SeriesIndexesExact
    OneSourcePerName
PROPERTIES
    KnownTypesStick
    ImplementsSignalStore
