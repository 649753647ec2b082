CONSTANTS
    PatternMatches <- MCPatternMatches
    PatternFinds <- MCPatternFinds
    NumberOf <- MCNumberOf
    UnitRatio = 2
    SecondsMax = 3
    SearchSeconds = 3
    MaxI64 = 22
    Lookback = 6
    MaxQuerySteps = 3
    DefaultEntries = 4
    MaxEntries = 5
    DefaultLogs = 1
    MaxLogs = 2
    LokiPushes <- MCLokiPushes
    OtlpExports <- MCOtlpExports
    Now = 18
    Instants <- MCInstants
    StreamQueries <- MCStreamQueries
    MetricQueries <- MCMetricQueries
    Limits <- MCLimits
    Matchers <- MCMatchers
    MaxLokiStreams = 2
    MaxLokiLabels = 2
    SpanExports <- MCSpanExports
    SampleWrites <- MCSampleWrites
    NoParent = "none"
    TrendWindow = 2
    NotableNames <- MCNotableNames
    TopItems = 1
    MaxLabelValues = 1
    MaxItems = 4
SPECIFICATION ReportSpec
INVARIANTS
    PushedInstantsAreFound
    NewestAreKept
    QueryLogsIsHonest
    CountsCoverTheWindow
    FiltersFollowSelectors
    ReportsAgree
