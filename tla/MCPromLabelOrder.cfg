CONSTANTS
    PatternMatches <- MCPatternMatches
    Alphabet <- MCAlphabet
    BucketBound <- MCBucketBound
    Lookback = 2
    ForwardBuffer = 1
    Second = 1
    MaxQuerySteps = 3
    Arrivals <- MCArrivals
    MaxSamples = 3
    Times <- MCTimes
    RangeExprs <- MCRangeExprs
    SelectorExprs <- MCSelectorExprs
    Joins <- MCJoins
    Matchings <- MCMatchings
    Selectors <- MCSelectors
    Quantiles <- MCQuantiles
SPECIFICATION Spec
INVARIANT MatchesOnAllLabels
