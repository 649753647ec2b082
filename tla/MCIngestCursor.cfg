CONSTANTS
    s1 = s1
    s2 = s2
    Requests <- MCRequests
    Signal <- MCSignal
    Batch <- MCBatch
    Trace <- MCTrace
    failures = failures
    latency = latency
    memory = memory
    Services = {s1, s2}
    Names = {failures, latency, memory}
    Notable = {failures, latency}
    MaxShown = 1
    Sessions = {"agent", "script"}
    Offered <- MCOffered
    MaxCalls <- MCMaxCalls
    MaxEvictions = 1
SPECIFICATION Spec
INVARIANTS
    TypeOK
    NumbersAreUnique
    OldTelemetryStaysOut
    NewTelemetryIsReported
    ServicesAreListed
    ResetRemovesEarlierTelemetry
CHECK_DEADLOCK FALSE
