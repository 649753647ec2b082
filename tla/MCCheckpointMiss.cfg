CONSTANTS
    s1 = s1
    s2 = s2
    Requests <- PushOnly
    Signal <- PushSignal
    Batch <- PushBatch
    Trace <- PushTrace
    failures = failures
    latency = latency
    memory = memory
    Services = {s1, s2}
    Names = {failures, latency, memory}
    Notable = {failures, latency}
    MaxShown = 1
    Sessions = {"agent", "script"}
    Offered <- MCOffered
    MaxCalls <- MCMaxCalls
    MaxEvictions = 0
SPECIFICATION Spec
INVARIANT CheckpointSeparatesRuns
CHECK_DEADLOCK FALSE
