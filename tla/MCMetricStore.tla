----------------------------- MODULE MCMetricStore -----------------------------
(* Two OTLP metrics and a remote series whose names all normalize to `a_b`,   *)
(* a histogram of a second service, and a remote series without samples.      *)
EXTENDS MetricStore

MCSuffixed(name, suffix) == name \o suffix

Metric(name, source, type, help, service, ts) ==
    [name |-> name, source |-> source, type |-> type, help |-> help,
     labels |-> {<<"service", service>>}, ts |-> ts]

MCOtlpMetrics ==
    {Metric("a_b", "a.b", "gauge", "none", "s1", 1),
     Metric("a_b", "a_b", "counter", "text", "s1", 0),
     Metric("lat", "lat", "histogram", "text", "s2", 1),
     Metric("exp", "exp", "exponential_histogram", "none", "s2", 1)}

MCBounds == <<"inf">>

MCRemoteSeries ==
    {[name |-> "a_b", labels |-> {<<"service", "s1">>}, times |-> <<1, 0>>],
     [name |-> "a_b", labels |-> {<<"service", "s2">>}, times |-> <<0>>],
     [name |-> "idle", labels |-> {<<"service", "s2">>}, times |-> << >>]}

MCInferredType == [n \in {"a_b", "idle"} |-> "unknown"]

=============================================================================
