------------------------------ MODULE MCLogSearch ------------------------------
(* Two ways in, three lines (a number, logfmt and JSON), and times written in *)
(* every unit.  A unit is twice the next smaller one; the largest time is 22. *)
EXTENDS Reports

MCPatternMatches == [p \in {"err", "error|warn"} |->
    CASE p = "err" -> {} [] p = "error|warn" -> {"error", "warn"}]

MCPatternFinds == [p \in {"err", "error|warn"} |->
    CASE p = "err" -> {"error"} [] p = "error|warn" -> {"error", "warn"}]

MCNumberOf == [t \in {"5", "2"} |-> IF t = "5" THEN Number(5) ELSE Number(2)]

Line(text, has, ways) == [text |-> text, has |-> has, bytes |-> 1, fields |-> ways]

Plain == Line("5", {"5"}, << >>)

Logfmt == Line("took=2", {"took", "="}, [w \in {"logfmt"} |-> [f \in {"took"} |-> "2"]])

Json == Line("{level,took}", {"took"},
             [w \in {"json"} |-> [f \in {"level", "took"} |-> IF f = "level" THEN "error" ELSE "5"]])

Value(instant, ts, line) == [instant |-> instant, ts |-> ts, line |-> line]

Push(labels, values) == <<[labels |-> labels, values |-> values]>>

Api == <<<<"level", "warn">>, <<"service", "api">>>>

Web == <<<<"service", "web">>>>

MCLokiPushes ==
    {Push(Api, <<Value(16, WrittenInteger(2), Plain), Value(14, WrittenInteger(7), Logfmt)>>),
     Push(Api, <<Value(20, WrittenInteger(5), Json)>>),
     Push(Web, <<Value(16, WrittenInteger(16), Json), Value(20, NotATime, Plain)>>),
     Push(Web, <<Value(20, WrittenFloat(20), Logfmt), Value(8, WrittenInteger(8), Plain)>>),
     Push(Web, << >>) \o Push(Api, <<Value(13, WrittenInteger(13), Plain)>>),
     Push(Web \o Api, << >>), Push(Web, << >>) \o Push(Api, << >>) \o Push(Web, << >>)}

Attribute(key, value) == [key |-> key, value |-> value]

Record(severity, time, line) == [severity |-> severity, time |-> time, line |-> line]

Export(attributes, records) == <<[attributes |-> attributes, records |-> records]>>

MCOtlpExports ==
    {Export(<<Attribute("service.name", "api"), Attribute("level", "error")>>,
            <<Record(9, 14, Plain), Record(17, 20, Logfmt)>>),
     Export(<<Attribute("service", "old"), Attribute("tags", "complex"), Attribute("service.name", "api")>>,
            <<Record(17, 0, Json)>>),
     Export(<< >>, <<Record(0, 30, Plain)>>)}

MCInstants == {14, 16, 20}

Eq(name, operand) == [name |-> name, op |-> "Eq", operand |-> operand]

MCMatchers ==
    {Eq("level", "error"), Eq("level", "info"), Eq("service", "api"),
     [Eq("level", "error") EXCEPT !.op = "Neq"],
     [Eq("level", "err") EXCEPT !.op = "Regex"],
     [Eq("level", "error|warn") EXCEPT !.op = "NotRegex"]}

Stage(is, pattern) == [is |-> is, pattern |-> pattern]

Extract(way) == [is |-> "extract", way |-> way]

Compare(key, op, value) == [is |-> "compare", key |-> key, op |-> op, value |-> Number(value)]

Unwrap(key) == [is |-> "unwrap", key |-> key]

MCStreamQueries ==
    {StreamQuery({Eq("service", "api")}, << >>),
     StreamQuery({[Eq("service", "api") EXCEPT !.op = "Neq"]}, <<Stage("not_contains", "=")>>),
     StreamQuery({Eq("level", "error")}, <<Extract("json"), Compare("took", "Gte", 2)>>),
     StreamQuery({[Eq("zone", "z") EXCEPT !.op = "Neq"]}, <<Stage("contains", "took")>>)}

Metric(matchers, stages, range) ==
    [is |-> "metric", matchers |-> matchers, stages |-> stages, fn |-> "rate", range |-> range]

MCMetricQueries ==
    {Metric({[Eq("zone", "z") EXCEPT !.op = "Neq"]}, << >>, 2),
     Metric({Eq("service", "api")}, <<Extract("logfmt"), Unwrap("took")>>, 4),
     Metric({Eq("service", "api")}, <<Stage("not_contains", "=")>>, 0)}

MCLimits == {0, 1, 3}

Span(trace, parent, ts, duration, service, status, attrs) ==
    [trace |-> trace, parent |-> parent, ts |-> ts, duration |-> duration, service |-> service,
     status |-> <<status>>, name |-> <<"get">>, attrs |-> attrs]

MCSpanExports ==
    {<<Span("t", NoParent, 2, 14, "web", "ok", {"k"}), Span("t", "a", 4, 4, "api", "error", {"q"})>>,
     <<Span("u", "x", 8, 4, "web", "error", {"k"})>>}

Sample(name, service, ts) ==
    [name |-> name, labels |-> <<<<"service", service>>>>, ts |-> ts, value |-> Number(1)]

MCSampleWrites ==
    {Sample("errors", "api", 9), Sample("latency", "api", 10), Sample("failures", "api", 8),
     [Sample("up", "db", 10) EXCEPT !.labels = @ \o <<<<"service", "web">>, <<"__name__", "errors">>>>]}

MCNotableNames == {"errors", "latency", "failures"}

=============================================================================
