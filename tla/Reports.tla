-------------------------------- MODULE Reports --------------------------------
(***************************************************************************)
(* The reports that bring the three signals of a service together: the     *)
(* cores of the MCP tools check_health, summarize_activity and             *)
(* describe_service (src/src/mcp/synth) and the HTTP endpoints diagnose,   *)
(* summary, catalog, services and status (src/src/api).  Several of them   *)
(* compute one thing with code of their own; where a property compares two *)
(* of them, each has definitions of its own here.  They share the queries  *)
(* of the stores, the matchers for a service and for its errors, and how a *)
(* list is sorted and cut.                                                 *)
(*                                                                         *)
(* Each report reads one store after the other; here all three are read    *)
(* in one state, and module IngestCursor has what happens in between.      *)
(* Metadata of metrics, memory estimates and wording are left out.         *)
(***************************************************************************)
EXTENDS LogSearch

CONSTANTS
    SpanExports,     \* batches of spans: sequences of spans with their trace
    SampleWrites,    \* writes of one sample: [name, labels, ts, value]
    NoParent,        \* the parent_span_id of a root span
    TrendWindow,     \* five minutes
    NotableNames,    \* metric names with error, fail, duration or latency in them
    TopItems,        \* DEFAULT_TOP and, with other values, the limits of summary and diagnose
    MaxLabelValues,  \* MAX_LABEL_VALUES
    MaxItems         \* bound: entries, spans and samples ever stored

VARIABLES
    traces,   \* the trace store: trace id |-> spans
    series    \* the metric store: the series in the order of their ids, [labels, samples]

reportVars == <<store, meant, traces, series>>

Views == INSTANCE TraceViews WITH
            TextMatches <- << >>, DefaultRecent <- 20, MaxSearch <- 1000, MaxDepth <- 128

-----------------------------------------------------------------------------
(* The other two ways in, as TraceStore and MetricStore have them.  The labels
   of a data point may repeat a name, even __name__, which the store puts
   before them.                                                            *)
NoTraces == [t \in {} |-> << >>]

SpansAndSamples ==
    MapThenSumSet(LAMBDA t : Len(traces[t]), DOMAIN traces)
        + MapThenSumSet(LAMBDA i : Len(series[i].samples), DOMAIN series)

ExportSpans(batch) ==
    LET arrived == {batch[i].trace : i \in DOMAIN batch}
    IN  /\ traces' = [t \in DOMAIN traces \cup arrived |->
                         (IF t \in DOMAIN traces THEN traces[t] ELSE << >>)
                             \o SelectSeq(batch, LAMBDA s : s.trace = t)]
        /\ UNCHANGED <<store, meant, series>>

WriteSample(write) ==
    LET sample == [ts |-> write.ts, value |-> write.value]
        labels == LabelVector(<<<<"__name__", write.name>>>> \o write.labels)
        known == {i \in DOMAIN series : series[i].labels = labels}
    IN  /\ series' =
              IF known = {} THEN Append(series, [labels |-> labels, samples |-> <<sample>>])
              ELSE [i \in DOMAIN series |->
                       IF i \in known THEN [series[i] EXCEPT !.samples = AppendBatch(@, <<sample>>)]
                       ELSE series[i]]
        /\ UNCHANGED <<store, meant, traces>>

ResetAll ==
    /\ Clear
    /\ traces' = NoTraces
    /\ series' = << >>

ReportInit == Init /\ traces = NoTraces /\ series = << >>

ReportNext ==
    \/ /\ \/ \E push \in LokiPushes : PushLoki(push)
          \/ \E export \in OtlpExports : ExportLogs(export)
       /\ Len(meant') + SpansAndSamples <= MaxItems
       /\ UNCHANGED <<traces, series>>
    \/ \E batch \in SpanExports :
          ExportSpans(batch) /\ Len(meant) + SpansAndSamples + Len(batch) <= MaxItems
    \/ \E write \in SampleWrites :
          WriteSample(write) /\ Len(meant) + SpansAndSamples < MaxItems
    \/ ResetAll

ReportSpec == ReportInit /\ [][ReportNext]_reportVars

-----------------------------------------------------------------------------
(* Who is known: get_label_values("service") and service_names. *)
LabelledWith(held, name) == {i \in DOMAIN held : name \in DOMAIN held[i].labels}

LogServices ==
    UNION {Range(store[i].labels["service"]) : i \in LabelledWith(store, "service")}

MetricServices ==
    UNION {Range(series[i].labels["service"]) : i \in LabelledWith(series, "service")}

TraceServices == UNION {{s.service : s \in ToSet(traces[t])} : t \in DOMAIN traces}

KnownServices == LogServices \cup MetricServices \cup TraceServices

(* GET /api/v1/services, and the counts of GET /api/v1/status. *)
ListServices ==
    [service \in KnownServices |->
        {signal \in {"logs", "metrics", "traces"} :
            \/ signal = "logs" /\ service \in LogServices
            \/ signal = "metrics" /\ service \in MetricServices
            \/ signal = "traces" /\ service \in TraceServices}]

Status ==
    [entries |-> MapThenSumSet(LAMBDA i : Len(store[i].entries), DOMAIN store),
     series |-> Len(series), samples |-> MapThenSumSet(LAMBDA i : Len(series[i].samples), DOMAIN series),
     spans |-> MapThenSumSet(LAMBDA t : Len(traces[t]), DOMAIN traces),
     traces |-> Cardinality(DOMAIN traces), services |-> Cardinality(KnownServices)]

-----------------------------------------------------------------------------
(* Entries of the streams the matchers select, in the order they are read. *)
ServiceIs(service) == [name |-> "service", op |-> "Eq", operand |-> service]

LevelIsError == [name |-> "level", op |-> "Eq", operand |-> "error"]

Read(matchers, start, end) ==
    LET ids == QueryStreams(store, matchers)
    IN  FlattenSeq([k \in DOMAIN ids |-> InWindow(store[ids[k]].entries, start, end)])

Errors(service, start, end) == Read({ServiceIs(service), LevelIsError}, start, end)

(* The series select_series finds for a service, and the ones the label index
   lists for it.                                                           *)
SelectedSeries(service) ==
    LET ids == QueryStreams(series, {ServiceIs(service)})
    IN  [k \in DOMAIN ids |-> series[ids[k]]]

Indexed(held, service) ==
    {i \in LabelledWith(held, "service") : service \in Range(held[i].labels["service"])}

FirstName(s) == s.labels["__name__"][1]

NewestFirst(entries) == SortByKey(entries, [i \in DOMAIN entries |-> Number(-entries[i].ts)])

HourAgo == Saturate(Now - Lookback)

(* Traces with a span of the service; all their spans count. *)
TracesFor(service) == {t \in DOMAIN traces : \E s \in ToSet(traces[t]) : s.service = service}

Failing(ids) == {t \in ids : Views!ErrorCount(traces[t]) > 0}

Ratio(part, whole) == IF whole = 0 THEN Number(0) ELSE Divide(Number(part), Number(whole))

DurationOf(t) == Views!TraceResult(traces[t]).duration

(* Lists of the slowest traces, equal ones in the order of a hash table. *)
SlowestFirst(ids) ==
    {Views!Truncate(order, TopItems) :
        order \in {o \in SetToSeqs(ids) :
                      \A i, j \in DOMAIN o : i < j => DurationOf(o[i]) >= DurationOf(o[j])}}

-----------------------------------------------------------------------------
(* Scores start at 100 and stay between 0 and 100. *)
AtMost(value, bound) == IF Less(bound, value) THEN bound ELSE value

Score(penalties) ==
    LET left == Subtract(Number(100), Total(penalties))
    IN  Clamp(left, <<Number(0)>>, <<Number(100)>>)

(* An overview lists services worst first, equal ones in any order. *)
WorstFirst(health) ==
    {order \in SetToSeqs(DOMAIN health) :
        \A i, j \in DOMAIN order :
            i < j => ~Less(health[order[j]].score, health[order[i]].score)}

(* Named series of a service with error, fail, duration or latency in their
   names, each with its last sample, in the order of their ids.            *)
NotableMetrics(service) ==
    LET notable == SelectSeq(SelectedSeries(service),
                      LAMBDA s : "__name__" \in DOMAIN s.labels /\ FirstName(s) \in NotableNames)
    IN  [i \in DOMAIN notable |->
            [name |-> FirstName(notable[i]), last |-> Last(notable[i].samples)]]

(* Over the traces with a span in the window; without a checkpoint every span
   is in it.                                                               *)
ActivityRatio(service) ==
    LET shown == {t \in TracesFor(service) : Len(traces[t]) > 0}
        spans == MapThenSumSet(LAMBDA t : Len(traces[t]), shown)
        failed == MapThenSumSet(LAMBDA t : Views!ErrorCount(traces[t]), shown)
    IN  Ratio(failed, spans)

(* summarize_activity without a checkpoint. *)
SummarizeActivity(service) ==
    LET errors == Errors(service, Earliest, MaxI64)
        failing == Failing(TracesFor(service))
    IN  [errors |-> Len(errors), total |-> Len(Read({ServiceIs(service)}, Earliest, MaxI64)),
         top |-> Views!Truncate(NewestFirst(errors), TopItems),
         failing |-> Cardinality(failing), traces |-> Cardinality(TracesFor(service)),
         notable |-> SlowestFirst(failing),
         score |-> Score(<<AtMost(Multiply(ActivityRatio(service), Number(30)), Number(30)),
                           AtMost(Number(Len(errors)), Number(40))>>),
         metrics |-> Views!Truncate(NotableMetrics(service), TopItems),
         truncated |-> [logs |-> Len(errors) > TopItems, traces |-> Cardinality(failing) > TopItems,
                        metrics |-> Len(NotableMetrics(service)) > TopItems]]

(* check_health: one pass over each store.  A stream counts for the first of
   its service labels, a trace for each service it has a span of.          *)
LogErrorsOf(service) ==
    LET counted == {i \in DOMAIN store :
            /\ "service" \in DOMAIN store[i].labels /\ store[i].labels["service"][1] = service
            /\ "level" \in DOMAIN store[i].labels /\ "error" \in Range(store[i].labels["level"])}
    IN  MapThenSumSet(LAMBDA i : Len(store[i].entries), counted)

(* Mutant: a service is credited with its own spans only. *)
Credited_Own(service, t) == SelectSeq(traces[t], LAMBDA s : s.service = service)

Credited(service, t) ==
    IF \E s \in ToSet(traces[t]) : s.service = service THEN traces[t] ELSE << >>

CheckHealth ==
    [service \in KnownServices |->
        LET count(f(_)) == MapThenSumSet(LAMBDA t : f(Credited(service, t)), DOMAIN traces)
            ratio == Ratio(count(Views!ErrorCount), count(Len))
            errors == LogErrorsOf(service)
            failing == {t \in DOMAIN traces : Views!ErrorCount(Credited(service, t)) > 0}
        IN  [score |-> Score(<<AtMost(Multiply(ratio, Number(30)), Number(30)),
                               AtMost(Number(errors), Number(40))>>),
             issue |-> IF errors > 0 THEN <<"error logs", errors>>
                       ELSE IF failing # {} THEN <<"failing traces", Cardinality(failing)>>
                       ELSE <<"none">>]]

-----------------------------------------------------------------------------
(* GET /api/v1/diagnose.  The overview and the assessment of one service look
   at the logs of the last hour; only the latter looks at latency.         *)
OverviewRate(service) ==
    LET total == Len(Read({ServiceIs(service)}, HourAgo, Now))
        errors == Len(Errors(service, HourAgo, Now))
    IN  Multiply(Ratio(errors, total), Number(100))

(* Mutant: the spans of the service against those of its whole traces. *)
OverviewRatio_Own(service) ==
    LET own(t) == SelectSeq(traces[t], LAMBDA s : s.service = service)
    IN  Ratio(MapThenSumSet(LAMBDA t : Views!ErrorCount(own(t)), TracesFor(service)),
              MapThenSumSet(LAMBDA t : Len(traces[t]), TracesFor(service)))

OverviewRatio(service) ==
    Ratio(MapThenSumSet(LAMBDA t : Views!ErrorCount(traces[t]), TracesFor(service)),
          MapThenSumSet(LAMBDA t : Len(traces[t]), TracesFor(service)))

ComputeServiceHealth(service) ==
    LET rate == OverviewRate(service)
        ratio == OverviewRatio(service)
    IN  [score |-> Score(<<AtMost(rate, Number(40)), AtMost(Multiply(ratio, Number(30)), Number(30))>>),
         issue |-> CASE Less(Number(10), rate) -> "high log error rate"
                     [] ~Less(Number(10), rate) /\ Less(<<1, 10>>, ratio) -> "span errors"
                     [] ~Less(Number(10), rate) /\ ~Less(<<1, 10>>, ratio) ->
                           IF Less(Number(0), rate) THEN "log error rate"
                           ELSE IF Less(Number(0), ratio) THEN "span errors" ELSE "none"]

DiagnoseGlobal == [service \in KnownServices |-> ComputeServiceHealth(service)]

(* Mutant: the errors of the hour against all entries. *)
AssessedRate_AllEntries(service) ==
    LET total == Len(Read({ServiceIs(service)}, Earliest, MaxI64))
        errors == Len(Errors(service, HourAgo, Now))
    IN  IF total > 0 THEN Divide(Number(100 * errors), Number(total)) ELSE Number(0)

(* From the stream ids that the recent errors and the trend use as well. *)
AssessedRate(service) ==
    LET total == Len(Read({ServiceIs(service)}, HourAgo, Now))
        errors == Len(Errors(service, HourAgo, Now))
    IN  IF total > 0 THEN Divide(Number(100 * errors), Number(total)) ELSE Number(0)

(* In the pass that collects the durations. *)
AssessedRatio(service) ==
    LET ids == SetToSeq(TracesFor(service))
        spans == FlattenSeq([k \in DOMAIN ids |-> traces[ids[k]]])
    IN  Ratio(Views!ErrorCount(spans), Len(spans))

(* The 99th percentile of the durations: rank 0.99 n, rounded up. *)
LatencyP99(service) ==
    LET ids == SetToSeq(TracesFor(service))
        durations == [i \in DOMAIN ids |-> Number(DurationOf(ids[i]))]
        rank == -((-99 * Len(ids)) \div 100)
    IN  IF ids = << >> THEN Number(0) ELSE SortByKey(durations, durations)[rank]

Slow(p99) == Less(Number(UnitNs("s")), p99)

LatencyPenalty(p99) ==
    IF ~Slow(p99) THEN Number(0)
    ELSE AtMost(Multiply(Divide(Subtract(p99, Number(UnitNs("s"))), Number(UnitNs("s"))), Number(10)),
                Number(20))

Trend(service) ==
    LET current == Len(Errors(service, Saturate(Now - TrendWindow), Now))
        previous == Len(Errors(service, Saturate(Now - 2 * TrendWindow), Saturate(Now - TrendWindow)))
    IN  [current |-> current, previous |-> previous,
         direction |-> IF current > previous THEN "increasing"
                       ELSE IF current < previous THEN "decreasing" ELSE "stable"]

Suggestions(service) ==
    {s \in {"error logs", "error spans", "slow spans"} :
        \/ s = "error logs" /\ Errors(service, HourAgo, Now) # << >>
        \/ s = "error spans" /\ Less(Number(0), AssessedRatio(service))
        \/ s = "slow spans" /\ Slow(LatencyP99(service))}

KeyMetrics(service) ==
    LET named == SelectSeq(SelectedSeries(service), LAMBDA s : "__name__" \in DOMAIN s.labels)
    IN  [i \in DOMAIN named |->
            [name |-> FirstName(named[i]),
             sparkline |-> Reverse(Views!Truncate(Reverse(named[i].samples), TopItems))]]

DiagnoseService(service) ==
    LET p99 == LatencyP99(service)
    IN  [score |-> Score(<<AtMost(AssessedRate(service), Number(40)),
                           AtMost(Multiply(AssessedRatio(service), Number(30)), Number(30)),
                           LatencyPenalty(p99)>>),
         p99 |-> p99, slowest |-> SlowestFirst(TracesFor(service)), trend |-> Trend(service),
         errors |-> Views!Truncate(NewestFirst(Errors(service, HourAgo, Now)), TopItems),
         metrics |-> KeyMetrics(service),
         suggested |-> IF Suggestions(service) = {} THEN {"all logs"} ELSE Suggestions(service)]

-----------------------------------------------------------------------------
(* GET /api/v1/summary.  The metrics are sorted by the text of their times,
   here of one or two digits, which is the order of time only among texts of
   one length.                                                             *)
Digits(n) == IF n < 10 THEN <<n, -1>> ELSE <<n \div 10, n % 10>>

TextKey(n) == Number(Digits(n)[1] * 11 + Digits(n)[2] + 1)

SummaryMetrics(service) ==
    LET named == Indexed(series, service) \cap LabelledWith(series, "__name__")
        telling == Ascending({i \in named : FirstName(series[i]) \in NotableNames})
        items == [k \in DOMAIN telling |->
                     [name |-> FirstName(series[telling[k]]), last |-> Last(series[telling[k]].samples)]]
    IN  Views!Truncate(SortByKey(items, [i \in DOMAIN items |-> Negate(TextKey(items[i].last.ts))]), TopItems)

(* Only failed spans of the service itself count. *)
OwnFailing(service) ==
    {t \in TracesFor(service) :
        \E s \in ToSet(traces[t]) : s.service = service /\ s.status = <<"error">>}

Summary(service) ==
    [logs |-> Views!Truncate(NewestFirst(Errors(service, HourAgo, Now)), TopItems),
     metrics |-> SummaryMetrics(service), traces |-> SlowestFirst(OwnFailing(service))]

-----------------------------------------------------------------------------
(* GET /api/v1/catalog takes every __name__ of a series for a metric, and
   describe_service, which adds the values of labels, the first one only.  *)
CatalogMetrics(service) ==
    UNION {Range(series[i].labels["__name__"]) :
              i \in Indexed(series, service) \cap LabelledWith(series, "__name__")}

DescribedMetrics(service) ==
    {FirstName(s) : s \in {r \in ToSet(SelectedSeries(service)) : "__name__" \in DOMAIN r.labels}}

(* Mutant: the keys of all spans of the traces the service takes part in. *)
CatalogAttributes_WholeTrace(service) ==
    {key \in UNION {s.attrs : s \in UNION {ToSet(traces[t]) : t \in DOMAIN traces}} :
        \E t \in TracesFor(service) : \E s \in ToSet(traces[t]) : key \in s.attrs}

CatalogAttributes(service) ==
    {key \in UNION {s.attrs : s \in UNION {ToSet(traces[t]) : t \in DOMAIN traces}} :
        \E t \in TracesFor(service) : \E s \in ToSet(traces[t]) :
            s.service = service /\ key \in s.attrs}

DescribedAttributes(service) ==
    UNION {UNION {s.attrs : s \in {r \in ToSet(traces[t]) : r.service = service}} : t \in TracesFor(service)}

Catalog(service) ==
    [metrics |-> CatalogMetrics(service),
     labels |-> UNION {DOMAIN store[i].labels : i \in Indexed(store, service)},
     attributes |-> CatalogAttributes(service)]

DescribeService(service) ==
    LET ids == ToSet(QueryStreams(store, {ServiceIs(service)}))
        values(key) == UNION {Range(store[i].labels[key]) :
                                 i \in {j \in ids : key \in DOMAIN store[j].labels}}
    IN  [metrics |-> DescribedMetrics(service),
         labels |-> [key \in UNION {DOMAIN store[i].labels : i \in ids} |->
             [count |-> Min({Cardinality(values(key)), MaxLabelValues}),
              truncated |-> Cardinality(values(key)) > MaxLabelValues]],
         attributes |-> DescribedAttributes(service)]

-----------------------------------------------------------------------------
(* The issues that an overview names are in the order of the scores: nothing
   is wrong with the services behind one that has no issue.                *)
IssuesFirst(health, none) ==
    \A order \in WorstFirst(health) : \A i, j \in DOMAIN order :
        i < j /\ health[order[i]].issue = none => health[order[j]].issue = none

(* What the LogQL query that diagnose suggests finds at both endpoints without
   further parameters.                                                     *)
SuggestedLogs(service) ==
    LET query == StreamQuery({ServiceIs(service), LevelIsError}, << >>)
    IN  EntriesIn(Query(store, query, << >>, << >>, Now).result)
           \cap EntriesIn(QueryRange(store, query,
                   [start |-> << >>, end |-> << >>, step |-> << >>, limit |-> << >>], Now).result)

(* The two catalogs name the same keys, and the same metrics but for what a
   data point repeated as a further __name__, which only one of them shows. *)
CatalogsAgree(service) ==
    LET c == Catalog(service)
        full == DescribeService(service)
        repeated == UNION {Range(Tail(series[i].labels["__name__"])) :
                              i \in LabelledWith(series, "__name__")}
    IN  /\ c.labels = DOMAIN full.labels
        /\ c.attributes = full.attributes
        /\ full.metrics \subseteq c.metrics
        /\ c.metrics \ full.metrics \subseteq repeated

(* The counts of the status page and the signals of the list of services
   against the activity of the services; an entry without a service counts
   for none of them.                                                       *)
ActivityIsCounted ==
    LET total(service) == SummarizeActivity(service).total
        signals == ListServices
    IN  /\ MapThenSumSet(total, DOMAIN signals) <= Status.entries
        /\ \A service \in DOMAIN signals :
              LET a == SummarizeActivity(service)
              IN  /\ a.total > 0 => "logs" \in signals[service]
                  /\ a.traces > 0 <=> "traces" \in signals[service]
                  /\ a.metrics # << >> => "metrics" \in signals[service]

(* Reports computed by separate code agree.  check_health scores every
   service as summarize_activity does and names the same counts.  The two
   scores of diagnose differ by the penalty for latency alone, and the assessment of a
   service suggests to look at error logs and error spans exactly where the
   overview and summarize_activity count some.  A trace that summary calls
   failing is a failing one to the others, its metrics are among those
   summarize_activity takes as telling, and its logs are found by the query
   that diagnose suggests.  The two catalogs agree.  The list of services has
   a signal for whatever a summary counts, and the status page counts no
   entry less.                                                             *)
ReportsAgree ==
    LET health == CheckHealth
        overview == DiagnoseGlobal
    IN  /\ ActivityIsCounted
        /\ IssuesFirst(health, <<"none">>) /\ IssuesFirst(overview, "none")
        /\ \A service \in KnownServices :
              LET a == SummarizeActivity(service)
                  d == DiagnoseService(service)
                  s == Summary(service)
              IN  /\ Same(health[service].score, a.score)
                  /\ health[service].issue =
                        IF a.errors > 0 THEN <<"error logs", a.errors>>
                        ELSE IF a.failing > 0 THEN <<"failing traces", a.failing>> ELSE <<"none">>
                  /\ Same(Subtract(overview[service].score, LatencyPenalty(d.p99)), d.score)
                  /\ Less(Number(0), OverviewRate(service)) <=> "error logs" \in d.suggested
                  /\ a.failing > 0 <=> "error spans" \in d.suggested
                  /\ OwnFailing(service) # {} => a.failing > 0
                  /\ ToSet(s.metrics) \subseteq ToSet(NotableMetrics(service))
                  /\ ToSet(s.logs) \subseteq SuggestedLogs(service)
                  /\ CatalogsAgree(service)

=============================================================================
