------------------------------ MODULE LogSearch ------------------------------
(***************************************************************************)
(* Log records from the wire to the answers of LogQL: the Loki push        *)
(* handler (src/src/ingest/loki.rs), OTLP log ingestion                    *)
(* (src/src/ingest/otlp_logs.rs, label.rs) and queries over what they      *)
(* store.  A request is decoded, its records are grouped by their labels   *)
(* and each group is stored with ingest_stream, all under one write lock.  *)
(* Times are written by clients as text; `meant` remembers what the sender *)
(* of an entry had in mind: its instant, and the level of its severity.    *)
(* Module Reports adds the other two signals and the next-state relation.  *)
(***************************************************************************)
EXTENDS LogQL

CONSTANTS
    LokiPushes,     \* push requests: sequences of [labels, values]
    OtlpExports,    \* export requests: sequences of [attributes, records]
    Now,            \* the server's clock
    Instants,       \* instants clients mean
    StreamQueries,  \* stream queries to ask
    MetricQueries,  \* metric queries to ask
    Limits,         \* limits to ask for
    Matchers,       \* conditions to ask for as a selector and as a filter
    MaxLokiStreams, \* MAX_LOKI_STREAMS_PER_REQUEST
    MaxLokiLabels   \* MAX_LOKI_LABELS_PER_STREAM

(* What comes in is decoded JSON or protobuf: an integer time of a push fits
   an i64, a time of an export is unsigned.  A limit is unsigned.  A label
   filter whose regex does not compile does not parse.  A client writes the
   instant it means in some unit, one that reads of every unit at least.   *)
I64 == -MaxI64 - 1 .. MaxI64

ASSUME RequestConstants ==
    /\ Now \in 0 .. MaxI64
    /\ Limits \subseteq Nat
    /\ \A i \in Instants : i \in Int /\ Recognised(i)
    /\ \A push \in LokiPushes :
          /\ push \in Seq(Range(push))
          /\ \A i \in DOMAIN push :
                /\ push[i].labels \in Seq(Range(push[i].labels))
                /\ push[i].values \in Seq(Range(push[i].values))
                /\ \A k \in DOMAIN push[i].values :
                      LET t == push[i].values[k].ts
                          instant == push[i].values[k].instant
                      IN  /\ t.is \in {"integer", "float", "text"}
                          /\ t.n \in Int /\ (t.is = "integer" => t.n \in I64)
                          /\ instant \in Int
                          /\ Recognised(instant) /\ t.is # "text" =>
                                t \in Writings(instant, Units) \cup {WrittenFloat(instant)}
    /\ \A export \in OtlpExports :
          /\ export \in Seq(Range(export))
          /\ \A i \in DOMAIN export :
                /\ export[i].attributes \in Seq(Range(export[i].attributes))
                /\ export[i].records \in Seq(Range(export[i].records))
                /\ \A k \in DOMAIN export[i].records : export[i].records[k].time \in Nat
    /\ \A query \in StreamQueries : query.is = "streams"
    /\ \A m \in Matchers : m.op \in {"Eq", "Neq", "Regex", "NotRegex"} /\ ValidMatcher(m)

VARIABLES
    store,   \* the streams, in the order of their ids: [labels, entries]
    meant    \* by ingest_seq, what the sender of each entry meant: [instant, level]

Init == store = << >> /\ meant = << >>

-----------------------------------------------------------------------------
(* ingest_stream.  The labels are sorted by name, values of one name in the
   order the client gave them: two vectors that differ otherwise are one.   *)
LabelVector(pairs) ==
    [n \in {pairs[i][1] : i \in DOMAIN pairs} |->
        LET ofName == ItemsAt(pairs, {i \in DOMAIN pairs : pairs[i][1] = n})
        IN  [i \in DOMAIN ofName |-> ofName[i][2]]]

IngestStream(streams, pairs, entries) ==
    LET labels == LabelVector(pairs)
        known == {i \in DOMAIN streams : streams[i].labels = labels}
    IN  IF known = {}
        THEN Append(streams, [labels |-> labels, entries |-> AppendBatch(<< >>, entries)])
        ELSE [i \in DOMAIN streams |->
                 IF i \in known
                 THEN [labels |-> labels, entries |-> AppendBatch(streams[i].entries, entries)]
                 ELSE streams[i]]

(* What both handlers do under the lock, with the batches they prepared. *)
StoreBatches(batches) ==
    LET upTo[n \in 0 .. Len(batches)] ==
            IF n = 0 THEN store
            ELSE IngestStream(upTo[n - 1], batches[n].labels, batches[n].entries)
    IN  store' = upTo[Len(batches)]

NoLevel == "none"

-----------------------------------------------------------------------------
(* push_handler and ingest_loki_push.  An entry whose time does not parse is
   dropped; a stream left without entries is stored all the same.  An entry
   takes its number as it is prepared.                                     *)
Accepted(push) ==
    /\ Len(push) <= MaxLokiStreams
    /\ \A i \in DOMAIN push : Len(push[i].labels) <= MaxLokiLabels

Readable(push) ==
    UNION {{i} \X {k \in DOMAIN push[i].values : ParseTimestampNs(push[i].values[k].ts) # << >>} :
              i \in DOMAIN push}

PreparedValues(push) ==
    LET slots == SlotsInOrder(Readable(push))
    IN  [n \in DOMAIN slots |->
            LET value == push[slots[n][1]].values[slots[n][2]]
            IN  [stream |-> slots[n][1], instant |-> value.instant,
                 entry |-> [ts |-> ParseTimestampNs(value.ts)[1], seq |-> Len(meant) + n,
                            line |-> value.line]]]

(* The entries of the prepared records at some positions. *)
EntriesAt(prepared, numbers) == ItemsAt([n \in DOMAIN prepared |-> prepared[n].entry], numbers)

PushLoki(push) ==
    LET prepared == PreparedValues(push)
    IN  /\ Accepted(push)
        /\ StoreBatches([i \in DOMAIN push |->
               [labels |-> push[i].labels,
                entries |-> EntriesAt(prepared, {n \in DOMAIN prepared : prepared[n].stream = i})]])
        /\ meant' = meant \o [n \in DOMAIN prepared |->
                       [instant |-> prepared[n].instant, level |-> NoLevel]]

-----------------------------------------------------------------------------
(* extract_key_values: an attribute with a complex value is dropped. *)
ExtractResourceLabels(attributes) ==
    LET plain == ItemsAt(attributes, {i \in DOMAIN attributes : attributes[i].value # "complex"})
    IN  [i \in DOMAIN plain |-> <<plain[i].key, plain[i].value>>]

(* promote_service_name: the first service.name becomes the value of the
   first service label, or of a new one.                                   *)
FirstNamed(pairs, name) ==
    {i \in DOMAIN pairs : pairs[i][1] = name /\ \A j \in 1 .. i - 1 : pairs[j][1] # name}

PromoteServiceName(pairs) ==
    LET promoted == FirstNamed(pairs, "service.name")
        service == <<"service", pairs[CHOOSE i \in promoted : TRUE][2]>>
        rest == ItemsAt(pairs, DOMAIN pairs \ promoted)
        existing == FirstNamed(rest, "service")
    IN  IF promoted = {} THEN pairs
        ELSE IF existing = {} THEN Append(rest, service)
        ELSE [i \in DOMAIN rest |-> IF i \in existing THEN service ELSE rest[i]]

SeverityToLevel(n) ==
    CASE n \in 1 .. 4 -> "trace"
      [] n \in 5 .. 8 -> "debug"
      [] n \in 9 .. 12 -> "info"
      [] n \in 13 .. 16 -> "warn"
      [] n \in 17 .. 20 -> "error"
      [] n \in 21 .. 24 -> "fatal"
      [] OTHER -> "unknown"

(* Mutant: the derived level stands before the labels of the resource. *)
RecordLabels_LevelFirst(resource, severity) ==
    <<<<"level", SeverityToLevel(severity)>>>>
        \o PromoteServiceName(ExtractResourceLabels(resource.attributes))

RecordLabels(resource, severity) ==
    PromoteServiceName(ExtractResourceLabels(resource.attributes))
        \o <<<<"level", SeverityToLevel(severity)>>>>

(* The time of a record: the clock's if it has none, and at most i64::MAX. *)
RecordTime(time_unix_nano) ==
    IF time_unix_nano = 0 THEN Now ELSE Saturate(time_unix_nano)

(* All records of a request with their labels and numbers, in its order. *)
PreparedRecords(export) ==
    LET slots == SlotsInOrder(UNION {{i} \X DOMAIN export[i].records : i \in DOMAIN export})
    IN  [n \in DOMAIN slots |->
            LET resource == export[slots[n][1]]
                record == resource.records[slots[n][2]]
            IN  [level |-> SeverityToLevel(record.severity),
                 labels |-> RecordLabels(resource, record.severity),
                 entry |-> [ts |-> RecordTime(record.time), seq |-> Len(meant) + n,
                            line |-> record.line]]]

(* ingest_logs groups the records by equal label vectors, in the order in
   which the vectors come.                                                 *)
GroupRecords(prepared) ==
    LET firsts == Ascending({n \in DOMAIN prepared :
                      \A m \in 1 .. n - 1 : prepared[m].labels # prepared[n].labels})
        labels(g) == prepared[firsts[g]].labels
    IN  [g \in DOMAIN firsts |->
            [labels |-> labels(g),
             entries |-> EntriesAt(prepared, {n \in DOMAIN prepared : prepared[n].labels = labels(g)})]]

ExportLogs(export) ==
    LET prepared == PreparedRecords(export)
    IN  /\ StoreBatches(GroupRecords(prepared))
        /\ meant' = meant \o [n \in DOMAIN prepared |->
                       [instant |-> prepared[n].entry.ts, level |-> prepared[n].level]]

Clear ==
    /\ store' = << >>
    /\ UNCHANGED meant

-----------------------------------------------------------------------------
Earliest == -MaxI64 - 1

StreamQuery(matchers, stages) ==
    [is |-> "streams", matchers |-> matchers, stages |-> stages, fn |-> "none", range |-> 0]

AllEntries == UNION {ToSet(store[i].entries) : i \in DOMAIN store}

(* All entries a stream query finds, without a limit. *)
Found(query) == EntriesIn(EvaluateUnlimited(store, query, Earliest, MaxI64))

Newer(x, y) == x.ts > y.ts

(* A written query_range without a step. *)
Asked(start, end) == [start |-> <<start>>, end |-> <<end>>, step |-> << >>, limit |-> << >>]

(* An instant is the same in every unit: an entry pushed with its time in
   any unit is found by a query for the instant written in any unit, first
   and last instant of the window included, and nothing else is.  PromQL and
   trace search read the same instant, except that neither knows
   microseconds.                                                           *)
PushedInstantsAreFound ==
    \A i \in Instants : \A from, to \in Writings(i, Units) \cup {WrittenFloat(i)} :
        LET found == EntriesIn(QueryRange(store, StreamQuery({}, << >>), Asked(from, to), Now).result)
        IN  /\ {x \in found : Recognised(meant[x.seq].instant)} =
                  {x \in AllEntries : meant[x.seq].instant = i}
            /\ \A w \in Writings(i, Units \ {"us"}) :
                  /\ ParamToNs(w.n) = i
                  /\ ParseTimestampMs(w) = ParseTimestampMs(WrittenFloat(i))

(* The heap of evaluate_limited_stream_query keeps as many entries as asked
   for and no entry older than one it leaves out, each under its own stream;
   the limit that format_logql_result applies to an unlimited result keeps
   as many of each time.                                                   *)
NewestAreKept ==
    \A query \in StreamQueries, limit \in Limits :
        LET all == EvaluateUnlimited(store, query, Earliest, MaxI64)
            found == EntriesIn(all)
            groups == Evaluate(store, query, Earliest, MaxI64, << >>, limit).result
            kept == EntriesIn(groups)
            formatted == EntriesIn(FormatStreams(store, all, limit))
            at(entries, t) == Cardinality({x \in entries : x.ts = t})
        IN  /\ kept \subseteq found
            /\ Cardinality(kept) = IF Cardinality(found) < limit THEN Cardinality(found) ELSE limit
            /\ ~\E x \in found \ kept, y \in kept : Newer(x, y)
            /\ \A x \in found : at(kept, x.ts) = at(formatted, x.ts)
            /\ \A g \in ToSet(groups) : g.entries \subseteq ToSet(store[g.id].entries)

(* query_logs says how many lines there are and whether it shows them all.
   It lists the streams one after the other before it cuts the list, so that
   the line it leaves out need not be the oldest: one newer than the lines
   shown may be missing, and no more than one.                             *)
QueryLogsIsHonest ==
    \A query \in StreamQueries, asked \in {<< >>} \cup {<<n>> : n \in Limits} :
        LET found == Found(query)
            limit == QueryLogsLimit(asked)
        IN  \A a \in QueryLogs(store, query, asked) :
               /\ a.logs \subseteq found
               /\ a.total_count = Cardinality(found)
               /\ a.truncated <=> a.total_count > limit
               /\ a.shown = IF a.truncated THEN limit ELSE a.total_count
               /\ Cardinality({x \in found \ a.logs : \E y \in a.logs : Newer(x, y)}) <= 1

-----------------------------------------------------------------------------
MetricFns ==
    {"count_over_time", "rate", "bytes_over_time", "sum_over_time", "avg_over_time",
     "min_over_time", "max_over_time"}

ValuesAt(series, id, t) ==
    {s.value : s \in {r \in UNION {ToSet(x.samples) : x \in {y \in ToSet(series) : y.id = id}} :
                        r.ts = t}}

NotAbove(a, b) == ~Less(b, a)

(* The values of one window against the number of its entries. *)
WindowAgrees(size, range, value) ==
    LET the(fn) == CHOOSE v \in value[fn] : TRUE
    IN  /\ value["count_over_time"] = {Number(size)}
        /\ range > 0 => Same(Multiply(the("rate"), Number(range)), Number(size * UnitNs("s")))
        /\ value["min_over_time"] = {} <=> value["max_over_time"] = {}
        /\ IF value["min_over_time"] = {} THEN the("avg_over_time") = Number(0)
           ELSE /\ NotAbove(the("min_over_time"), the("avg_over_time"))
                /\ NotAbove(the("avg_over_time"), the("max_over_time"))

(* Of one stream with the matching entries `found`. *)
StreamAgrees(id, found, range, times, series) ==
    LET last == CHOOSE t \in times : \A u \in times : u <= t
        size(t) == Cardinality({x \in found : t - range <= x.ts /\ x.ts <= t})
    IN  /\ \A t \in times :
              WindowAgrees(size(t), range, [fn \in MetricFns |-> ValuesAt(series[fn], id, t)])
        /\ MapThenSumSet(size, times) =
              Cardinality({x \in found : \E t \in times : t - range <= x.ts /\ x.ts <= t})
                 + Cardinality({x \in found : x.ts \in times \ {last}})

MetricAgrees(query, times, answers) ==
    LET ids == QueryStreams(store, query.matchers)
        found == Found(StreamQuery(query.matchers, query.stages))
    IN  \A i \in ToSet(ids) :
           StreamAgrees(i, found \cap ToSet(store[i].entries), query.range, times,
                        [fn \in MetricFns |-> answers[fn].result])

StepTimes(start, end, step) ==
    {t \in start .. end : t = start \/ (step > 0 /\ (t - start) % step = 0)}

(* count_over_time without a step covers the asked time with one window after
   the other.  Each counts the entries that a stream query finds between its
   two ends, both included: an entry on the border of two windows counts in
   both.  The other functions describe the same entries, and a range query
   has at most MAX_QUERY_STEPS windows.                                    *)
CountsCoverTheWindow ==
    \A query \in MetricQueries, start, end \in Instants :
        LET answers == [fn \in MetricFns |->
                           QueryRange(store, [query EXCEPT !.fn = fn],
                                      Asked(WrittenFloat(start), WrittenFloat(end)), Now)]
            times == StepTimes(start, end, query.range)
        IN  start <= end /\ answers["rate"] # Refused =>
               /\ Cardinality(times) <= MaxQuerySteps
               /\ MetricAgrees(query, times, answers)

-----------------------------------------------------------------------------
(* A label filter behind a selector: the same condition on a name that the
   stream carries once keeps what the selector selects, and an unanchored
   regex more.  On the level of an OTLP stream, which the resource may carry
   too, the filter goes by the severity of the record and the selector by
   either.                                                                 *)
FiltersFollowSelectors ==
    \A m \in Matchers :
        LET selected == Found(StreamQuery({m}, << >>))
            filter == [is |-> "label", key |-> m.name, op |-> m.op, operand |-> m.operand]
            filtered == Found(StreamQuery({}, <<filter>>))
            once == UNION {ToSet(store[i].entries) :
                       i \in {j \in DOMAIN store :
                                 m.name \in DOMAIN store[j].labels /\ Len(store[j].labels[m.name]) = 1}}
        IN  /\ m.op \in {"Eq", "Regex"} => selected \cap once \subseteq filtered
            /\ m.op \in {"Neq", "NotRegex"} => filtered \cap once \subseteq selected
            /\ m.op \in {"Eq", "Neq"} => selected \cap once = filtered \cap once
            /\ m.op = "Eq" /\ m.name = "level" =>
                  /\ filtered \subseteq selected
                  /\ \A x \in AllEntries :
                        meant[x.seq].level # NoLevel =>
                           (x \in filtered <=> meant[x.seq].level = m.operand)

=============================================================================
