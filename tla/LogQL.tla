-------------------------------- MODULE LogQL --------------------------------
(***************************************************************************)
(* LogQL (src/src/query/logql/eval.rs and handlers.rs) and the MCP tool    *)
(* query_logs, as operators over the streams of a log store.               *)
(*                                                                         *)
(* `store` is the sequence of streams in the order of their ids, each with *)
(* its labels and its entries sorted by time.  The labels map a name to    *)
(* the sequence of its values: a name the client gave twice keeps both.    *)
(* Selection by the label index is a scan here; module LogStore finds the  *)
(* two equal.  A query is a record [is, matchers, stages, fn, range]: a    *)
(* parsed pipeline has one selector.                                       *)
(*                                                                         *)
(* A line is a record: `text`, its number of `bytes`, the set `has` of     *)
(* substrings and patterns found in it, and `fields`, which maps a way of  *)
(* extraction to the labels it finds.  A line that is no JSON has none.    *)
(***************************************************************************)
EXTENDS StoreIndex, Timestamps, PromValues, SequencesExt

CONSTANTS
    NumberOf,        \* the texts that parse as f64 |-> their value
    PatternFinds,    \* regex |-> the label values in which the regex, not anchored, is found
    Lookback,        \* one hour
    MaxQuerySteps,   \* MAX_QUERY_STEPS
    DefaultEntries,  \* DEFAULT_ENTRY_LIMIT
    MaxEntries,      \* MAX_ENTRY_LIMIT
    DefaultLogs,     \* the default limit of query_logs
    MaxLogs          \* its largest

(* A regex that matches a whole text is found in it. *)
ASSUME LogQLConstants ==
    /\ DefaultEntries \in Nat /\ MaxEntries \in Nat /\ DefaultLogs \in Nat /\ MaxLogs \in Nat
    /\ \A regex \in DOMAIN PatternMatches :
          regex \in DOMAIN PatternFinds /\ PatternMatches[regex] \subseteq PatternFinds[regex]

-----------------------------------------------------------------------------
(* convert_matchers and query_streams: the ids in ascending order.  (Those of
   a query without matchers come in the order of a hash map, so that it may
   keep other entries of one time than the ones below.)                    *)
LabelPairs(labels) == UNION {{n} \X Range(labels[n]) : n \in DOMAIN labels}

Selected(store, matchers) ==
    {i \in DOMAIN store :
        \A m \in matchers : ValidMatcher(m) /\ Satisfies(LabelPairs(store[i].labels), m)}

QueryStreams(store, matchers) == Ascending(Selected(store, matchers))

InWindow(entries, start, end) ==
    ItemsAt(entries, {k \in DOMAIN entries : start <= entries[k].ts /\ entries[k].ts <= end})

-----------------------------------------------------------------------------
(* apply_stages_with_extract: the labels extracted so far, or none once a
   stage has filtered the entry out.  The map is seeded with the labels of
   the stream, where a later value of a name replaces an earlier one.      *)

(* Mutant: the first value of a name stays. *)
SeedLabels_First(labels) == [n \in DOMAIN labels |-> labels[n][1]]

SeedLabels(labels) == [n \in DOMAIN labels |-> labels[n][Len(labels[n])]]

CompareNumbers(op, n, value) ==
    CASE op = "Gt" -> Less(value, n)
      [] op = "Gte" -> n # NaN /\ ~Less(n, value)
      [] op = "Lt" -> Less(n, value)
      [] op = "Lte" -> n # NaN /\ ~Less(value, n)

CompareLabel(op, label, operand) ==
    CASE op = "Eq" -> label = operand
      [] op = "Neq" -> label # operand
      [] op = "Regex" -> label \in PatternFinds[operand]
      [] op = "NotRegex" -> label \notin PatternFinds[operand]

PassesStage(stage, line, extracted) ==
    CASE stage.is = "contains" -> stage.pattern \in line.has
      [] stage.is = "not_contains" -> stage.pattern \notin line.has
      [] stage.is \in {"extract", "unwrap"} -> TRUE
      [] stage.is = "compare" ->
            /\ stage.key \in DOMAIN extracted
            /\ extracted[stage.key] \in DOMAIN NumberOf
            /\ CompareNumbers(stage.op, NumberOf[extracted[stage.key]], stage.value)
      [] stage.is = "label" ->
            /\ stage.key \in DOMAIN extracted
            /\ CompareLabel(stage.op, extracted[stage.key], stage.operand)

ExtractedBy(stage, line, extracted) ==
    IF stage.is = "extract" /\ stage.way \in DOMAIN line.fields
    THEN line.fields[stage.way] @@ extracted ELSE extracted

ApplyStages(line, stages, labels) ==
    LET upTo[n \in 0 .. Len(stages)] ==
            IF n = 0 THEN <<SeedLabels(labels)>>
            ELSE IF upTo[n - 1] # << >> /\ PassesStage(stages[n], line, upTo[n - 1][1])
            THEN <<ExtractedBy(stages[n], line, upTo[n - 1][1])>>
            ELSE << >>
    IN  upTo[Len(stages)]

(* The positions of the entries of a stream in a window that pass the stages. *)
KeptAt(stream, stages, start, end) ==
    {k \in DOMAIN stream.entries :
        LET e == stream.entries[k]
        IN  start <= e.ts /\ e.ts <= end /\ ApplyStages(e.line, stages, stream.labels) # << >>}

Kept(stream, stages, start, end) ==
    ItemsAt(stream.entries, KeptAt(stream, stages, start, end))

-----------------------------------------------------------------------------
(* evaluate_unlimited_stream_query. *)
Group(store, id, entries) == [id |-> id, labels |-> store[id].labels, entries |-> entries]

EvaluateUnlimited(store, e, start, end) ==
    LET at(i) == KeptAt(store[i], e.stages, start, end)
        ids == Ascending({i \in Selected(store, e.matchers) : at(i) # {}})
    IN  [g \in DOMAIN ids |->
            Group(store, ids[g], {store[ids[g]].entries[k] : k \in at(ids[g])})]

(* evaluate_limited_stream_query keeps the newest entries in a heap.  The
   heap is the set of the numbers of its elements: entries are offered in
   this order, which is also their tie-break.  What it holds is sorted by time
   again, entries of one time in no particular order: a group's entries are
   a set.                                                                  *)
CandidatesAt(store, e, start, end) ==
    UNION {{i} \X KeptAt(store[i], e.stages, start, end) : i \in Selected(store, e.matchers)}

Candidates(store, e, start, end) ==
    LET slots == SlotsInOrder(CandidatesAt(store, e, start, end))
    IN  [n \in DOMAIN slots |->
            [id |-> slots[n][1], entry |-> store[slots[n][1]].entries[slots[n][2]]]]

Oldest(offered, heap) ==
    CHOOSE i \in heap : \A j \in heap :
        \/ offered[i].entry.ts < offered[j].entry.ts
        \/ offered[i].entry.ts = offered[j].entry.ts /\ i <= j

(* Mutant: a full heap gives up its last element and not its oldest. *)
Offer_DropsLast(offered, heap, n, limit) ==
    IF Cardinality(heap) < limit THEN heap \cup {n}
    ELSE IF offered[n].entry.ts > offered[Oldest(offered, heap)].entry.ts
    THEN (heap \ {CHOOSE i \in heap : \A j \in heap : j <= i}) \cup {n}
    ELSE heap

Offer(offered, heap, n, limit) ==
    IF Cardinality(heap) < limit THEN heap \cup {n}
    ELSE IF offered[n].entry.ts > offered[Oldest(offered, heap)].entry.ts
    THEN (heap \ {Oldest(offered, heap)}) \cup {n}
    ELSE heap

Newest(offered, limit) ==
    LET heap[n \in 0 .. Len(offered)] ==
            IF n = 0 THEN {} ELSE Offer(offered, heap[n - 1], n, limit)
    IN  heap[Len(offered)]

Regroup(store, chosen) ==
    LET ids == Ascending({c.id : c \in chosen})
    IN  [g \in DOMAIN ids |->
            Group(store, ids[g], {c.entry : c \in {d \in chosen : d.id = ids[g]}})]

EvaluateLimited(store, e, start, end, limit) ==
    LET offered == Candidates(store, e, start, end)
    IN  IF limit = 0 THEN << >> ELSE Regroup(store, {offered[n] : n \in Newest(offered, limit)})

(* The second copy of the limit, in format_logql_result: all entries sorted
   newest first, entries of one time in the order of their streams.        *)
EntriesIn(groups) == UNION {groups[i].entries : i \in DOMAIN groups}

FormatStreams(store, groups, limit) ==
    LET all == UNION {{[id |-> groups[i].id, entry |-> x] : x \in groups[i].entries} :
                         i \in DOMAIN groups}
        ahead(c) == {d \in all : \/ d.entry.ts > c.entry.ts
                                 \/ d.entry.ts = c.entry.ts /\ d.id < c.id
                                 \/ /\ d.entry.ts = c.entry.ts /\ d.id = c.id
                                    /\ d.entry.seq < c.entry.seq}
    IN  IF Cardinality(all) <= limit THEN groups
        ELSE Regroup(store, {c \in all : Cardinality(ahead(c)) < limit})

-----------------------------------------------------------------------------
(* The steps of evaluate_metric_query, with advance_time. *)
Steps(start, end, step) ==
    IF start > end THEN << >>
    ELSE IF step <= 0 THEN <<start>>
    ELSE [k \in 1 .. (end - start) \div step + 1 |-> start + (k - 1) * step]

(* The number an entry contributes: of the field of the first unwrap stage,
   or of the line itself.                                                  *)
NumberText(entry, stages, labels) ==
    LET unwraps == SelectSeq(stages, LAMBDA s : s.is = "unwrap")
        found == ApplyStages(entry.line, stages, labels)[1]
    IN  IF unwraps = << >> THEN <<entry.line.text>>
        ELSE IF unwraps[1].key \in DOMAIN found THEN <<found[unwraps[1].key]>> ELSE << >>

NumbersIn(entries, stages, labels) ==
    FlattenSeq([i \in DOMAIN entries |->
        LET text == NumberText(entries[i], stages, labels)
        IN  IF text # << >> /\ text[1] \in DOMAIN NumberOf
            THEN <<NumberOf[text[1]]>> ELSE << >>])

(* The value of one window, or none: min and max skip a window without
   numbers, where sum and avg are zero.                                    *)
WindowValue(fn, range, entries, numbers) ==
    CASE fn = "count_over_time" -> <<Number(Len(entries))>>
      [] fn = "rate" ->
            <<IF range > 0 THEN <<Len(entries) * UnitNs("s"), range>> ELSE Number(0)>>
      [] fn = "bytes_over_time" ->
            <<Total([i \in DOMAIN entries |-> Number(entries[i].line.bytes)])>>
      [] fn = "sum_over_time" -> <<Total(numbers)>>
      [] fn = "avg_over_time" -> <<IF numbers = << >> THEN Number(0) ELSE Mean(numbers)>>
      [] fn = "min_over_time" -> IF numbers = << >> THEN << >> ELSE <<Least(numbers)>>
      [] fn = "max_over_time" -> IF numbers = << >> THEN << >> ELSE <<Greatest(numbers)>>

(* Mutant: the window does not hold the instant it starts at. *)
WindowStart_Open(t, range) == Saturate(t - range) + 1

WindowStart(t, range) == Saturate(t - range)

SampleAt(stream, e, t) ==
    LET entries == Kept(stream, e.stages, WindowStart(t, e.range), t)
        value == WindowValue(e.fn, e.range, entries, NumbersIn(entries, e.stages, stream.labels))
    IN  [i \in DOMAIN value |-> [ts |-> t, value |-> value[i]]]

EvaluateMetric(store, e, start, end, step) ==
    LET ids == QueryStreams(store, e.matchers)
        times == Steps(start, end, step)
    IN  SelectSeq([i \in DOMAIN ids |->
                      [id |-> ids[i], labels |-> store[ids[i]].labels,
                       samples |-> FlattenSeq([k \in DOMAIN times |->
                                                  SampleAt(store[ids[i]], e, times[k])])]],
                  LAMBDA s : s.samples # << >>)

-----------------------------------------------------------------------------
(* evaluate_logql_limited, as both handlers call it, and the response. *)
Refused == [status |-> "error", type |-> "none", result |-> << >>]

Evaluate(store, e, start, end, step, limit) ==
    IF e.is = "metric"
    THEN [status |-> "success", type |-> "matrix",
          result |-> EvaluateMetric(store, e, start, end, IF step = << >> THEN e.range ELSE step[1])]
    ELSE [status |-> "success", type |-> "streams",
          result |-> FormatStreams(store, EvaluateLimited(store, e, start, end, limit), limit)]

BoundedLimit(limit) ==
    LET asked == IF limit = << >> THEN DefaultEntries ELSE limit[1]
    IN  IF asked < MaxEntries THEN asked ELSE MaxEntries

(* A parameter that may be left out: its default, or what it reads as. *)
TimeOr(written, default) == IF written = << >> THEN <<default>> ELSE ParseTimestampNs(written[1])

(* query_inner. *)
Query(store, e, time, limit, now) ==
    LET end == TimeOr(time, now)
    IN  IF end = << >> THEN Refused
        ELSE Evaluate(store, e, end[1] - Lookback, end[1], << >>, BoundedLimit(limit))

(* query_range_inner. *)

(* Mutant: a query of one step more than the maximum is accepted. *)
TooManySteps_OneOver(e, start, end, step) ==
    LET effective == IF step # << >> THEN step ELSE IF e.is = "metric" THEN <<e.range>> ELSE << >>
        span == IF end > start THEN end - start ELSE 0
    IN  effective # << >> /\ effective[1] > 0 /\ span \div effective[1] > MaxQuerySteps

TooManySteps(e, start, end, step) ==
    LET effective == IF step # << >> THEN step ELSE IF e.is = "metric" THEN <<e.range>> ELSE << >>
        span == IF end > start THEN end - start ELSE 0
    IN  effective # << >> /\ effective[1] > 0 /\ span \div effective[1] >= MaxQuerySteps

QueryRange(store, e, written, now) ==
    LET start == TimeOr(written.start, now - Lookback)
        end == TimeOr(written.end, now)
        step == IF written.step = << >> THEN << >> ELSE ParseDuration(written.step[1])
    IN  IF start = << >> \/ end = << >> \/ (written.step # << >> /\ step = << >>)
           \/ step = <<0>> \/ TooManySteps(e, start[1], end[1], step)
        THEN Refused
        ELSE Evaluate(store, e, start[1], end[1], step, BoundedLimit(written.limit))

-----------------------------------------------------------------------------
(* handle_query_logs.  It asks for one entry past the limit, lists the
   streams one after the other, oldest entry first, and cuts the list: one
   of the newest entries of the last stream goes.  The set of answers.     *)

(* Mutant: no entry past the limit is asked for. *)
Probe_Exact(limit) == limit

Probe(limit) == limit + 1

QueryLogsLimit(limit) ==
    LET asked == IF limit = << >> THEN DefaultLogs ELSE limit[1]
    IN  IF asked < MaxLogs THEN asked ELSE MaxLogs

Truncated(groups) ==
    LET last == groups[Len(groups)]
    IN  {EntriesIn(groups) \ {x} :
            x \in {y \in last.entries : \A z \in last.entries : z.ts <= y.ts}}

QueryLogs(store, e, asked) ==
    LET limit == QueryLogsLimit(asked)
        groups == EvaluateLimited(store, e, -MaxI64 - 1, MaxI64, Probe(limit))
        found == Cardinality(EntriesIn(groups))
        truncated == found > limit
        total == IF truncated
                 THEN Cardinality(EntriesIn(EvaluateUnlimited(store, e, -MaxI64 - 1, MaxI64)))
                 ELSE found
    IN  IF e.is = "metric" THEN {}
        ELSE {[logs |-> shown, shown |-> Cardinality(shown), total_count |-> total,
               truncated |-> truncated] :
                 shown \in IF truncated THEN Truncated(groups) ELSE {EntriesIn(groups)}}

=============================================================================
