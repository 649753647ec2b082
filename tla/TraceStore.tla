------------------------------ MODULE TraceStore ------------------------------
(***************************************************************************)
(* The in-memory trace store, src/src/store/trace_store.rs, and the use    *)
(* TraceQL makes of its indexes (src/src/query/traceql/eval.rs).  As with  *)
(* LogStore, every action is what one holder of the write lock does.       *)
(***************************************************************************)
EXTENDS TraceQL, ItemSeqs, Functions

CONSTANTS
    SpanShapes,  \* the spans a client may send: span records with trace and ts
    Cutoffs,     \* retention cutoffs an eviction tick may compute
    Services,    \* services a reset may name
    MaxSpans,    \* config.max_spans
    Selectors,   \* span selectors a query may use
    MaxBatch,    \* bound: spans in one resource group
    MaxSeq       \* bound: spans ever stamped

ASSUME TraceConstants ==
    /\ MaxSpans \in Nat /\ MaxBatch \in Nat /\ MaxSeq \in Nat
    /\ Cutoffs \subseteq Int
    /\ \A shape \in SpanShapes : {"trace", "ts"} \subseteq DOMAIN shape /\ shape.ts \in Int

(* What ingest_traces makes of any export.  A span id is not zero, which no
   parent has.  Every attribute key has its prefix, `resource.`, `scope.` or
   `span.`; the attributes of the resource are texts, and its first
   service.name is the service of the span.                                *)
ServiceKey == <<"service", "name">>

FirstAt(attrs, key) ==
    {i \in DOMAIN attrs : attrs[i].key = key /\ \A j \in 1 .. i - 1 : attrs[j].key # key}

ASSUME ShapeConstants ==
    \A shape \in SpanShapes :
        /\ {"id", "parent", "service", "name", "status", "attrs"} \subseteq DOMAIN shape
        /\ shape.id # NoParent
        /\ shape.attrs \in Seq(Range(shape.attrs))
        /\ \A i \in DOMAIN shape.attrs : shape.attrs[i].key # ServiceKey
        /\ \A i \in FirstAt(shape.attrs, <<"resource">> \o ServiceKey) :
              shape.attrs[i].value.type = "String" /\ shape.attrs[i].value.text = shape.service

(* A parsed selector has an operator between every two conditions. *)
Parsed(selector) ==
    /\ selector.conditions \in Seq(Range(selector.conditions))
    /\ selector.ops \in Seq({"And", "Or"})
    /\ selector.conditions # << >> => Len(selector.conditions) = Len(selector.ops) + 1

ASSUME SelectorConstants == \A selector \in Selectors : Parsed(selector)

VARIABLES
    traces,         \* trace id |-> sequence of spans
    service_index,  \* service |-> trace ids
    name_index,     \* span name |-> trace ids
    status_index,   \* status |-> trace ids
    attr_index,     \* <<key, text>> of a string attribute |-> trace ids
    interner,       \* the services, names, attribute keys and texts interned
    total_spans,
    ingest_seq      \* AppState.ingest_seq, the next stamp

vars == <<traces, service_index, name_index, status_index, attr_index,
          interner, total_spans, ingest_seq>>

-----------------------------------------------------------------------------
NoTraces == [x \in {} |-> << >>]

NoIndex == [x \in {} |-> {}]

SpansIn(spans) == {spans[i] : i \in DOMAIN spans}

(* The keys under which the spans of one trace are indexed. *)
ServicesIn(spans) == {s.service : s \in SpansIn(spans)}

NamesIn(spans) == {s.name : s \in SpansIn(spans)}

StatusesIn(spans) == {s.status : s \in SpansIn(spans)}

StringAttrs(span) ==
    {<<span.attrs[i].key, span.attrs[i].value.text>> :
        i \in {j \in DOMAIN span.attrs : span.attrs[j].value.type = "String"}}

AttrsIn(spans) == UNION {StringAttrs(s) : s \in SpansIn(spans)}

KeysIn(index, spans) ==
    CASE index = "service" -> ServicesIn(spans)
      [] index = "name" -> NamesIn(spans)
      [] index = "status" -> StatusesIn(spans)
      [] index = "attr" -> AttrsIn(spans)

(* intern_prepared_span *)
InternedBy(span) ==
    {span.service, span.name} \cup {span.attrs[i].key : i \in DOMAIN span.attrs}
        \cup {p[2] : p \in StringAttrs(span)}

-----------------------------------------------------------------------------
Init ==
    /\ traces = NoTraces
    /\ service_index = NoIndex
    /\ name_index = NoIndex
    /\ status_index = NoIndex
    /\ attr_index = NoIndex
    /\ interner = {}
    /\ total_spans = 0
    /\ ingest_seq = 0

Get(index, key) == IF key \in DOMAIN index THEN index[key] ELSE {}

(* `index.entry(key).or_default().insert(trace_id)` for all keys of one
   index (`of`) in the new spans of each trace.                            *)
AddToIndex(index, of, arrived) ==
    [key \in DOMAIN index \cup UNION {KeysIn(of, arrived[t]) : t \in DOMAIN arrived} |->
        Get(index, key) \cup {t \in DOMAIN arrived : key \in KeysIn(of, arrived[t])}]

(* ingest_traces: the spans are stamped, then interned and stored under one
   acquisition of the lock.                                                *)
Batches == UNION {[1 .. n -> SpanShapes] : n \in 1 .. MaxBatch}

Stamped(shape, seq) ==
    [f \in DOMAIN shape \cup {"seq"} |-> IF f = "seq" THEN seq ELSE shape[f]]

SpansOfTrace(batch, t) ==
    ItemsAt([i \in DOMAIN batch |-> Stamped(batch[i], ingest_seq + i - 1)],
            {i \in DOMAIN batch : batch[i].trace = t})

IngestSpans(arrived) ==
    /\ service_index' = AddToIndex(service_index, "service", arrived)
    /\ name_index' = AddToIndex(name_index, "name", arrived)
    /\ status_index' = AddToIndex(status_index, "status", arrived)
    /\ attr_index' = AddToIndex(attr_index, "attr", arrived)
    /\ traces' = [t \in DOMAIN traces \cup DOMAIN arrived |->
                     (IF t \in DOMAIN traces THEN traces[t] ELSE << >>)
                        \o (IF t \in DOMAIN arrived THEN arrived[t] ELSE << >>)]
    /\ total_spans' = total_spans + CountItems(arrived)

Ingest ==
    \E batch \in Batches :
        /\ ingest_seq + Len(batch) <= MaxSeq
        /\ ingest_seq' = ingest_seq + Len(batch)
        /\ interner' = interner \cup UNION {InternedBy(batch[i]) : i \in DOMAIN batch}
        /\ IngestSpans([t \in {batch[i].trace : i \in DOMAIN batch} |-> SpansOfTrace(batch, t)])

-----------------------------------------------------------------------------
(* reconcile_trace_indexes: a trace that lost spans leaves the list of every
   key none of its remaining spans has; an emptied list goes.              *)
Remaining(held, t) == IF t \in DOMAIN held THEN held[t] ELSE << >>

(* Mutant: a key is lost although another span of the trace still has it. *)
LostKeys_AnySpan(of, kept, t) ==
    KeysIn(of, ItemsAt(traces[t], {i \in DOMAIN traces[t] :
                                      traces[t][i] \notin SpansIn(Remaining(kept, t))}))

LostKeys(of, kept, t) == KeysIn(of, traces[t]) \ KeysIn(of, Remaining(kept, t))

Reconcile(index, of, kept) ==
    LET left(key) == index[key] \ {t \in DOMAIN traces : key \in LostKeys(of, kept, t)}
    IN  [key \in {k \in DOMAIN index : left(k) # {} \/ left(k) = index[k]} |-> left(key)]

(* rebuild_attr_index *)
RebuildAttrIndex(held) ==
    [pair \in UNION {AttrsIn(held[t]) : t \in DOMAIN held} |->
        {t \in DOMAIN held : pair \in AttrsIn(held[t])}]

(* What an eviction or a reset does to the indexes. *)
ShrinkTo(kept) ==
    /\ traces' = kept
    /\ service_index' = Reconcile(service_index, "service", kept)
    /\ name_index' = Reconcile(name_index, "name", kept)
    /\ status_index' = Reconcile(status_index, "status", kept)
    /\ attr_index' = RebuildAttrIndex(kept)

(* evict_before keeps the unexpired spans of every trace. *)
EvictBefore(cutoff) ==
    LET live == [t \in DOMAIN traces |->
                    ItemsAt(traces[t], {i \in DOMAIN traces[t] : traces[t][i].ts >= cutoff})]
    IN  [t \in {u \in DOMAIN traces : live[u] # << >>} |-> live[t]]

(* evict_to_max removes whole traces, the one with the earliest span first,
   until max_spans is met.  Equal times come in the hash map's order.      *)

(* Mutant: traces are ordered by the span that came in first. *)
EarliestStart_FirstStored(spans) == spans[1].ts

EarliestStart(spans) ==
    CHOOSE ts \in {s.ts : s \in SpansIn(spans)} : \A s \in SpansIn(spans) : ts <= s.ts

EvictionOrders(held) ==
    {pos \in Bijection(DOMAIN held, 1 .. Cardinality(DOMAIN held)) :
        \A t, u \in DOMAIN held :
            EarliestStart(held[t]) < EarliestStart(held[u]) => pos[t] < pos[u]}

(* Mutant: eviction stops one trace too late. *)
OverMax_OrEqual(total) == total >= MaxSpans

OverMax(total) == total > MaxSpans

EvictToMax(held, total, pos) ==
    LET left(t) == total - CountItems([u \in {v \in DOMAIN held : pos[v] < pos[t]} |-> held[u]])
    IN  [t \in {u \in DOMAIN held : ~OverMax(left(u))} |-> held[t]]

TotalAfterExpiry(fresh) ==
    SaturatingSub(total_spans, CountItems(traces) - CountItems(fresh))

RunEviction(cutoff) ==
    LET fresh == EvictBefore(cutoff)
        total == TotalAfterExpiry(fresh)
    IN  \E pos \in EvictionOrders(fresh) :
            LET kept == EvictToMax(fresh, total, pos)
            IN  /\ ShrinkTo(kept)
                /\ total_spans' = SaturatingSub(total, CountItems(fresh) - CountItems(kept))
                /\ UNCHANGED <<interner, ingest_seq>>

(* clear_service removes the spans of the service; a trace may keep others. *)
SpansOfOthers(service) ==
    [t \in DOMAIN traces |->
        IF t \in service_index[service]
        THEN ItemsAt(traces[t], {i \in DOMAIN traces[t] : traces[t][i].service # service})
        ELSE traces[t]]

WithoutService(service) ==
    LET left == SpansOfOthers(service)
    IN  [t \in {u \in DOMAIN traces : left[u] # << >>} |-> left[t]]

ClearService(service) ==
    /\ service \in interner
    /\ service \in DOMAIN service_index
    /\ LET kept == WithoutService(service)
       IN  /\ ShrinkTo(kept)
           /\ total_spans' = SaturatingSub(total_spans, CountItems(traces) - CountItems(kept))
    /\ UNCHANGED <<interner, ingest_seq>>

Clear ==
    /\ traces' = NoTraces
    /\ service_index' = NoIndex
    /\ name_index' = NoIndex
    /\ status_index' = NoIndex
    /\ attr_index' = NoIndex
    /\ interner' = {}
    /\ total_spans' = 0
    /\ UNCHANGED ingest_seq

Next ==
    \/ Ingest
    \/ \E cutoff \in Cutoffs : RunEviction(cutoff)
    \/ \E service \in Services : ClearService(service)
    \/ Clear

Spec == Init /\ [][Next]_vars

-----------------------------------------------------------------------------
(* indexable_traces: the list an = condition is looked up in, as a set of
   at most one list.  Without one the condition does not narrow a search.  *)
Listed(index, key) == {index[k] : k \in {key} \cap DOMAIN index}

IndexedAttribute(c) ==
    LET keys == CandidateKeys(c.scope, c.name) \cap interner
        found == UNION {Get(attr_index, <<key, c.value.text>>) : key \in keys}
    IN  IF c.value.text \notin interner THEN {}
        ELSE IF c.scope = "resource" /\ c.name = ServiceKey
        THEN Listed(service_index, c.value.text)
        ELSE {found} \ {{}}

(* Mutant: != is looked up too. *)
Indexable_Neq(c) == c.op \in {"Eq", "Neq"}

Indexable(c) == c.op = "Eq"

IndexableTraces(c) ==
    IF ~Indexable(c) THEN {}
    ELSE CASE c.on = "Name" ->
                IF c.value.text \in interner THEN Listed(name_index, c.value.text) ELSE {}
           [] c.on = "Status" -> Listed(status_index, c.value.text)
           [] c.on = "Attribute" -> IF c.value.type = "String" THEN IndexedAttribute(c) ELSE {}
           [] OTHER -> {}

(* candidate_trace_ids: nothing is narrowed when there is an ||. *)
CandidateTraceIds(selector) ==
    LET lists == UNION {IndexableTraces(selector.conditions[i]) :
                           i \in DOMAIN selector.conditions}
        anyOr == \E i \in DOMAIN selector.ops : selector.ops[i] = "Or"
    IN  IF anyOr \/ lists = {} THEN DOMAIN traces
        ELSE {t \in DOMAIN traces : \A list \in lists : t \in list}

(* eval_span_selector, as the set of the spans found. *)
EvalSpanSelector(selector) ==
    UNION {{traces[t][i] : i \in MatchedSpans(traces[t], selector)} :
              t \in CandidateTraceIds(selector)}

-----------------------------------------------------------------------------
(* The index has exactly the keys in use, each with the traces that have it. *)
IndexExact(index, of) ==
    index = [key \in UNION {KeysIn(of, traces[t]) : t \in DOMAIN traces} |->
                {t \in DOMAIN traces : key \in KeysIn(of, traces[t])}]

(* Every index lists, under the keys in use and no others, exactly the
   traces with a span of that key, although an eviction or a reset touches
   only the traces that lost spans and only the keys those spans had.  No
   trace is left without spans, and total_spans, which capacity eviction
   trusts, is the number of spans.                                         *)
IndexesExact ==
    /\ IndexExact(service_index, "service")
    /\ IndexExact(name_index, "name")
    /\ IndexExact(status_index, "status")
    /\ IndexExact(attr_index, "attr")
    /\ \A t \in DOMAIN traces : traces[t] # << >>
    /\ total_spans = CountItems(traces)

(* The store as the abstract store of spans: a span counts one against
   max_spans, and its group is its trace.                                  *)
HeldSpans ==
    {[seq |-> s.seq, ts |-> s.ts, group |-> s.trace, services |-> {s.service}] :
        s \in UNION {SpansIn(traces[t]) : t \in DOMAIN traces}}

Store == INSTANCE SignalStore WITH
            held <- HeldSpans, Capacity <- MaxSpans, Load <- Cardinality

(* Every step is one the abstract store allows: spans leave only expired,
   over capacity, by a reset of their own service or by a clear, and
   eviction stops as soon as the store fits.                               *)
ImplementsSignalStore == Store!Spec

(* evict_to_max says that it evicts the oldest traces: a trace goes as a
   whole, and none that stays has an older span than one that went.        *)
CapacityTakesOldestTraces ==
    [][\A cutoff \in Cutoffs : RunEviction(cutoff) =>
          LET live == Store!Unexpired(HeldSpans, cutoff)
          IN  \A gone \in live \ HeldSpans', kept \in HeldSpans' :
                 /\ gone.group # kept.group
                 /\ \E first \in Store!Group(live, gone.group) : first.ts <= kept.ts]_vars

=============================================================================
