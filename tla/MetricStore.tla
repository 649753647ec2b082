------------------------------ MODULE MetricStore ------------------------------
(***************************************************************************)
(* The in-memory metric store, src/src/store/metric_store.rs, with the two *)
(* request bodies that write to it: ingest_metrics (otlp_metrics.rs, HTTP  *)
(* and gRPC) and the remote write handler (remote_write.rs).  Both draw    *)
(* their stamps first and then do everything else under one acquisition of *)
(* the write lock, so that a request is one action.                         *)
(*                                                                         *)
(* A sample carries, besides its time and stamp, the metric it was sent    *)
(* for (`of`), which the code does not keep: only properties read it.      *)
(***************************************************************************)
EXTENDS StoreIndex, Functions

CONSTANTS
    OtlpMetrics,     \* metrics an OTLP client may send: [name, source, type, help, labels, ts]
    Bounds,          \* the bucket bounds, or quantiles, of a data point, in order
    RemoteSeries,    \* series a remote write may send: [name, labels, times]
    InferredType,    \* name |-> the type infer_metric_type reads off its suffix
    Suffixed(_, _),  \* a name with a suffix appended
    NoHelp,          \* the absence of a description (a unit is treated alike)
    Cutoffs,         \* retention cutoffs an eviction tick may compute
    Services,        \* services a reset may name
    MaxSeries,       \* config.max_series
    MaxRequest,      \* bound: metrics or series in one request
    MaxSeq,          \* bound: samples ever stamped
    MaxIds           \* bound: series ids given out since the last clear or restore

ASSUME MetricConstants ==
    /\ MaxSeries \in Nat /\ MaxRequest \in Nat /\ MaxSeq \in Nat /\ MaxIds \in Nat
    /\ Cutoffs \subseteq Int
    /\ Len(Bounds) \in Nat /\ DOMAIN Bounds = 1 .. Len(Bounds)
    /\ \A m \in OtlpMetrics :
          /\ m.type \in {"gauge", "counter", "histogram", "summary", "exponential_histogram"}
          /\ m.ts \in Int
          /\ \A p \in m.labels : p = <<p[1], p[2]>>
    /\ \A s \in RemoteSeries :
          /\ InferredType[s.name] # "none"
          /\ s.times \in Seq(Int)
          /\ \A p \in s.labels : p = <<p[1], p[2]>>

VARIABLES
    series,           \* series id |-> [labels, samples]
    label_index,      \* label pair |-> series ids
    label_values,     \* label name |-> values
    interner,         \* the strings interned so far
    total_samples,
    series_ids,       \* label set |-> series id
    next_series_id,
    normalized_name_sources,  \* visible name |-> source name
    metric_metadata,  \* metric name |-> [type, help]
    ingest_seq        \* AppState.ingest_seq, the next stamp

vars == <<series, label_index, label_values, interner, total_samples, series_ids,
          next_series_id, normalized_name_sources, metric_metadata, ingest_seq>>

-----------------------------------------------------------------------------
NoEntries == [x \in {} |-> {}]

LabelsOf == [id \in DOMAIN series |-> series[id].labels]

SamplesOf == [id \in DOMAIN series |-> series[id].samples]

(* The metric names of the series with the given label sets. *)
NamesIn(labelsOf) ==
    {p[2] : p \in {q \in AllPairs(labelsOf) : q[1] = "__name__"}}

Init ==
    /\ series = NoEntries
    /\ label_index = NoEntries
    /\ label_values = NoEntries
    /\ interner = {}
    /\ total_samples = 0
    /\ series_ids = NoEntries
    /\ next_series_id = 0
    /\ normalized_name_sources = NoEntries
    /\ metric_metadata = NoEntries
    /\ ingest_seq = 0

-----------------------------------------------------------------------------
(* What a request is turned into before the lock is taken: the sequence
   `prepared` of [name, source, labels, times, of], and `meta`, the sequence
   of [name, type, help] registered at the end.                            *)
Point(m, suffix, extra) ==
    [name |-> Suffixed(m.name, suffix), source |-> Suffixed(m.source, suffix),
     labels |-> m.labels \cup extra, times |-> <<m.ts>>, of |-> m.name]

PointsOf(m) ==
    LET sumAndCount == <<Point(m, "_sum", {}), Point(m, "_count", {})>>
        forEachBound(label, suffix) ==
            [i \in DOMAIN Bounds |-> Point(m, suffix, {<<label, Bounds[i]>>})]
    IN  CASE m.type \in {"gauge", "counter"} -> <<Point(m, "", {})>>
          [] m.type = "histogram" -> forEachBound("le", "_bucket") \o sumAndCount
          [] m.type = "summary" -> forEachBound("quantile", "") \o sumAndCount
          [] m.type = "exponential_histogram" -> << >>

MetaOf(m) ==
    IF m.type = "exponential_histogram" THEN << >>
    ELSE <<[name |-> m.name, type |-> m.type, help |-> m.help]>>

RemotePoint(s) ==
    [name |-> s.name, source |-> s.name, labels |-> s.labels, times |-> s.times, of |-> s.name]

RemoteMeta(s) == [name |-> s.name, type |-> InferredType[s.name], help |-> NoHelp]

Requests(things) == UNION {[1 .. n -> things] : n \in 1 .. MaxRequest}

Flatten(seqs) ==
    LET upTo[i \in 0 .. Len(seqs)] == IF i = 0 THEN << >> ELSE upTo[i - 1] \o seqs[i]
    IN  upTo[Len(seqs)]

StampsOf(prepared) ==
    Len(Flatten([i \in DOMAIN prepared |-> prepared[i].times]))

(* The stamps are drawn series by series, sample by sample. *)
Stamped(prepared) ==
    [i \in DOMAIN prepared |->
        LET before == ingest_seq + StampsOf(SubSeq(prepared, 1, i - 1))
        IN  [k \in DOMAIN prepared[i].times |->
                [ts |-> prepared[i].times[k], seq |-> before + k - 1,
                 of |-> prepared[i].of, source |-> prepared[i].source]]]

-----------------------------------------------------------------------------
(* check_metric_name_collision, for every name before anything is written. *)
Collides(p) ==
    /\ p.name \in interner
    /\ p.name \in DOMAIN normalized_name_sources
    /\ normalized_name_sources[p.name] # p.source

(* register_metric_name, for one name after the other: the first of a name
   registers it, and a second of another source fails.                     *)
SourceAfter(prepared, name) ==
    IF name \in DOMAIN normalized_name_sources THEN normalized_name_sources[name]
    ELSE LET named == {i \in DOMAIN prepared : prepared[i].name = name}
         IN  prepared[CHOOSE i \in named : \A j \in named : i <= j].source

(* Mutant: names of the same request are not compared. *)
Clashes_None(prepared) == {}

Clashes(prepared) ==
    {i \in DOMAIN prepared : SourceAfter(prepared, prepared[i].name) # prepared[i].source}

Register(prepared) ==
    [name \in DOMAIN normalized_name_sources \cup {prepared[i].name : i \in DOMAIN prepared} |->
        SourceAfter(prepared, name)]

NamesAndSources(prepared) ==
    {prepared[i].name : i \in DOMAIN prepared} \cup {prepared[i].source : i \in DOMAIN prepared}

(* ingest_samples, on the part of the store it writes. *)
IngestSamples(st, p, samples) ==
    LET labels == p.labels \cup {<<"__name__", p.name>>}
        known == labels \in DOMAIN st.ids
        id == IF known THEN st.ids[labels] ELSE st.next
        old == IF known THEN st.series[id].samples ELSE << >>
    IN  [interner |-> InternLabelPairs(st.interner, labels),
         values |-> TrackLabelValues(st.values, labels),
         index |-> IF known THEN st.index ELSE AddToLabelIndex(st.index, labels, id),
         ids |-> [l \in DOMAIN st.ids \cup {labels} |-> IF l = labels THEN id ELSE st.ids[l]],
         next |-> IF known THEN st.next ELSE st.next + 1,
         series |-> [i \in DOMAIN st.series \cup {id} |->
                        IF i = id THEN [labels |-> labels, samples |-> AppendBatch(old, samples)]
                        ELSE st.series[i]],
         total |-> st.total + Len(samples)]

IngestAll(prepared, samples) ==
    LET after[i \in 0 .. Len(prepared)] ==
            IF i = 0
            THEN [interner |-> interner \cup NamesAndSources(prepared), values |-> label_values,
                  index |-> label_index, ids |-> series_ids, next |-> next_series_id,
                  series |-> series, total |-> total_samples]
            ELSE IngestSamples(after[i - 1], prepared[i], samples[i])
    IN  after[Len(prepared)]

(* register_metric_metadata: an Unknown does not replace a known type, and
   a missing description replaces none.                                    *)

(* Mutant: the last type sent is the one kept. *)
TypeAfter_Last(known, new) == new

TypeAfter(known, new) == IF new # "unknown" \/ known = "none" THEN new ELSE known

RegisterMetadata(metadata, m) ==
    LET old == IF m.name \in DOMAIN metadata THEN metadata[m.name]
               ELSE [type |-> "none", help |-> NoHelp]
    IN  [n \in DOMAIN metadata \cup {m.name} |->
            IF n = m.name
            THEN [type |-> TypeAfter(old.type, m.type),
                  help |-> IF m.help # NoHelp THEN m.help ELSE old.help]
            ELSE metadata[n]]

RegisterAllMetadata(meta) ==
    LET after[i \in 0 .. Len(meta)] ==
            IF i = 0 THEN metric_metadata ELSE RegisterMetadata(after[i - 1], meta[i])
    IN  after[Len(meta)]

-----------------------------------------------------------------------------
(* The part of a request that holds the write lock.  A collision with a name
   already registered rejects it before anything is written; one between
   two of its own names rejects it after the names before were registered. *)
RejectChecked(prepared) ==
    /\ \E i \in DOMAIN prepared : Collides(prepared[i])
    /\ UNCHANGED <<series, label_index, label_values, interner, total_samples, series_ids,
                   next_series_id, normalized_name_sources, metric_metadata>>

RejectRegistering(prepared) ==
    /\ \A i \in DOMAIN prepared : ~Collides(prepared[i])
    /\ \E i \in Clashes(prepared) :
          /\ \A j \in Clashes(prepared) : i <= j
          /\ normalized_name_sources' = Register(SubSeq(prepared, 1, i - 1))
          /\ interner' = interner \cup NamesAndSources(SubSeq(prepared, 1, i))
    /\ UNCHANGED <<series, label_index, label_values, total_samples, series_ids,
                   next_series_id, metric_metadata>>

Accept(prepared, meta) ==
    /\ \A i \in DOMAIN prepared : ~Collides(prepared[i])
    /\ Clashes(prepared) = {}
    /\ LET st == IngestAll(prepared, Stamped(prepared))
       IN  /\ st.next <= MaxIds
           /\ series' = st.series
           /\ label_index' = st.index
           /\ label_values' = st.values
           /\ interner' = st.interner \cup {meta[i].name : i \in DOMAIN meta}
           /\ total_samples' = st.total
           /\ series_ids' = st.ids
           /\ next_series_id' = st.next
    /\ normalized_name_sources' = Register(prepared)
    /\ metric_metadata' = RegisterAllMetadata(meta)

Ingest(prepared, meta) ==
    /\ ingest_seq + StampsOf(prepared) <= MaxSeq
    /\ ingest_seq' = ingest_seq + StampsOf(prepared)
    /\ \/ RejectChecked(prepared)
       \/ RejectRegistering(prepared)
       \/ Accept(prepared, meta)

IngestMetrics ==
    \E request \in Requests(OtlpMetrics) :
        Ingest(Flatten([i \in DOMAIN request |-> PointsOf(request[i])]),
               Flatten([i \in DOMAIN request |-> MetaOf(request[i])]))

RemoteWrite ==
    \E request \in Requests(RemoteSeries) :
        Ingest([i \in DOMAIN request |-> RemotePoint(request[i])],
               [i \in DOMAIN request |-> RemoteMeta(request[i])])

-----------------------------------------------------------------------------
(* What every removal of whole series does to the maps and indexes. *)
RemoveSeries(gone) ==
    /\ series_ids' = [l \in DOMAIN series_ids \ {series[id].labels : id \in gone} |->
                         series_ids[l]]
    /\ label_index' = RemoveFromLabelIndex(label_index, LabelsOf, gone)
    /\ label_values' = RemoveFromLabelValues(label_index, label_values, LabelsOf, gone)

(* prune_orphaned_metadata, also the last part of clear_service: what is
   registered under a name no surviving series has goes.                   *)
KeepNames(registered, labelsOf) ==
    IF "__name__" \in interner
    THEN [n \in DOMAIN registered \cap NamesIn(labelsOf) |-> registered[n]]
    ELSE registered

(* evict_before: a series without a sample left goes, and so does one that
   a remote write created without any.                                     *)
EvictBefore(cutoff) ==
    LET live == [id \in DOMAIN series |->
                    DrainFront(series[id].samples, CountBelow(series[id].samples, cutoff))]
    IN  [id \in {i \in DOMAIN series : live[i] # << >>} |-> live[id]]

(* evict_to_max removes the series with the oldest first sample until at
   most max_series are left.  Equal times come in the hash map's order.    *)
EvictionOrders(samplesOf) ==
    {pos \in Bijection(DOMAIN samplesOf, 1 .. Cardinality(DOMAIN samplesOf)) :
        \A a, b \in DOMAIN samplesOf :
            samplesOf[a][1].ts < samplesOf[b][1].ts => pos[a] < pos[b]}

(* Mutant: one series more than the maximum may stay. *)
ToRemove_OneOver(count) == SaturatingSub(count, MaxSeries + 1)

ToRemove(count) == SaturatingSub(count, MaxSeries)

EvictToMax(samplesOf, pos) ==
    [id \in {i \in DOMAIN samplesOf : pos[i] > ToRemove(Cardinality(DOMAIN samplesOf))} |->
        samplesOf[id]]

TotalWithout(left) ==
    SaturatingSub(total_samples, CountItems(SamplesOf) - CountItems(left))

RunEviction(cutoff) ==
    LET fresh == EvictBefore(cutoff)
    IN  \E pos \in EvictionOrders(fresh) :
            LET kept == EvictToMax(fresh, pos)
            IN  /\ series' = [id \in DOMAIN kept |->
                                 [labels |-> series[id].labels, samples |-> kept[id]]]
                /\ RemoveSeries(DOMAIN series \ DOMAIN kept)
                /\ total_samples' = TotalWithout(kept)
                /\ metric_metadata' =
                      KeepNames(metric_metadata, [id \in DOMAIN kept |-> series[id].labels])
                /\ UNCHANGED <<interner, next_series_id, normalized_name_sources, ingest_seq>>

(* clear_service returns without a change unless the index lists series of
   the service.                                                            *)
ClearService(service) ==
    /\ {"service", service} \subseteq interner
    /\ <<"service", service>> \in DOMAIN label_index
    /\ LET gone == label_index[<<"service", service>>] \cap DOMAIN series
           left == [id \in DOMAIN series \ gone |-> series[id].labels]
       IN  /\ series' = [id \in DOMAIN left |-> series[id]]
           /\ total_samples' = TotalWithout([id \in DOMAIN left |-> series[id].samples])
           /\ RemoveSeries(gone)
           /\ metric_metadata' = KeepNames(metric_metadata, left)
           /\ normalized_name_sources' = KeepNames(normalized_name_sources, left)
    /\ UNCHANGED <<interner, next_series_id, ingest_seq>>

Clear ==
    /\ series' = NoEntries
    /\ label_index' = NoEntries
    /\ label_values' = NoEntries
    /\ interner' = {}
    /\ total_samples' = 0
    /\ series_ids' = NoEntries
    /\ next_series_id' = 0
    /\ normalized_name_sources' = NoEntries
    /\ metric_metadata' = NoEntries
    /\ UNCHANGED ingest_seq

(* load_snapshot calls rebuild_series_ids on the fields it reads back. *)
HighestId(ids) == CHOOSE id \in ids : \A other \in ids : other <= id

(* Mutant: the next id is the number of series. *)
NextFreeId_Count(ids) == Cardinality(ids)

NextFreeId(ids) == IF ids = {} THEN 0 ELSE HighestId(ids) + 1

RestoreFromSnapshot ==
    /\ series_ids' = [l \in {series[id].labels : id \in DOMAIN series} |->
                         HighestId({id \in DOMAIN series : series[id].labels = l})]
    /\ next_series_id' = NextFreeId(DOMAIN series)
    /\ UNCHANGED <<series, label_index, label_values, interner, total_samples,
                   normalized_name_sources, metric_metadata, ingest_seq>>

Next ==
    \/ IngestMetrics
    \/ RemoteWrite
    \/ \E cutoff \in Cutoffs : RunEviction(cutoff)
    \/ \E service \in Services : ClearService(service)
    \/ Clear
    \/ RestoreFromSnapshot

Spec == Init /\ [][Next]_vars

-----------------------------------------------------------------------------
(* The inverted index and the label values list exactly the series in the
   store: what PromQL selectors and the label endpoints answer from.  A
   label set names one series, a series has one name, and the next id to be
   given out is none in use, also after rebuild_series_ids; total_samples is
   the number of samples.                                                  *)
SeriesIndexesExact ==
    /\ LabelIndexExact(label_index, LabelsOf)
    /\ LabelValuesExact(label_values, LabelsOf)
    /\ InternerCovers(interner, LabelsOf)
    /\ DOMAIN series_ids = {series[id].labels : id \in DOMAIN series}
    /\ \A id \in DOMAIN series :
          /\ id < next_series_id
          /\ series_ids[series[id].labels] = id
    /\ total_samples = CountItems(SamplesOf)

(* What the collision checks are for: two metrics that normalize to the same
   visible name never have samples in the store at the same time, whichever
   of the two write paths they took and whatever was evicted in between.   *)
AllSamples == UNION {{series[id].samples[i] : i \in DOMAIN series[id].samples} : id \in DOMAIN series}

NameOf(id) == CHOOSE n \in NamesIn(LabelsOf) : <<"__name__", n>> \in series[id].labels

SamplesNamed(n) ==
    UNION {{series[id].samples[i] : i \in DOMAIN series[id].samples} :
              id \in {j \in DOMAIN series : NameOf(j) = n}}

OneSourcePerName ==
    \A n \in NamesIn(LabelsOf) :
        /\ n \in DOMAIN normalized_name_sources
        /\ \A s \in SamplesNamed(n) : s.source = normalized_name_sources[n]

(* The type a metric was given over OTLP is not lost to a remote write of
   the same name, which does not know types, as long as the entry lives.   *)
KnownTypesStick ==
    [][\A n \in DOMAIN metric_metadata \cap DOMAIN metric_metadata' :
          metric_metadata[n].type # "unknown" => metric_metadata'[n].type # "unknown"]_vars

(* The store as the abstract store of samples: the group of a sample is its
   series, and a series counts one against max_series.                     *)
ServicesOf(labels) == {p[2] : p \in {q \in labels : q[1] = "service"}}

HeldSamples ==
    UNION {{[seq |-> series[id].samples[i].seq, ts |-> series[id].samples[i].ts,
             group |-> series[id].labels, services |-> ServicesOf(series[id].labels)] :
               i \in DOMAIN series[id].samples} : id \in DOMAIN series}

GroupsOf(items) == Cardinality({h.group : h \in items})

Store == INSTANCE SignalStore WITH
            held <- HeldSamples, Capacity <- MaxSeries, Load <- GroupsOf

(* Every step of the metric store is one the abstract store allows: samples
   leave only expired, with their series when there are too many, by a
   reset of their own service or by a clear.                               *)
ImplementsSignalStore == Store!Spec

(* prune_orphaned_metadata (metric_store.rs:233) promises to remove only the
   metadata of names no series refers to any more: a metric with a sample
   left keeps its type and description through an eviction.                *)
LiveMetricsKeepMetadata ==
    [][\A cutoff \in Cutoffs : RunEviction(cutoff) =>
          \A s \in AllSamples' :
             s.of \in DOMAIN metric_metadata => s.of \in DOMAIN metric_metadata']_vars

=============================================================================
