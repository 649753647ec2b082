------------------------------- MODULE LogStore -------------------------------
(***************************************************************************)
(* The in-memory log store, src/src/store/log_store.rs.  Every action is   *)
(* one method called under the store's write lock; RunEviction is the part *)
(* of run_eviction (src/src/store/mod.rs) that holds the log store's lock. *)
(* The store's mutual exclusion is the RwLock of AppState, so that a store *)
(* by itself is a sequential object; what the handlers do outside the lock  *)
(* is Draw, which takes a number for an entry before the batch that holds  *)
(* it is stored.  IngestCursor lets whole requests interleave.             *)
(***************************************************************************)
EXTENDS StoreIndex, Functions

CONSTANTS
    LabelSets,     \* the label sets a client may push
    Timestamps,    \* entry times
    Cutoffs,       \* retention cutoffs an eviction tick may compute
    TraceIds,      \* trace ids an entry may carry
    NoTrace,       \* the trace id of an entry that has none
    Services,      \* services a reset may name
    MaxLogEntries, \* config.max_log_entries
    Matchers,      \* label matchers a query may use
    MaxBatch,      \* bound: entries in one batch
    MaxSeq,        \* bound: the numbers drawn are below it
    MaxStreams     \* bound: stream ids given out since the last clear or restore

ASSUME LogConstants ==
    /\ Timestamps \subseteq Int /\ Cutoffs \subseteq Int
    /\ MaxLogEntries \in Nat /\ MaxBatch \in Nat /\ MaxSeq \in Nat
    /\ MaxStreams \in Nat
    /\ \A labels \in LabelSets : IsFiniteSet(labels)
    /\ \A labels \in LabelSets : \A p \in labels : p = <<p[1], p[2]>>
    /\ \A m \in Matchers : m.op \in {"Eq", "Neq", "Regex", "NotRegex"}

VARIABLES
    streams,         \* stream id |-> [labels, entries]
    label_index,     \* label pair |-> stream ids
    label_values,    \* label name |-> values
    interner,        \* the strings interned so far
    total_entries,
    stream_ids,      \* label set |-> stream id
    next_stream_id,
    trace_index,     \* trace id |-> stream ids
    ingest_seq,      \* AppState.ingest_seq, the next number
    drawn            \* the numbers of entries that are not stored yet

vars == <<streams, label_index, label_values, interner, total_entries,
          stream_ids, next_stream_id, trace_index, ingest_seq, drawn>>

-----------------------------------------------------------------------------
LogEntry == [ts : Timestamps, seq : Nat, trace : TraceIds \cup {NoTrace}]

LogStream == [labels : LabelSets, entries : Seq(LogEntry)]

NoEntries == [x \in {} |-> {}]

LabelsOf == [id \in DOMAIN streams |-> streams[id].labels]

EntriesOf == [id \in DOMAIN streams |-> streams[id].entries]

Lesser(a, b) == IF a < b THEN a ELSE b

-----------------------------------------------------------------------------
Init ==
    /\ streams = NoEntries
    /\ label_index = NoEntries
    /\ label_values = NoEntries
    /\ interner = {}
    /\ total_entries = 0
    /\ stream_ids = NoEntries
    /\ next_stream_id = 0
    /\ trace_index = NoEntries
    /\ ingest_seq = 1
    /\ drawn = {}

-----------------------------------------------------------------------------
(* A handler gives an entry its number while it reads the request, with no
   lock held: others may draw, and store, before this entry is stored.     *)
Draw ==
    /\ ingest_seq < MaxSeq
    /\ drawn' = drawn \cup {ingest_seq}
    /\ ingest_seq' = ingest_seq + 1
    /\ UNCHANGED <<streams, label_index, label_values, interner, total_entries,
                   stream_ids, next_stream_id, trace_index>>

(* ingest_stream, with the numbers its caller drew for the batch, which
   ascend as the entries were read.  A batch may be empty: its stream is
   created all the same.  (Were the stream of a known label set missing, the
   code would warn and return; StreamIdentity says that it never is.)      *)
Batches ==
    UNION {[1 .. n -> [ts : Timestamps, trace : TraceIds \cup {NoTrace}]] : n \in 0 .. MaxBatch}

DrawnFor(batch) ==
    {seqs \in [1 .. Len(batch) -> drawn] :
        \A i, j \in 1 .. Len(batch) : i < j => seqs[i] < seqs[j]}

Stamp(batch, seqs) ==
    [i \in 1 .. Len(batch) |->
        [ts |-> batch[i].ts, seq |-> seqs[i], trace |-> batch[i].trace]]

(* Mutant: entries without a trace id are indexed too. *)
TracesIn_WithNone(entries) == {entries[i].trace : i \in DOMAIN entries}

TracesIn(entries) == {entries[i].trace : i \in DOMAIN entries} \ {NoTrace}

(* Mutant: the stream replaces the ones already listed. *)
AddToTraceIndex_Overwrite(traces, id) ==
    [t \in DOMAIN trace_index \cup traces |-> IF t \in traces THEN {id} ELSE trace_index[t]]

AddToTraceIndex(traces, id) ==
    [t \in DOMAIN trace_index \cup traces |->
        EntryOrEmpty(trace_index, t) \cup (IF t \in traces THEN {id} ELSE {})]

AppendToStream(id, entries) ==
    /\ trace_index' = AddToTraceIndex(TracesIn(entries), id)
    /\ total_entries' = total_entries + Len(entries)

IngestStream(labels, entries) ==
    /\ interner' = InternLabelPairs(interner, labels)
    /\ label_values' = TrackLabelValues(label_values, labels)
    /\ \/ /\ labels \in DOMAIN stream_ids
          /\ LET id == stream_ids[labels]
             IN  /\ id \in DOMAIN streams
                 /\ streams' = [streams EXCEPT ![id] =
                                   [labels |-> labels, entries |-> AppendBatch(@.entries, entries)]]
                 /\ AppendToStream(id, entries)
          /\ UNCHANGED <<label_index, stream_ids, next_stream_id>>
       \/ /\ labels \notin DOMAIN stream_ids
          /\ next_stream_id < MaxStreams
          /\ LET id == next_stream_id
             IN  /\ stream_ids' = [l \in DOMAIN stream_ids \cup {labels} |->
                                      IF l = labels THEN id ELSE stream_ids[l]]
                 /\ streams' = [i \in DOMAIN streams \cup {id} |->
                                   IF i = id
                                   THEN [labels |-> labels, entries |-> AppendBatch(<< >>, entries)]
                                   ELSE streams[i]]
                 /\ label_index' = AddToLabelIndex(label_index, labels, id)
                 /\ AppendToStream(id, entries)
          /\ next_stream_id' = next_stream_id + 1

Ingest ==
    \E labels \in LabelSets, batch \in Batches : \E seqs \in DrawnFor(batch) :
        /\ IngestStream(labels, Stamp(batch, seqs))
        /\ drawn' = drawn \ Range(seqs)
        /\ UNCHANGED ingest_seq

-----------------------------------------------------------------------------
(* What every removal of whole streams does to the maps and indexes. *)
RemoveStreams(gone) ==
    /\ stream_ids' = [l \in DOMAIN stream_ids \ {streams[id].labels : id \in gone} |->
                         stream_ids[l]]
    /\ label_index' = RemoveFromLabelIndex(label_index, LabelsOf, gone)
    /\ label_values' = RemoveFromLabelValues(label_index, label_values, LabelsOf, gone)

(* rebuild_trace_index from the surviving entries. *)
RebuildTraceIndex(entriesOf) ==
    [t \in UNION {TracesIn(entriesOf[id]) : id \in DOMAIN entriesOf} |->
        {id \in DOMAIN entriesOf : t \in TracesIn(entriesOf[id])}]

(* evict_before: every stream loses its entries older than the cutoff, and
   a stream that has none left goes.                                       *)
Unexpired(cutoff) ==
    [id \in DOMAIN streams |->
        DrainFront(streams[id].entries, CountBelow(streams[id].entries, cutoff))]

EvictBefore(cutoff) ==
    LET live == Unexpired(cutoff)
    IN  [id \in {i \in DOMAIN streams : live[i] # << >>} |-> live[id]]

(* evict_to_max: streams are drained one after the other, the one with the
   oldest first entry first.  Equal times come in the hash map's order,
   which can be any.                                                       *)
DrainOrders(entriesOf) ==
    {pos \in Bijection(DOMAIN entriesOf, 1 .. Cardinality(DOMAIN entriesOf)) :
        \A a, b \in DOMAIN entriesOf :
            entriesOf[a][1].ts < entriesOf[b][1].ts => pos[a] < pos[b]}

(* Mutant: one entry more than the maximum may stay. *)
ToRemove_OneOver(total) == SaturatingSub(total, MaxLogEntries + 1)

ToRemove(total) == SaturatingSub(total, MaxLogEntries)

EvictToMax(entriesOf, total, pos) ==
    LET ahead(id) == CountItems([i \in {j \in DOMAIN entriesOf : pos[j] < pos[id]} |->
                                      entriesOf[i]])
        drain(id) == Lesser(SaturatingSub(ToRemove(total), ahead(id)), Len(entriesOf[id]))
    IN  [id \in {i \in DOMAIN entriesOf : drain(i) < Len(entriesOf[i])} |->
            DrainFront(entriesOf[id], drain(id))]

(* Mutant: expired entries stay counted. *)
TotalAfterExpiry_Unchanged(fresh) == total_entries

TotalAfterExpiry(fresh) ==
    SaturatingSub(total_entries, CountItems(EntriesOf) - CountItems(fresh))

RunEviction(cutoff) ==
    LET fresh == EvictBefore(cutoff)
        total == TotalAfterExpiry(fresh)
    IN  \E pos \in DrainOrders(fresh) :
            LET kept == EvictToMax(fresh, total, pos)
            IN  /\ streams' = [id \in DOMAIN kept |->
                                  [labels |-> streams[id].labels, entries |-> kept[id]]]
                /\ RemoveStreams(DOMAIN streams \ DOMAIN kept)
                /\ total_entries' = total - (CountItems(fresh) - CountItems(kept))
                /\ trace_index' = RebuildTraceIndex(kept)
                /\ UNCHANGED <<interner, next_stream_id, ingest_seq, drawn>>

-----------------------------------------------------------------------------
(* clear_service returns without a change unless the index lists streams of
   the service.  The trace index is left as it is.                         *)
ClearService(service) ==
    /\ {"service", service} \subseteq interner
    /\ <<"service", service>> \in DOMAIN label_index
    /\ LET gone == label_index[<<"service", service>>] \cap DOMAIN streams
       IN  /\ streams' = [id \in DOMAIN streams \ gone |-> streams[id]]
           /\ total_entries' =
                 SaturatingSub(total_entries, CountItems([id \in gone |-> streams[id].entries]))
           /\ RemoveStreams(gone)
    /\ UNCHANGED <<interner, next_stream_id, trace_index, ingest_seq, drawn>>

Clear ==
    /\ streams' = NoEntries
    /\ label_index' = NoEntries
    /\ label_values' = NoEntries
    /\ interner' = {}
    /\ total_entries' = 0
    /\ stream_ids' = NoEntries
    /\ next_stream_id' = 0
    /\ trace_index' = NoEntries
    /\ UNCHANGED <<ingest_seq, drawn>>

(* A snapshot keeps the store's fields; load_snapshot then calls
   rebuild_stream_ids, which goes through the ids in ascending order.  main
   seeds the counter one above the highest number in the three stores, of
   which the other two may hold any; the pushes in preparation are gone.
   Loading an older snapshot only returns to an earlier state before it
   takes this step.                                                        *)
Seeds ==
    {n \in 1 .. ingest_seq :
        \A id \in DOMAIN streams : \A i \in DOMAIN streams[id].entries :
            streams[id].entries[i].seq < n}

HighestId(ids) == CHOOSE id \in ids : \A other \in ids : other <= id

(* Mutant: the next id is the number of streams. *)
NextFreeId_Count(ids) == Cardinality(ids)

NextFreeId(ids) == IF ids = {} THEN 0 ELSE HighestId(ids) + 1

RestoreFromSnapshot ==
    /\ stream_ids' = [l \in {streams[id].labels : id \in DOMAIN streams} |->
                         HighestId({id \in DOMAIN streams : streams[id].labels = l})]
    /\ next_stream_id' = NextFreeId(DOMAIN streams)
    /\ ingest_seq' \in Seeds
    /\ drawn' = {}
    /\ UNCHANGED <<streams, label_index, label_values, interner, total_entries, trace_index>>

Next ==
    \/ Draw
    \/ Ingest
    \/ \E cutoff \in Cutoffs : RunEviction(cutoff)
    \/ \E service \in Services : ClearService(service)
    \/ Clear
    \/ RestoreFromSnapshot

Spec == Init /\ [][Next]_vars

-----------------------------------------------------------------------------
(* query_streams and get_entries. *)
QueryStreams(matchers) ==
    SelectIndexedIds(interner, label_index, label_values, DOMAIN streams, matchers)

GetEntries(id, start, end) ==
    LET entries == streams[id].entries
    IN  SubSeq(entries, CountBelow(entries, start) + 1, CountBelow(entries, end + 1))

-----------------------------------------------------------------------------
(* The types of the fields of LogStore. *)
TypeOK ==
    /\ DOMAIN streams \subseteq Nat
    /\ \A id \in DOMAIN streams : streams[id] \in LogStream
    /\ total_entries \in Nat
    /\ next_stream_id \in Nat
    /\ ingest_seq \in Nat
    /\ drawn \subseteq Nat
    /\ DOMAIN stream_ids \subseteq LabelSets
    /\ \A labels \in DOMAIN stream_ids : stream_ids[labels] \in Nat
    /\ DOMAIN trace_index \subseteq TraceIds

(* The inverted index and the label values list exactly the streams in the
   store, through every ingest, eviction, reset and restore: nothing left
   behind by ingest_stream, evict_before, evict_to_max or clear_service.   *)
LabelIndexesExact ==
    /\ LabelIndexExact(label_index, LabelsOf)
    /\ LabelValuesExact(label_values, LabelsOf)
    /\ InternerCovers(interner, LabelsOf)

(* query_streams answers every conjunction of matchers as a scan of all
   streams would, whatever the index went through before.                  *)
QueriesExact ==
    \A matchers \in {ms \in SUBSET Matchers : Cardinality(ms) <= 2} :
        (\A m \in matchers : ValidMatcher(m)) =>
            QueryStreams(matchers) = ScanIds(LabelsOf, matchers)

(* A label set names one stream and a stream has one name, and the next id
   to be given out is none in use, also after rebuild_stream_ids.          *)
StreamIdentity ==
    /\ DOMAIN stream_ids = {streams[id].labels : id \in DOMAIN streams}
    /\ \A id \in DOMAIN streams :
          /\ id < next_stream_id
          /\ stream_ids[streams[id].labels] = id

ReadsInWindow ==
    \A id \in DOMAIN streams, start, end \in Timestamps :
        LET read == GetEntries(id, start, end)
            entries == streams[id].entries
            inWindow == {i \in DOMAIN entries : start <= entries[i].ts /\ entries[i].ts <= end}
        IN  /\ start <= end => read = ItemsAt(entries, inWindow)
            /\ \A i, j \in DOMAIN read : i < j => read[i].ts <= read[j].ts

(* x came into the stream before y: in an earlier batch, or first in the
   batch that just came in.                                                *)
CameBefore(old, x, y) ==
    \/ \E i, j \in DOMAIN old : i < j /\ old[i] = x /\ old[j] = y
    \/ x \in Range(old) /\ y \notin Range(old)
    \/ x \notin Range(old) /\ y \notin Range(old) /\ x.seq < y.seq

StoredEntries(id) == IF id \in DOMAIN streams THEN streams[id].entries ELSE << >>

EqualTimesInOrder(old, new) ==
    \A i, j \in DOMAIN new :
        i < j /\ new[i].ts = new[j].ts => CameBefore(old, new[i], new[j])

(* Whatever step changes the streams, get_entries returns exactly the entries of
   the window by time, and those of equal time in the order in which they
   were stored, although a batch is sorted in only when batch_needs_sort
   finds it out of order.  Their numbers say nothing of that order: a push
   may draw before another and store after it.                             *)
RangeReadsExact ==
    [][/\ ReadsInWindow'
       /\ \A id \in DOMAIN streams' : EqualTimesInOrder(StoredEntries(id), streams'[id].entries)]_streams

(* total_entries, which capacity eviction trusts, is the number of entries:
   no saturating subtraction ever saturates.                               *)
TotalIsExact == total_entries = CountItems(EntriesOf)

(* streams_for_trace misses no stream that holds an entry of the trace. *)
TraceIndexComplete ==
    \A id \in DOMAIN streams : \A t \in TracesIn(streams[id].entries) :
        id \in EntryOrEmpty(trace_index, t)

(* The store as the abstract store of log entries: an entry counts one
   against max_log_entries.                                                *)
ServicesOf(labels) == {p[2] : p \in {q \in labels : q[1] = "service"}}

HeldEntries ==
    UNION {{[seq |-> streams[id].entries[i].seq, ts |-> streams[id].entries[i].ts,
             group |-> streams[id].labels, services |-> ServicesOf(streams[id].labels)] :
               i \in DOMAIN streams[id].entries} : id \in DOMAIN streams}

Store == INSTANCE SignalStore WITH
            held <- HeldEntries, Capacity <- MaxLogEntries, Load <- Cardinality

(* Every step of the log store is a step the abstract store allows: entries
   leave only expired, over capacity, by a reset of their own service or
   by a clear, and eviction stops as soon as the store fits.               *)
ImplementsSignalStore == Store!Spec

(* log_store.rs:322 and DESIGN.md:444 say that capacity eviction takes the
   oldest entries first: no evicted entry is newer than one that stays.    *)
EvictsOldestFirst ==
    [][\A cutoff \in Cutoffs : RunEviction(cutoff) =>
          \A gone \in HeldEntries \ HeldEntries', kept \in HeldEntries' : gone.ts <= kept.ts]_vars

=============================================================================
