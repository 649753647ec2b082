---------------------------- MODULE LogStoreProofs ----------------------------
(***************************************************************************)
(* The log store: its indexes are exact in every reachable state, its      *)
(* entries are in order and counted, its trace index is complete, and it   *)
(* implements the abstract store of SignalStore, for any label sets,       *)
(* times, services and limits.                                              *)
(***************************************************************************)
EXTENDS LogStore, StoreIndexProofs, ItemSeqsProofs

(* What makes the index invariants inductive: a batch for a known label set
   must find its stream under that label set, and a new stream must get an
   id that no posting list already holds.                                  *)
IndexInv ==
    /\ \A id \in DOMAIN streams : id \in Nat /\ streams[id].labels \in LabelSets
    /\ next_stream_id \in Nat
    /\ StreamIdentity
    /\ LabelIndexesExact

-----------------------------------------------------------------------------
LEMMA LabelsArePairs ==
    ASSUME IndexInv
    PROVE  /\ DOMAIN LabelsOf = DOMAIN streams
           /\ \A id \in DOMAIN LabelsOf :
                 LabelsOf[id] = streams[id].labels /\ PairsOnly(LabelsOf[id])
BY LogConstants DEF IndexInv, LabelsOf, PairsOnly

LEMMA IndexInvInit == Init => IndexInv
<1> SUFFICES ASSUME Init PROVE IndexInv
  OBVIOUS
<1>1. DOMAIN streams = {} /\ DOMAIN stream_ids = {} /\ next_stream_id = 0
  BY DEF Init, NoEntries
<1>2. LabelsOf = [id \in {} |-> {}]
  BY <1>1 DEF LabelsOf
<1>3. AllPairs(LabelsOf) = {}
  BY <1>2 DEF AllPairs
<1>4. LabelNames(AllPairs(LabelsOf)) = {}
  BY <1>3 DEF LabelNames
<1>5. LabelIndexExact(label_index, LabelsOf)
  BY <1>3 DEF LabelIndexExact, Init, NoEntries
<1>6. LabelValuesExact(label_values, LabelsOf)
  BY <1>4 DEF LabelValuesExact, Init, NoEntries
<1>7. InternerCovers(interner, LabelsOf)
  BY <1>3 DEF InternerCovers
<1> QED  BY <1>1, <1>5, <1>6, <1>7 DEF IndexInv, StreamIdentity, LabelIndexesExact

(* A batch for a label set without a stream creates one, under a fresh id. *)
LEMMA NewStreamKeepsIndexInv ==
    ASSUME IndexInv, NEW labels \in LabelSets, labels \notin DOMAIN stream_ids,
           NEW entries,
           interner' = InternLabelPairs(interner, labels),
           label_values' = TrackLabelValues(label_values, labels),
           label_index' = AddToLabelIndex(label_index, labels, next_stream_id),
           stream_ids' = [l \in DOMAIN stream_ids \cup {labels} |->
                             IF l = labels THEN next_stream_id ELSE stream_ids[l]],
           streams' = [i \in DOMAIN streams \cup {next_stream_id} |->
                          IF i = next_stream_id
                          THEN [labels |-> labels, entries |-> entries] ELSE streams[i]],
           next_stream_id' = next_stream_id + 1
    PROVE  IndexInv'
<1> DEFINE id == next_stream_id
<1>1. id \in Nat /\ id \notin DOMAIN streams
  BY DEF IndexInv, StreamIdentity
<1>2. /\ DOMAIN streams' = DOMAIN streams \cup {id}
      /\ \A i \in DOMAIN streams : streams'[i] = streams[i]
      /\ streams'[id].labels = labels
  BY <1>1
<1>3. LabelsOf' = Extend(LabelsOf, labels, id)
  BY <1>1, <1>2 DEF LabelsOf, Extend
<1>4. id \notin DOMAIN LabelsOf
  BY <1>1 DEF LabelsOf
<1>5. LabelIndexExact(label_index, LabelsOf)'
  <2>1. LabelIndexExact(AddToLabelIndex(label_index, labels, id), Extend(LabelsOf, labels, id))
    BY <1>4, AddKeepsLabelIndexExact DEF IndexInv, LabelIndexesExact
  <2> QED  BY <1>3, <2>1 DEF LabelIndexExact
<1>6. LabelValuesExact(label_values, LabelsOf)'
  <2>1. LabelValuesExact(TrackLabelValues(label_values, labels), Extend(LabelsOf, labels, id))
    BY <1>4, TrackKeepsLabelValuesExact DEF IndexInv, LabelIndexesExact
  <2> QED  BY <1>3, <2>1 DEF LabelValuesExact
<1>7. InternerCovers(interner, LabelsOf)'
  <2>1. AllPairs(LabelsOf)' = AllPairs(LabelsOf) \cup labels
    BY <1>3, <1>4, AllPairsExtend DEF AllPairs
  <2> QED  BY <2>1 DEF InternerCovers, InternLabelPairs, IndexInv, LabelIndexesExact
<1>8. StreamIdentity'
  <2>1. \A i \in DOMAIN streams : streams[i].labels # labels
    BY DEF IndexInv, StreamIdentity
  <2>2. DOMAIN stream_ids' = {streams'[i].labels : i \in DOMAIN streams'}
    <3>1. {streams'[i].labels : i \in DOMAIN streams'}
            = {streams[i].labels : i \in DOMAIN streams} \cup {labels}
      BY <1>2
    <3>2. DOMAIN stream_ids = {streams[i].labels : i \in DOMAIN streams}
      BY DEF IndexInv, StreamIdentity
    <3> QED  BY <3>1, <3>2
  <2>3. \A i \in DOMAIN streams' : i < next_stream_id' /\ stream_ids'[streams'[i].labels] = i
    BY <1>1, <1>2, <2>1 DEF IndexInv, StreamIdentity
  <2> QED  BY <2>2, <2>3 DEF StreamIdentity
<1>9. \A i \in DOMAIN streams' : i \in Nat /\ streams'[i].labels \in LabelSets
  BY <1>1, <1>2 DEF IndexInv
<1> QED  BY <1>1, <1>5, <1>6, <1>7, <1>8, <1>9 DEF IndexInv, LabelIndexesExact

(* A batch for a known label set touches no index. *)
LEMMA KnownStreamKeepsIndexInv ==
    ASSUME IndexInv, NEW labels \in LabelSets, labels \in DOMAIN stream_ids,
           interner' = InternLabelPairs(interner, labels),
           label_values' = TrackLabelValues(label_values, labels),
           DOMAIN streams' = DOMAIN streams,
           \A i \in DOMAIN streams : streams'[i].labels = streams[i].labels,
           UNCHANGED <<label_index, stream_ids, next_stream_id>>
    PROVE  IndexInv'
<1>1. PICK id \in DOMAIN streams : labels = streams[id].labels
  BY DEF IndexInv, StreamIdentity
<1>2. LabelsOf' = LabelsOf
  BY DEF LabelsOf
<1>3. id \in DOMAIN LabelsOf /\ LabelsOf[id] = labels
  BY <1>1 DEF LabelsOf
<1>4. label_values' = label_values
  BY <1>3, TrackKnownKeepsLabelValues DEF IndexInv, LabelIndexesExact
<1>5. InternerCovers(interner, LabelsOf)'
  <2>1. InternerCovers(interner, LabelsOf)
    BY DEF IndexInv, LabelIndexesExact
  <2> QED  BY <1>2, <2>1 DEF InternerCovers, InternLabelPairs
<1>6. LabelIndexExact(label_index, LabelsOf)' /\ LabelValuesExact(label_values, LabelsOf)'
  <2>1. LabelIndexExact(label_index, LabelsOf) /\ LabelValuesExact(label_values, LabelsOf)
    BY DEF IndexInv, LabelIndexesExact
  <2> QED  BY <1>2, <1>4, <2>1 DEF LabelIndexExact, LabelValuesExact
<1>7. StreamIdentity'
  BY DEF IndexInv, StreamIdentity
<1> QED  BY <1>5, <1>6, <1>7 DEF IndexInv, LabelIndexesExact

(* Removing whole streams, by eviction or by a service reset. *)
LEMMA RemoveStreamsKeepsIndexInv ==
    ASSUME IndexInv, NEW gone \in SUBSET DOMAIN streams,
           RemoveStreams(gone),
           DOMAIN streams' = DOMAIN streams \ gone,
           \A id \in DOMAIN streams' : streams'[id].labels = streams[id].labels,
           UNCHANGED <<interner, next_stream_id>>
    PROVE  IndexInv'
<1>1. /\ DOMAIN LabelsOf = DOMAIN streams
      /\ \A id \in DOMAIN LabelsOf : PairsOnly(LabelsOf[id])
  BY LabelsArePairs
<1>2. LabelsOf' = Without(LabelsOf, gone)
  BY DEF LabelsOf, Without
<1>3. LabelIndexExact(label_index, LabelsOf)'
  <2>1. LabelIndexExact(RemoveFromLabelIndex(label_index, LabelsOf, gone), Without(LabelsOf, gone))
    BY <1>1, RemoveKeepsLabelIndexExact DEF IndexInv, LabelIndexesExact
  <2>2. label_index' = RemoveFromLabelIndex(label_index, LabelsOf, gone)
    BY DEF RemoveStreams
  <2> QED  BY <1>2, <2>1, <2>2 DEF LabelIndexExact
<1>4. LabelValuesExact(label_values, LabelsOf)'
  <2>1. LabelValuesExact(RemoveFromLabelValues(label_index, label_values, LabelsOf, gone),
                         Without(LabelsOf, gone))
    BY <1>1, RemoveKeepsLabelValuesExact DEF IndexInv, LabelIndexesExact
  <2>2. label_values' = RemoveFromLabelValues(label_index, label_values, LabelsOf, gone)
    BY DEF RemoveStreams
  <2> QED  BY <1>2, <2>1, <2>2 DEF LabelValuesExact
<1>5. InternerCovers(interner, LabelsOf)'
  BY <1>1, <1>2 DEF Without, AllPairs, InternerCovers, IndexInv, LabelIndexesExact
<1>6. StreamIdentity'
  <2>1. \A i, j \in DOMAIN streams : streams[i].labels = streams[j].labels => i = j
    BY DEF IndexInv, StreamIdentity
  <2>2. DOMAIN stream_ids' = DOMAIN stream_ids \ {streams[id].labels : id \in gone}
    BY DEF RemoveStreams
  <2>3. DOMAIN stream_ids' = {streams'[i].labels : i \in DOMAIN streams'}
    BY <2>1, <2>2 DEF IndexInv, StreamIdentity
  <2>4. \A i \in DOMAIN streams' : i < next_stream_id' /\ stream_ids'[streams'[i].labels] = i
    BY <2>2, <2>3 DEF RemoveStreams, IndexInv, StreamIdentity
  <2> QED  BY <2>3, <2>4 DEF StreamIdentity
<1> QED  BY <1>3, <1>4, <1>5, <1>6 DEF IndexInv, LabelIndexesExact

-----------------------------------------------------------------------------
(* A bounded set of ids has a highest one: rebuild_stream_ids finds it. *)
LEMMA HighestIdExists ==
    ASSUME NEW ids \in SUBSET Nat, ids # {}, NEW n \in Nat, \A id \in ids : id < n
    PROVE  /\ HighestId(ids) \in ids
           /\ \A id \in ids : id <= HighestId(ids)
<1> DEFINE bounds == {b \in Nat : \A id \in ids : id < b}
           R == OpToRel(<, Nat)
<1>1. n \in bounds
  OBVIOUS
<1>2. \E b \in bounds : \A c \in bounds : <<c, b>> \notin R
  <2>1. bounds \subseteq Nat /\ bounds # {}
    BY <1>1
  <2>2. IsWellFoundedOn(R, Nat)
    BY NatLessThanWellFounded
  <2> HIDE DEF bounds, R
  <2> QED  BY <2>1, <2>2, WFMin, Zenon
<1>3. PICK b \in bounds : \A c \in bounds : ~ (c < b)
  BY <1>2 DEF OpToRel
<1>4. b - 1 \in ids
  <2>1. b # 0
    <3>1. PICK id \in ids : TRUE
      OBVIOUS
    <3>2. id \in Nat /\ id < b
      BY <1>3, <3>1
    <3> QED  BY <3>2
  <2>2. b - 1 \in Nat /\ b - 1 \notin bounds
    BY <1>3, <2>1
  <2>3. PICK id \in ids : ~ (id < b - 1)
    BY <2>2
  <2>4. id = b - 1
    BY <2>2, <2>3
  <2> QED  BY <2>3, <2>4
<1>5. \A id \in ids : id <= b - 1
  BY <1>3
<1>6. \E id \in ids : \A other \in ids : other <= id
  BY <1>4, <1>5
<1> QED  BY <1>6 DEF HighestId

-----------------------------------------------------------------------------
LEMMA DrawKeepsIndexInv == IndexInv /\ Draw => IndexInv'
BY DEF Draw, IndexInv, StreamIdentity, LabelIndexesExact, LabelsOf,
       LabelIndexExact, LabelValuesExact, InternerCovers

LEMMA IngestKeepsIndexInv == IndexInv /\ Ingest => IndexInv'
<1> SUFFICES ASSUME IndexInv, NEW labels \in LabelSets, NEW entries,
                    IngestStream(labels, entries)
             PROVE  IndexInv'
  BY DEF Ingest
<1>1. CASE labels \in DOMAIN stream_ids
  <2>1. DOMAIN streams' = DOMAIN streams
    BY <1>1 DEF IngestStream
  <2>2. \A i \in DOMAIN streams : streams'[i].labels = streams[i].labels
    <3>1. PICK id \in DOMAIN streams : labels = streams[id].labels
      BY <1>1 DEF IndexInv, StreamIdentity
    <3>2. stream_ids[labels] = id
      BY <3>1 DEF IndexInv, StreamIdentity
    <3> QED  BY <1>1, <3>1, <3>2 DEF IngestStream
  <2> QED  BY <1>1, <2>1, <2>2, KnownStreamKeepsIndexInv DEF IngestStream
<1>2. CASE labels \notin DOMAIN stream_ids
  BY <1>2, NewStreamKeepsIndexInv DEF IngestStream
<1> QED  BY <1>1, <1>2

LEMMA RunEvictionKeepsIndexInv ==
    ASSUME IndexInv, NEW cutoff \in Cutoffs, RunEviction(cutoff)
    PROVE  IndexInv'
<1> DEFINE fresh == EvictBefore(cutoff)
           total == TotalAfterExpiry(fresh)
<1>1. PICK pos : LET kept == EvictToMax(fresh, total, pos)
                 IN  /\ streams' = [id \in DOMAIN kept |->
                                       [labels |-> streams[id].labels, entries |-> kept[id]]]
                     /\ RemoveStreams(DOMAIN streams \ DOMAIN kept)
                     /\ UNCHANGED <<interner, next_stream_id>>
  BY DEF RunEviction
<1> DEFINE kept == EvictToMax(fresh, total, pos)
<1>2. DOMAIN fresh \subseteq DOMAIN streams
  BY DEF EvictBefore
<1>3. DOMAIN kept \subseteq DOMAIN streams
  BY <1>2 DEF EvictToMax
<1> HIDE DEF fresh, total, kept
<1>4. /\ streams' = [id \in DOMAIN kept |->
                        [labels |-> streams[id].labels, entries |-> kept[id]]]
      /\ RemoveStreams(DOMAIN streams \ DOMAIN kept)
      /\ UNCHANGED <<interner, next_stream_id>>
  BY <1>1 DEF kept
<1>5. DOMAIN streams' = DOMAIN streams \ (DOMAIN streams \ DOMAIN kept)
  BY <1>3, <1>4
<1>6. \A id \in DOMAIN streams' : streams'[id].labels = streams[id].labels
  BY <1>4
<1> QED  BY <1>4, <1>5, <1>6, RemoveStreamsKeepsIndexInv

LEMMA ClearServiceKeepsIndexInv ==
    ASSUME IndexInv, NEW service \in Services, ClearService(service)
    PROVE  IndexInv'
<1> DEFINE gone == label_index[<<"service", service>>] \cap DOMAIN streams
<1>1. /\ streams' = [id \in DOMAIN streams \ gone |-> streams[id]]
      /\ RemoveStreams(gone)
      /\ UNCHANGED <<interner, next_stream_id>>
  BY DEF ClearService
<1> HIDE DEF gone
<1>2. gone \subseteq DOMAIN streams
  BY DEF gone
<1> QED  BY <1>1, <1>2, RemoveStreamsKeepsIndexInv

LEMMA ClearKeepsIndexInv == Clear => IndexInv'
<1> SUFFICES ASSUME Clear PROVE IndexInv'
  OBVIOUS
<1>1. DOMAIN streams' = {} /\ DOMAIN stream_ids' = {} /\ next_stream_id' = 0
  BY DEF Clear, NoEntries
<1>2. LabelsOf' = [id \in {} |-> {}]
  BY <1>1 DEF LabelsOf
<1>3. AllPairs(LabelsOf') = {}
  BY <1>2 DEF AllPairs
<1>4. LabelNames(AllPairs(LabelsOf')) = {}
  BY <1>3 DEF LabelNames
<1>5. LabelIndexExact(label_index, LabelsOf)'
  BY <1>3 DEF LabelIndexExact, Clear, NoEntries
<1>6. LabelValuesExact(label_values, LabelsOf)'
  BY <1>4 DEF LabelValuesExact, Clear, NoEntries
<1>7. InternerCovers(interner, LabelsOf)'
  BY <1>3 DEF InternerCovers
<1> QED  BY <1>1, <1>5, <1>6, <1>7 DEF IndexInv, StreamIdentity, LabelIndexesExact

LEMMA RestoreKeepsIndexInv == IndexInv /\ RestoreFromSnapshot => IndexInv'
<1> SUFFICES ASSUME IndexInv, RestoreFromSnapshot PROVE IndexInv'
  OBVIOUS
<1> DEFINE ids == DOMAIN streams
<1>1. ids \subseteq Nat /\ next_stream_id \in Nat /\ \A id \in ids : id < next_stream_id
  BY DEF IndexInv, StreamIdentity
<1>2. NextFreeId(ids) \in Nat /\ \A id \in ids : id < NextFreeId(ids)
  <2>1. CASE ids = {}
    BY <2>1 DEF NextFreeId
  <2>2. CASE ids # {}
    <3>1. HighestId(ids) \in ids /\ \A id \in ids : id <= HighestId(ids)
      BY <1>1, <2>2, HighestIdExists
    <3> QED  BY <1>1, <2>2, <3>1 DEF NextFreeId
  <2> QED  BY <2>1, <2>2
<1>3. \A id \in ids : HighestId({i \in ids : streams[i].labels = streams[id].labels}) = id
  <2> SUFFICES ASSUME NEW id \in ids
               PROVE  HighestId({i \in ids : streams[i].labels = streams[id].labels}) = id
    OBVIOUS
  <2>1. {i \in ids : streams[i].labels = streams[id].labels} = {id}
    BY DEF IndexInv, StreamIdentity
  <2>2. HighestId({id}) = id
    BY <1>1 DEF HighestId
  <2> QED  BY <2>1, <2>2
<1>4. StreamIdentity'
  <2>1. streams' = streams /\ next_stream_id' = NextFreeId(ids)
    BY DEF RestoreFromSnapshot
  <2>2. DOMAIN stream_ids' = {streams[id].labels : id \in ids}
    BY DEF RestoreFromSnapshot
  <2>3. \A id \in ids : stream_ids'[streams[id].labels] = id
    BY <1>3, <2>2 DEF RestoreFromSnapshot
  <2> QED  BY <1>2, <2>1, <2>2, <2>3 DEF StreamIdentity
<1>5. LabelIndexesExact'
  BY DEF IndexInv, RestoreFromSnapshot, LabelIndexesExact, LabelsOf,
         LabelIndexExact, LabelValuesExact, InternerCovers
<1> QED  BY <1>1, <1>2, <1>4, <1>5 DEF IndexInv, RestoreFromSnapshot

-----------------------------------------------------------------------------
(* Every reachable state of the log store satisfies the index invariant. *)
THEOREM IndexInvariant == Spec => []IndexInv
<1>1. Init => IndexInv
  BY IndexInvInit
<1>2. IndexInv /\ [Next]_vars => IndexInv'
  <2> SUFFICES ASSUME IndexInv, [Next]_vars PROVE IndexInv'
    OBVIOUS
  <2>0. CASE Draw
    BY <2>0, DrawKeepsIndexInv
  <2>1. CASE Ingest
    BY <2>1, IngestKeepsIndexInv
  <2>2. CASE \E cutoff \in Cutoffs : RunEviction(cutoff)
    BY <2>2, RunEvictionKeepsIndexInv
  <2>3. CASE \E service \in Services : ClearService(service)
    BY <2>3, ClearServiceKeepsIndexInv
  <2>4. CASE Clear
    BY <2>4, ClearKeepsIndexInv
  <2>5. CASE RestoreFromSnapshot
    BY <2>5, RestoreKeepsIndexInv
  <2>6. CASE UNCHANGED vars
    BY <2>6 DEF vars, IndexInv, StreamIdentity, LabelIndexesExact, LabelsOf,
                LabelIndexExact, LabelValuesExact, InternerCovers
  <2> QED  BY <2>0, <2>1, <2>2, <2>3, <2>4, <2>5, <2>6 DEF Next
<1> QED  BY <1>1, <1>2, PTL DEF Spec

(* label_index and label_values never miss or outlive a stream. *)
THEOREM LabelIndexesAlwaysExact == Spec => []LabelIndexesExact
<1>1. IndexInv => LabelIndexesExact
  BY DEF IndexInv
<1> QED  BY <1>1, IndexInvariant, PTL

(* stream_ids and streams name each other, and the next id is unused. *)
THEOREM StreamIdentityAlways == Spec => []StreamIdentity
<1>1. IndexInv => StreamIdentity
  BY DEF IndexInv
<1> QED  BY <1>1, IndexInvariant, PTL

(* query_streams always answers as a scan of every stream would. *)
THEOREM QueriesAlwaysExact == Spec => []QueriesExact
<1>1. IndexInv => QueriesExact
  <2> SUFFICES ASSUME IndexInv,
                      NEW matchers \in {ms \in SUBSET Matchers : Cardinality(ms) <= 2},
                      \A m \in matchers : ValidMatcher(m)
               PROVE  QueryStreams(matchers) = ScanIds(LabelsOf, matchers)
    BY DEF QueriesExact
  <2>1. \A m \in matchers : m.op \in {"Eq", "Neq", "Regex", "NotRegex"} /\ ValidMatcher(m)
    BY LogConstants
  <2>2. /\ DOMAIN LabelsOf = DOMAIN streams
        /\ \A i \in DOMAIN LabelsOf : PairsOnly(LabelsOf[i])
    BY LabelsArePairs
  <2>3. SelectIndexedIds(interner, label_index, label_values, DOMAIN LabelsOf, matchers)
          = ScanIds(LabelsOf, matchers)
    BY <2>1, <2>2, SelectionIsScan DEF IndexInv, LabelIndexesExact
  <2> QED  BY <2>2, <2>3 DEF QueryStreams
<1> QED  BY <1>1, IndexInvariant, PTL

-----------------------------------------------------------------------------
(* The entries: their order, their count and the trace index. *)

StampedOnce(s) == \A i, j \in 1 .. Len(s) : s[i].seq = s[j].seq => i = j

(* The numbers of a batch ascend, as its handler drew them, and no entry of
   the stream has one of them.                                             *)
Ascends(s) == \A i, j \in 1 .. Len(s) : i < j => s[i].seq < s[j].seq

Apart(s, t) == \A i \in 1 .. Len(s), j \in 1 .. Len(t) : s[i].seq # t[j].seq

(* The numbers of the entries are drawn and used up. *)
StampsUsed(s) == \A i \in 1 .. Len(s) : s[i].seq < ingest_seq /\ s[i].seq \notin drawn

(* `new` holds the entries of `old` and those of a batch, and nothing else. *)
Merges(old, batch, new) ==
    /\ Len(new) = Len(old) + Len(batch)
    /\ \A i \in 1 .. Len(old) : \E r \in 1 .. Len(new) : new[r] = old[i]
    /\ \A i \in 1 .. Len(batch) : \E r \in 1 .. Len(new) : new[r] = batch[i]
    /\ \A r \in 1 .. Len(new) :
          \/ \E i \in 1 .. Len(old) : new[r] = old[i]
          \/ \E i \in 1 .. Len(batch) : new[r] = batch[i]

-----------------------------------------------------------------------------
LEMMA EntryFields ==
    ASSUME NEW e \in LogEntry
    PROVE  e.ts \in Int /\ e.ts \in Timestamps /\ e.seq \in Nat /\ e.trace \in TraceIds \cup {NoTrace}
BY LogConstants DEF LogEntry

LEMMA EntriesAreTimed == \A e \in LogEntry : e.ts \in Int
BY EntryFields

(* A batch comes into a stream: the entries of the stream are those it had
   and those of the batch, by time and for one time as they came.          *)
LEMMA AppendKeepsOrder ==
    ASSUME NEW items \in Seq(LogEntry), NEW batch \in Seq(LogEntry),
           TimeSorted(items), StampedOnce(items), Ascends(batch), Apart(items, batch),
           NEW out, out = AppendBatch(items, batch)
    PROVE  /\ out \in Seq(LogEntry)
           /\ TimeSorted(out) /\ StampedOnce(out)
           /\ Merges(items, batch, out)
           /\ EqualTimesInOrder(items, out)
<1> DEFINE s == items \o batch
           m == Len(items)
           k == Len(batch)
           n == m + k
<1>1. m \in Nat /\ k \in Nat /\ n \in Nat
  OBVIOUS
<1>2. /\ s \in Seq(LogEntry) /\ Len(s) = n
      /\ \A i \in 1 .. m : s[i] = items[i]
      /\ \A i \in m + 1 .. n : i - m \in 1 .. k /\ s[i] = batch[i - m]
      /\ \A i \in 1 .. k : i + m \in 1 .. n /\ s[i + m] = batch[i]
  <2>1. /\ s \in Seq(LogEntry) /\ Len(s) = n
        /\ \A i \in 1 .. Len(s) : s[i] = IF i <= Len(items) THEN items[i] ELSE batch[i - Len(items)]
    BY ConcatProperties, Zenon
  <2> HIDE DEF s
  <2>2. \A i \in 1 .. m : s[i] = items[i]
    BY <1>1, <2>1
  <2>3. \A i \in m + 1 .. n : i - m \in 1 .. k /\ s[i] = batch[i - m]
    BY <1>1, <2>1
  <2>4. \A i \in 1 .. k : i + m \in 1 .. n /\ s[i + m] = batch[i]
    <3> SUFFICES ASSUME NEW i \in 1 .. k PROVE i + m \in 1 .. n /\ s[i + m] = batch[i]
      OBVIOUS
    <3> DEFINE j == i + m
    <3>1. j \in m + 1 .. n /\ j - m = i /\ j \in 1 .. n
      BY <1>1
    <3> HIDE DEF j
    <3>2. s[j] = batch[i]
      BY <2>3, <3>1
    <3> QED  BY <3>1, <3>2 DEF j
  <2> QED  BY <2>1, <2>2, <2>3, <2>4
<1>3. PICK from : Rearranges(from, s, out)
  BY EntriesAreTimed, AppendBatchIsPermutation
<1> HIDE DEF s, m, k, n
<1>4. /\ \A r \in 1 .. n : from[r] \in 1 .. n
      /\ \A r, q \in 1 .. n : from[r] = from[q] => r = q
      /\ \A i \in 1 .. n : \E r \in 1 .. n : from[r] = i
      /\ out = [r \in 1 .. n |-> s[from[r]]]
      /\ \A r, q \in 1 .. n : r < q => SortsBefore(s, from[r], from[q])
  BY <1>2, <1>3 DEF Rearranges, Bijection, Injection, IsInjective, Surjection
<1>5. \A i \in 1 .. n : s[i] \in LogEntry /\ s[i].seq \in Nat /\ s[i].ts \in Int
  BY <1>1, <1>2, EntryFields
<1>6. out \in Seq(LogEntry) /\ Len(out) = n /\ \A r \in 1 .. n : out[r] = s[from[r]]
  <2>1. \A r \in 1 .. n : s[from[r]] \in LogEntry
    BY <1>4, <1>5
  <2> QED  BY <1>1, <1>4, <2>1
<1>7. \A i \in 1 .. n : i \in Int /\ (i \in 1 .. m \/ i \in m + 1 .. n)
  BY <1>1
<1>8. \A i \in 1 .. m, j \in m + 1 .. n : s[i].seq # s[j].seq
  <2> SUFFICES ASSUME NEW i \in 1 .. m, NEW j \in m + 1 .. n PROVE s[i].seq # s[j].seq
    OBVIOUS
  <2>1. s[i] = items[i] /\ j - m \in 1 .. k /\ s[j] = batch[j - m]
    BY <1>2
  <2> QED  BY <2>1 DEF Apart, m, k
<1>9. \A i, j \in m + 1 .. n : i < j => s[i].seq < s[j].seq
  <2> SUFFICES ASSUME NEW i \in m + 1 .. n, NEW j \in m + 1 .. n, i < j PROVE s[i].seq < s[j].seq
    OBVIOUS
  <2>1. i - m \in 1 .. k /\ j - m \in 1 .. k /\ s[i] = batch[i - m] /\ s[j] = batch[j - m]
    BY <1>2
  <2>2. i - m < j - m
    BY <1>1
  <2> QED  BY <2>1, <2>2 DEF Ascends, k
<1>10. \A i, j \in 1 .. n : s[i].seq = s[j].seq => i = j
  <2> SUFFICES ASSUME NEW i \in 1 .. n, NEW j \in 1 .. n, s[i].seq = s[j].seq PROVE i = j
    OBVIOUS
  <2>1. CASE i \in 1 .. m /\ j \in 1 .. m
    BY <1>2, <2>1 DEF StampedOnce, m
  <2>2. CASE i \in m + 1 .. n /\ j \in m + 1 .. n
    <3>1. ~ (i < j) /\ ~ (j < i)
      BY <1>5, <1>9, <2>2
    <3> QED  BY <1>7, <3>1
  <2>3. CASE i \in 1 .. m /\ j \in m + 1 .. n
    BY <1>8, <2>3
  <2>4. CASE i \in m + 1 .. n /\ j \in 1 .. m
    BY <1>8, <2>4
  <2> QED  BY <1>7, <2>1, <2>2, <2>3, <2>4
<1>11. TimeSorted(out)
  <2> SUFFICES ASSUME NEW r \in 1 .. n, NEW q \in 1 .. n, r < q
               PROVE  out[r].ts <= out[q].ts
    BY <1>6 DEF TimeSorted
  <2>1. SortsBefore(s, from[r], from[q]) /\ from[r] \in 1 .. n /\ from[q] \in 1 .. n
    BY <1>4
  <2>2. out[r] = s[from[r]] /\ out[q] = s[from[q]]
    BY <1>6
  <2> QED  BY <1>5, <2>1, <2>2 DEF SortsBefore
<1>12. StampedOnce(out)
  <2> SUFFICES ASSUME NEW r \in 1 .. n, NEW q \in 1 .. n, out[r].seq = out[q].seq PROVE r = q
    BY <1>6 DEF StampedOnce
  <2>1. from[r] = from[q]
    <3>1. from[r] \in 1 .. n /\ from[q] \in 1 .. n
      BY <1>4
    <3>2. s[from[r]].seq = s[from[q]].seq
      BY <1>6
    <3> QED  BY <1>10, <3>1, <3>2
  <2> QED  BY <1>4, <2>1
<1>13. DOMAIN items = 1 .. m /\ DOMAIN out = 1 .. n
  BY <1>6 DEF m
<1>14. /\ \A i \in 1 .. m : s[i] \in Range(items)
       /\ \A j \in m + 1 .. n : s[j] \notin Range(items)
  BY <1>2, <1>8, <1>13 DEF Range
<1>15. EqualTimesInOrder(items, out)
  <2> SUFFICES ASSUME NEW r \in 1 .. n, NEW q \in 1 .. n, r < q, out[r].ts = out[q].ts
               PROVE  CameBefore(items, out[r], out[q])
    BY <1>13 DEF EqualTimesInOrder
  <2> DEFINE a == from[r]
             b == from[q]
  <2>1. SortsBefore(s, a, b) /\ a \in 1 .. n /\ b \in 1 .. n
    BY <1>4
  <2>2. out[r] = s[a] /\ out[q] = s[b]
    BY <1>6
  <2> HIDE DEF a, b
  <2>3. a < b
    BY <1>5, <2>1, <2>2 DEF SortsBefore
  <2>4. CASE a \in 1 .. m /\ b \in 1 .. m
    BY <1>2, <1>13, <2>2, <2>3, <2>4 DEF CameBefore
  <2>5. CASE a \in 1 .. m /\ b \in m + 1 .. n
    BY <1>14, <2>2, <2>5 DEF CameBefore
  <2>6. CASE a \in m + 1 .. n /\ b \in m + 1 .. n
    BY <1>9, <1>14, <2>2, <2>3, <2>6 DEF CameBefore
  <2>7. CASE a \in m + 1 .. n /\ b \in 1 .. m
    BY <1>1, <2>3, <2>7
  <2> QED  BY <1>7, <2>1, <2>4, <2>5, <2>6, <2>7
<1>16. \A i \in 1 .. m : \E r \in 1 .. n : out[r] = items[i]
  <2> SUFFICES ASSUME NEW i \in 1 .. m PROVE \E r \in 1 .. n : out[r] = items[i]
    OBVIOUS
  <2>1. i \in 1 .. n /\ s[i] = items[i]
    BY <1>1, <1>2 DEF n
  <2>2. PICK r \in 1 .. n : from[r] = i
    BY <1>4, <2>1
  <2> QED  BY <1>6, <2>1, <2>2
<1>17. \A i \in 1 .. k : \E r \in 1 .. n : out[r] = batch[i]
  <2> SUFFICES ASSUME NEW i \in 1 .. k PROVE \E r \in 1 .. n : out[r] = batch[i]
    OBVIOUS
  <2>1. i + m \in 1 .. n /\ s[i + m] = batch[i]
    BY <1>2
  <2> QED  BY <1>4, <1>6, <2>1
<1>18. \A r \in 1 .. n : \/ \E i \in 1 .. m : out[r] = items[i]
                         \/ \E i \in 1 .. k : out[r] = batch[i]
  <2> SUFFICES ASSUME NEW r \in 1 .. n
               PROVE  \/ \E i \in 1 .. m : out[r] = items[i]
                      \/ \E i \in 1 .. k : out[r] = batch[i]
    OBVIOUS
  <2>1. from[r] \in 1 .. n /\ out[r] = s[from[r]]
    BY <1>4, <1>6
  <2>2. CASE from[r] \in 1 .. m
    BY <1>2, <2>1, <2>2
  <2>3. CASE from[r] \in m + 1 .. n
    BY <1>2, <2>1, <2>3
  <2> QED  BY <1>7, <2>1, <2>2, <2>3
<1>19. Merges(items, batch, out)
  BY <1>6, <1>16, <1>17, <1>18 DEF m, k, n, Merges
<1> QED  BY <1>6, <1>11, <1>12, <1>15, <1>19

-----------------------------------------------------------------------------
LEMMA TailOfTail ==
    ASSUME NEW s, NEW t, NEW u, NEW n, NEW m, Len(s) \in Nat,
           IsTail(s, n, t), IsTail(t, m, u)
    PROVE  IsTail(s, n + m, u)
<1>1. n \in Nat /\ m \in Nat /\ Len(t) \in Nat /\ Len(u) \in Nat
  BY DEF IsTail
<1>2. n + m \in 0 .. Len(s) /\ Len(u) = Len(s) - (n + m)
  BY <1>1 DEF IsTail
<1>3. \A i \in 1 .. Len(u) : i + (n + m) \in 1 .. Len(s) /\ u[i] = s[i + (n + m)]
  <2> SUFFICES ASSUME NEW i \in 1 .. Len(u)
               PROVE  i + (n + m) \in 1 .. Len(s) /\ u[i] = s[i + (n + m)]
    OBVIOUS
  <2>1. i + m \in 1 .. Len(t) /\ u[i] = t[i + m]
    BY DEF IsTail
  <2> DEFINE j == i + m
  <2>2. j \in 1 .. Len(t) /\ j + n = i + (n + m)
    BY <1>1, <2>1
  <2> HIDE DEF j
  <2>3. j + n \in 1 .. Len(s) /\ t[j] = s[j + n]
    BY <2>2 DEF IsTail
  <2> QED  BY <2>1, <2>2, <2>3 DEF j
<1> QED  BY <1>2, <1>3 DEF IsTail

LEMMA TailKeepsOrder ==
    ASSUME NEW s \in Seq(LogEntry), NEW n, NEW left \in Seq(LogEntry), IsTail(s, n, left),
           TimeSorted(s)
    PROVE  TimeSorted(left) /\ EqualTimesInOrder(s, left)
<1> SUFFICES ASSUME NEW i \in 1 .. Len(left), NEW j \in 1 .. Len(left), i < j
             PROVE  left[i].ts <= left[j].ts /\ CameBefore(s, left[i], left[j])
  BY DEF TimeSorted, EqualTimesInOrder
<1> DEFINE a == i + n
           b == j + n
<1>1. a \in 1 .. Len(s) /\ b \in 1 .. Len(s) /\ left[i] = s[a] /\ left[j] = s[b]
  BY DEF IsTail
<1>2. a < b
  BY DEF IsTail
<1> HIDE DEF a, b
<1>3. DOMAIN s = 1 .. Len(s)
  OBVIOUS
<1> QED  BY <1>1, <1>2, <1>3 DEF TimeSorted, CameBefore

-----------------------------------------------------------------------------
(* No two entries of the store have the same stamp. *)
UniqueStamps ==
    \A a, b \in DOMAIN streams :
        \A i \in 1 .. Len(streams[a].entries), j \in 1 .. Len(streams[b].entries) :
            streams[a].entries[i].seq = streams[b].entries[j].seq => a = b /\ i = j

(* What makes the properties of the entries inductive.  Sorting a batch in
   only when it must be keeps the order because the stream was in order; an
   eviction can be counted only if entries can be told apart by their
   numbers, which in turn needs that a number still to be stored is none
   that is stored, whatever order the pushes come in.                      *)
StampsInv ==
    /\ \A id \in DOMAIN streams :
          /\ streams[id] \in LogStream
          /\ TimeSorted(streams[id].entries)
          /\ StampsUsed(streams[id].entries)
    /\ UniqueStamps
    /\ ingest_seq \in Nat
    /\ drawn \subseteq Nat /\ \A n \in drawn : n < ingest_seq
    /\ DOMAIN trace_index \subseteq TraceIds

EntriesInv == IndexInv /\ StampsInv /\ TotalIsExact /\ TraceIndexComplete

-----------------------------------------------------------------------------
LEMMA StreamFields ==
    ASSUME StampsInv, NEW id \in DOMAIN streams
    PROVE  /\ streams[id].labels \in LabelSets
           /\ streams[id].entries \in Seq(LogEntry)
           /\ Len(streams[id].entries) \in Nat
           /\ DOMAIN streams[id].entries = 1 .. Len(streams[id].entries)
<1>1. streams[id] \in LogStream
  BY DEF StampsInv
<1>2. streams[id].labels \in LabelSets /\ streams[id].entries \in Seq(LogEntry)
  BY <1>1 DEF LogStream
<1> QED  BY <1>2

LEMMA StreamsFinite ==
    ASSUME IndexInv
    PROVE  IsFiniteSet(DOMAIN streams)
<1>1. DOMAIN streams \in SUBSET Nat /\ next_stream_id \in Nat
  BY DEF IndexInv
<1>2. \A id \in DOMAIN streams : id <= next_stream_id
  BY <1>1 DEF IndexInv, StreamIdentity
<1> QED  BY <1>1, <1>2, FS_BoundedSetOfNaturals

LEMMA EntriesFinite ==
    ASSUME IndexInv, StampsInv
    PROVE  /\ DOMAIN EntriesOf = DOMAIN streams
           /\ \A id \in DOMAIN streams : EntriesOf[id] = streams[id].entries
           /\ IsFiniteSet(Slots(EntriesOf)) /\ CountItems(EntriesOf) \in Nat
<1>1. DOMAIN EntriesOf = DOMAIN streams /\ \A id \in DOMAIN streams : EntriesOf[id] = streams[id].entries
  BY DEF EntriesOf
<1>2. \A id \in DOMAIN EntriesOf : \E n \in Nat : DOMAIN EntriesOf[id] = 1 .. n
  BY <1>1, StreamFields
<1>3. IsFiniteSet(Slots(EntriesOf))
  BY <1>1, <1>2, StreamsFinite, SlotsFinite
<1> QED  BY <1>1, <1>3, FS_CardinalityType DEF CountItems

LEMMA EntriesInvInit == Init => EntriesInv
<1> SUFFICES ASSUME Init PROVE EntriesInv
  OBVIOUS
<1>1. DOMAIN streams = {} /\ DOMAIN trace_index = {} /\ total_entries = 0 /\ ingest_seq = 1 /\ drawn = {}
  BY DEF Init, NoEntries
<1>2. Slots(EntriesOf) = {}
  BY <1>1 DEF Slots, EntriesOf
<1>3. TotalIsExact
  BY <1>1, <1>2, FS_EmptySet DEF TotalIsExact, CountItems
<1> QED  BY <1>1, <1>3, IndexInvInit DEF EntriesInv, StampsInv, UniqueStamps, TraceIndexComplete

-----------------------------------------------------------------------------
(* What an accepted batch does to the streams, whether its label set has
   one or not: `old` are the entries of the stream before.                 *)
Receives(id, old, labels, entries) ==
    /\ DOMAIN streams' = DOMAIN streams \cup {id}
    /\ streams'[id] = [labels |-> labels, entries |-> AppendBatch(old, entries)]
    /\ \A other \in DOMAIN streams : other # id => streams'[other] = streams[other]
    /\ id \in DOMAIN streams => streams[id].labels = labels /\ old = streams[id].entries
    /\ id \notin DOMAIN streams => old = << >>
    /\ trace_index' = AddToTraceIndex(TracesIn(entries), id)
    /\ total_entries' = total_entries + Len(entries)

LEMMA IngestReceives ==
    ASSUME IndexInv, NEW labels \in LabelSets, NEW entries, IngestStream(labels, entries)
    PROVE  \E id \in Nat : \E old : Receives(id, old, labels, entries)
<1>1. CASE labels \in DOMAIN stream_ids
  <2>1. PICK id \in DOMAIN streams : labels = streams[id].labels
    BY <1>1 DEF IndexInv, StreamIdentity
  <2>2. stream_ids[labels] = id /\ id \in Nat
    BY <2>1 DEF IndexInv, StreamIdentity
  <2>3. /\ streams' = [streams EXCEPT ![id] =
                          [labels |-> labels, entries |-> AppendBatch(streams[id].entries, entries)]]
        /\ AppendToStream(id, entries)
    BY <1>1, <2>2 DEF IngestStream
  <2> DEFINE old == streams[id].entries
             new == [labels |-> labels, entries |-> AppendBatch(old, entries)]
  <2>4. streams' = [streams EXCEPT ![id] = new]
    BY <2>3
  <2> HIDE DEF new, old
  <2>5. /\ DOMAIN streams' = DOMAIN streams \cup {id}
        /\ streams'[id] = new
        /\ \A other \in DOMAIN streams : other # id => streams'[other] = streams[other]
    BY <2>4
  <2>6. Receives(id, old, labels, entries)
    BY <2>1, <2>3, <2>5 DEF Receives, AppendToStream, new, old
  <2> QED  BY <2>2, <2>6
<1>2. CASE labels \notin DOMAIN stream_ids
  <2> DEFINE id == next_stream_id
             new == [labels |-> labels, entries |-> AppendBatch(<< >>, entries)]
  <2>1. id \in Nat /\ id \notin DOMAIN streams
    BY DEF IndexInv, StreamIdentity
  <2>2. /\ streams' = [i \in DOMAIN streams \cup {id} |-> IF i = id THEN new ELSE streams[i]]
        /\ AppendToStream(id, entries)
    BY <1>2 DEF IngestStream
  <2> HIDE DEF id, new
  <2>3. /\ DOMAIN streams' = DOMAIN streams \cup {id}
        /\ streams'[id] = new
        /\ \A other \in DOMAIN streams : other # id => streams'[other] = streams[other]
    BY <2>1, <2>2
  <2>4. Receives(id, << >>, labels, entries)
    BY <2>1, <2>2, <2>3 DEF Receives, AppendToStream, new
  <2> QED  BY <2>1, <2>4
<1> QED  BY <1>1, <1>2

(* The stamped batch is a vector of entries, whose numbers were drawn. *)
LEMMA StampIsBatch ==
    ASSUME StampsInv, NEW batch \in Batches, NEW seqs \in DrawnFor(batch),
           NEW entries, entries = Stamp(batch, seqs)
    PROVE  /\ entries \in Seq(LogEntry)
           /\ Len(entries) = Len(batch) /\ Len(batch) \in Nat
           /\ Ascends(entries)
           /\ \A i \in 1 .. Len(entries) : entries[i].seq \in drawn /\ entries[i].seq \in Range(seqs)
<1> DEFINE n == Len(batch)
<1>1. PICK k \in 0 .. MaxBatch : batch \in [1 .. k -> [ts : Timestamps, trace : TraceIds \cup {NoTrace}]]
  BY DEF Batches
<1>2. n = k /\ k \in Nat
  BY <1>1, LogConstants
<1>3. \A i \in 1 .. n : batch[i].ts \in Timestamps /\ batch[i].trace \in TraceIds \cup {NoTrace}
  BY <1>1, <1>2
<1>4. /\ seqs \in [1 .. n -> drawn]
      /\ \A i, j \in 1 .. n : i < j => seqs[i] < seqs[j]
  BY DEF DrawnFor
<1>5. \A i \in 1 .. n : seqs[i] \in drawn /\ seqs[i] \in Nat /\ seqs[i] \in Range(seqs)
  BY <1>4 DEF StampsInv, Range
<1>6. entries = [i \in 1 .. n |-> [ts |-> batch[i].ts, seq |-> seqs[i], trace |-> batch[i].trace]]
  BY DEF Stamp
<1> HIDE DEF n
<1>7. \A i \in 1 .. n : entries[i] \in LogEntry /\ entries[i].seq = seqs[i]
  BY <1>3, <1>5, <1>6 DEF LogEntry
<1>8. entries \in Seq(LogEntry) /\ Len(entries) = n
  BY <1>2, <1>6, <1>7
<1>9. Ascends(entries)
  BY <1>4, <1>7, <1>8 DEF Ascends
<1> QED  BY <1>2, <1>5, <1>7, <1>8, <1>9 DEF n

(* The stream of an accepted batch before and after it. *)
LEMMA ReceivedStream ==
    ASSUME StampsInv, NEW id \in Nat, NEW old, NEW labels \in LabelSets, NEW batch \in Batches,
           NEW seqs \in DrawnFor(batch), NEW entries, entries = Stamp(batch, seqs),
           Receives(id, old, labels, entries),
           NEW new, new = streams'[id].entries
    PROVE  /\ old \in Seq(LogEntry) /\ StampsUsed(old)
           /\ streams'[id].labels = labels /\ streams'[id] \in LogStream
           /\ new \in Seq(LogEntry) /\ TimeSorted(new) /\ StampedOnce(new)
           /\ Merges(old, entries, new)
           /\ EqualTimesInOrder(old, new)
<1>1. /\ entries \in Seq(LogEntry) /\ Ascends(entries)
      /\ \A i \in 1 .. Len(entries) : entries[i].seq \in drawn
  BY StampIsBatch
<1>2. old \in Seq(LogEntry) /\ TimeSorted(old) /\ StampsUsed(old) /\ StampedOnce(old)
  <2>1. CASE id \in DOMAIN streams
    <3>1. old = streams[id].entries
      BY <2>1 DEF Receives
    <3>2. old \in Seq(LogEntry)
      BY <2>1, <3>1, StreamFields
    <3> QED  BY <2>1, <3>1, <3>2 DEF StampsInv, UniqueStamps, StampedOnce
  <2>2. CASE id \notin DOMAIN streams
    <3>1. old = << >>
      BY <2>2 DEF Receives
    <3>2. Len(old) = 0 /\ old \in Seq(LogEntry)
      BY <3>1
    <3> QED  BY <3>2 DEF TimeSorted, StampsUsed, StampedOnce
  <2> QED  BY <2>1, <2>2
<1>3. new = AppendBatch(old, entries) /\ streams'[id] = [labels |-> labels, entries |-> new]
  BY DEF Receives
<1>4. Apart(old, entries)
  BY <1>1, <1>2 DEF Apart, StampsUsed
<1>5. /\ new \in Seq(LogEntry) /\ TimeSorted(new) /\ StampedOnce(new)
      /\ Merges(old, entries, new) /\ EqualTimesInOrder(old, new)
  BY <1>1, <1>2, <1>3, <1>4, AppendKeepsOrder
<1>6. streams'[id].labels = labels /\ streams'[id] \in LogStream
  BY <1>3, <1>5 DEF LogStream
<1> QED  BY <1>2, <1>5, <1>6

LEMMA ReceivesKeepsStamps ==
    ASSUME StampsInv, NEW id \in Nat, NEW old, NEW labels \in LabelSets, NEW batch \in Batches,
           NEW seqs \in DrawnFor(batch), NEW entries, entries = Stamp(batch, seqs),
           Receives(id, old, labels, entries),
           drawn' = drawn \ Range(seqs), UNCHANGED ingest_seq
    PROVE  StampsInv'
<1> DEFINE new == streams'[id].entries
<1>1. /\ entries \in Seq(LogEntry)
      /\ \A i \in 1 .. Len(entries) : entries[i].seq \in drawn /\ entries[i].seq \in Range(seqs)
  BY StampIsBatch
<1>2. /\ streams'[id] \in LogStream /\ new \in Seq(LogEntry) /\ TimeSorted(new)
      /\ StampedOnce(new) /\ StampsUsed(old)
      /\ Merges(old, entries, new)
  BY ReceivedStream
<1>3. /\ DOMAIN streams' = DOMAIN streams \cup {id}
      /\ \A other \in DOMAIN streams : other # id => streams'[other] = streams[other]
      /\ id \in DOMAIN streams => old = streams[id].entries
      /\ id \notin DOMAIN streams => old = << >>
  BY DEF Receives
<1> HIDE DEF new
<1>4. ASSUME NEW r \in 1 .. Len(new)
      PROVE  new[r].seq < ingest_seq' /\ new[r].seq \notin drawn'
  BY <1>1, <1>2 DEF Merges, StampsUsed, StampsInv
<1>5. ASSUME NEW other \in DOMAIN streams'
      PROVE  /\ streams'[other] \in LogStream
             /\ TimeSorted(streams'[other].entries)
             /\ StampsUsed(streams[other].entries)'
  <2>1. CASE other = id
    BY <1>2, <1>4, <2>1 DEF new, StampsUsed
  <2>2. CASE other # id
    <3>1. other \in DOMAIN streams /\ streams'[other] = streams[other]
      BY <1>3, <2>2
    <3>2. /\ streams[other] \in LogStream
          /\ TimeSorted(streams[other].entries)
          /\ StampsUsed(streams[other].entries)
      BY <3>1 DEF StampsInv
    <3> QED  BY <3>1, <3>2 DEF StampsUsed
  <2> QED  BY <2>1, <2>2
<1>6. ASSUME NEW other \in DOMAIN streams, other # id,
             NEW r \in 1 .. Len(new), NEW j \in 1 .. Len(streams[other].entries)
      PROVE  new[r].seq # streams[other].entries[j].seq
  <2>1. streams[other].entries[j].seq \notin drawn
    BY DEF StampsInv, StampsUsed
  <2>2. CASE \E i \in 1 .. Len(entries) : new[r] = entries[i]
    BY <1>1, <2>1, <2>2
  <2>3. CASE \E i \in 1 .. Len(old) : new[r] = old[i]
    <3>1. PICK i \in 1 .. Len(old) : new[r] = old[i]
      BY <2>3
    <3>2. CASE id \in DOMAIN streams
      <4>1. old = streams[id].entries
        BY <1>3, <3>2
      <4>2. i \in 1 .. Len(streams[id].entries) /\ new[r] = streams[id].entries[i]
        BY <3>1, <4>1
      <4>3. streams[id].entries[i].seq # streams[other].entries[j].seq
        <5>1. UniqueStamps
          BY DEF StampsInv
        <5> QED  BY <1>6, <3>2, <4>2, <5>1 DEF UniqueStamps
      <4> QED  BY <4>2, <4>3
    <3>3. CASE id \notin DOMAIN streams
      <4>1. old = << >>
        BY <1>3, <3>3
      <4> QED  BY <3>1, <4>1
    <3> QED  BY <3>2, <3>3
  <2> QED  BY <1>2, <2>2, <2>3 DEF Merges
<1>7. UniqueStamps'
  <2> SUFFICES ASSUME NEW a \in DOMAIN streams', NEW b \in DOMAIN streams',
                      NEW i \in 1 .. Len(streams'[a].entries),
                      NEW j \in 1 .. Len(streams'[b].entries),
                      streams'[a].entries[i].seq = streams'[b].entries[j].seq
               PROVE  a = b /\ i = j
    BY DEF UniqueStamps
  <2>1. CASE a = id /\ b = id
    BY <1>2, <2>1 DEF StampedOnce, new
  <2>2. CASE a # id /\ b # id
    BY <1>3, <2>2 DEF StampsInv, UniqueStamps
  <2>3. CASE a = id /\ b # id
    BY <1>3, <1>6, <2>3 DEF new
  <2>4. CASE a # id /\ b = id
    BY <1>3, <1>6, <2>4 DEF new
  <2> QED  BY <2>1, <2>2, <2>3, <2>4
<1>8. DOMAIN trace_index' \subseteq TraceIds
  <2>1. DOMAIN trace_index' = DOMAIN trace_index \cup TracesIn(entries)
    BY DEF Receives, AddToTraceIndex
  <2>2. \A i \in DOMAIN entries : entries[i].trace \in TraceIds \cup {NoTrace}
    BY <1>1, EntryFields
  <2>3. TracesIn(entries) \subseteq TraceIds
    BY <2>2 DEF TracesIn
  <2> QED  BY <2>1, <2>3 DEF StampsInv
<1>9. ingest_seq' \in Nat /\ drawn' \subseteq Nat /\ \A n \in drawn' : n < ingest_seq'
  BY DEF StampsInv
<1> QED  BY <1>5, <1>7, <1>8, <1>9 DEF StampsInv

LEMMA ReceivesKeepsTotal ==
    ASSUME IndexInv, StampsInv, TotalIsExact, NEW id \in Nat, NEW old,
           NEW labels \in LabelSets, NEW batch \in Batches, NEW seqs \in DrawnFor(batch),
           NEW entries, entries = Stamp(batch, seqs), Receives(id, old, labels, entries)
    PROVE  TotalIsExact'
<1> DEFINE new == streams'[id].entries
           held == EntriesOf
           grown == EntriesOf'
<1>1. Len(batch) \in Nat /\ Len(entries) = Len(batch)
  BY StampIsBatch
<1>2. /\ old \in Seq(LogEntry) /\ new \in Seq(LogEntry)
      /\ Len(new) = Len(old) + Len(batch)
  <2>1. /\ old \in Seq(LogEntry) /\ new \in Seq(LogEntry)
        /\ Merges(old, entries, new)
    BY ReceivedStream
  <2> QED  BY <1>1, <2>1 DEF Merges
<1>3. Len(old) \in Nat /\ DOMAIN old = 1 .. Len(old) /\ DOMAIN new = 1 .. Len(old) + Len(batch)
  BY <1>2
<1>4. /\ DOMAIN grown = DOMAIN held \cup {id}
      /\ grown[id] = new
      /\ \A other \in DOMAIN held : other # id => grown[other] = held[other]
      /\ id \in DOMAIN held => held[id] = old
      /\ id \notin DOMAIN held => old = << >>
  BY DEF Receives, EntriesOf
<1>5. IsFiniteSet(Slots(held)) /\ CountItems(held) \in Nat
  BY EntriesFinite
<1>6. id \notin DOMAIN held => Len(old) = 0
  BY <1>4
<1> HIDE DEF new, held, grown
<1>7. CountItems(grown) = CountItems(held) + Len(batch)
  <2>1. /\ id \in DOMAIN held => DOMAIN held[id] = 1 .. Len(old)
        /\ DOMAIN grown[id] = 1 .. Len(old) + Len(batch)
        /\ \A other \in DOMAIN held : other # id => DOMAIN grown[other] = DOMAIN held[other]
    BY <1>3, <1>4
  <2> DEFINE m == Len(old)
             n == Len(batch)
  <2>2. /\ m \in Nat /\ n \in Nat /\ DOMAIN grown = DOMAIN held \cup {id}
        /\ id \in DOMAIN held => DOMAIN held[id] = 1 .. m
        /\ id \notin DOMAIN held => m = 0
        /\ DOMAIN grown[id] = 1 .. m + n
    BY <1>1, <1>3, <1>4, <1>6, <2>1
  <2> HIDE DEF m, n
  <2>3. Grows(held, grown, id, m, n)
    BY <2>1, <2>2 DEF Grows
  <2>4. CountItems(grown) = CountItems(held) + n
    BY <1>5, <2>2, <2>3, OneGrows
  <2> QED  BY <2>4 DEF n
<1>8. total_entries' = total_entries + Len(batch)
  BY <1>1 DEF Receives
<1>9. total_entries' = CountItems(grown)
  BY <1>7, <1>8 DEF TotalIsExact, held
<1> QED  BY <1>9 DEF TotalIsExact, grown

LEMMA ReceivesKeepsTraceIndex ==
    ASSUME StampsInv, TraceIndexComplete, NEW id \in Nat, NEW old,
           NEW labels \in LabelSets, NEW batch \in Batches, NEW seqs \in DrawnFor(batch),
           NEW entries, entries = Stamp(batch, seqs), Receives(id, old, labels, entries)
    PROVE  TraceIndexComplete'
<1> DEFINE new == streams'[id].entries
<1>1. new \in Seq(LogEntry) /\ Merges(old, entries, new)
  BY ReceivedStream
<1>2. /\ DOMAIN streams' = DOMAIN streams \cup {id}
      /\ \A other \in DOMAIN streams : other # id => streams'[other] = streams[other]
      /\ id \in DOMAIN streams => old = streams[id].entries
      /\ id \notin DOMAIN streams => old = << >>
      /\ trace_index' = AddToTraceIndex(TracesIn(entries), id)
  BY DEF Receives
<1>3. entries \in Seq(LogEntry) /\ Len(entries) = Len(batch)
  BY StampIsBatch
<1> HIDE DEF new
<1>4. \A t : EntryOrEmpty(trace_index', t) =
               EntryOrEmpty(trace_index, t) \cup (IF t \in TracesIn(entries) THEN {id} ELSE {})
  BY <1>2 DEF EntryOrEmpty, AddToTraceIndex
<1>5. ASSUME NEW other \in DOMAIN streams', NEW t \in TracesIn(streams'[other].entries)
      PROVE  other \in EntryOrEmpty(trace_index', t)
  <2>1. CASE other # id
    <3>1. other \in DOMAIN streams /\ streams'[other] = streams[other]
      BY <1>2, <2>1
    <3>2. other \in EntryOrEmpty(trace_index, t)
      BY <3>1 DEF TraceIndexComplete
    <3> QED  BY <1>4, <3>2
  <2>2. CASE other = id
    <3>1. PICK r \in 1 .. Len(new) : new[r].trace = t /\ t # NoTrace
      BY <1>1, <2>2 DEF TracesIn, new
    <3>2. CASE \E i \in 1 .. Len(entries) : new[r] = entries[i]
      <4>1. PICK i \in 1 .. Len(entries) : new[r] = entries[i]
        BY <3>2
      <4>2. i \in DOMAIN entries
        BY <1>3
      <4>3. t \in TracesIn(entries)
        BY <3>1, <4>1, <4>2 DEF TracesIn
      <4> QED  BY <1>4, <2>2, <4>3
    <3>3. CASE \E i \in 1 .. Len(old) : new[r] = old[i]
      <4>1. PICK i \in 1 .. Len(old) : new[r] = old[i]
        BY <3>3
      <4>2. CASE id \in DOMAIN streams
        <5>1. old = streams[id].entries /\ i \in DOMAIN old
          BY <1>2, <4>2, StreamFields
        <5>2. t \in TracesIn(streams[id].entries)
          BY <3>1, <4>1, <5>1 DEF TracesIn
        <5>3. id \in EntryOrEmpty(trace_index, t)
          BY <4>2, <5>2 DEF TraceIndexComplete
        <5> QED  BY <1>4, <2>2, <5>3
      <4>3. CASE id \notin DOMAIN streams
        <5>1. old = << >>
          BY <1>2, <4>3
        <5> QED  BY <4>1, <5>1
      <4> QED  BY <4>2, <4>3
    <3> QED  BY <1>1, <3>2, <3>3 DEF Merges
  <2> QED  BY <2>1, <2>2
<1> QED  BY <1>5 DEF TraceIndexComplete

LEMMA IngestKeepsEntriesInv == EntriesInv /\ Ingest => EntriesInv'
<1> SUFFICES ASSUME EntriesInv, Ingest PROVE EntriesInv'
  OBVIOUS
<1>1. IndexInv /\ StampsInv /\ TotalIsExact /\ TraceIndexComplete
  BY DEF EntriesInv
<1>2. IndexInv'
  BY <1>1, IngestKeepsIndexInv
<1>3. PICK labels \in LabelSets, batch \in Batches : \E seqs \in DrawnFor(batch) :
         /\ IngestStream(labels, Stamp(batch, seqs))
         /\ drawn' = drawn \ Range(seqs) /\ UNCHANGED ingest_seq
  BY DEF Ingest
<1>4. PICK seqs \in DrawnFor(batch) : /\ IngestStream(labels, Stamp(batch, seqs))
                                      /\ drawn' = drawn \ Range(seqs) /\ UNCHANGED ingest_seq
  BY <1>3
<1>5. PICK id, old : id \in Nat /\ Receives(id, old, labels, Stamp(batch, seqs))
  BY <1>1, <1>4, IngestReceives
<1>6. StampsInv'
  BY <1>1, <1>4, <1>5, ReceivesKeepsStamps
<1>7. TotalIsExact'
  BY <1>1, <1>5, ReceivesKeepsTotal
<1>8. TraceIndexComplete'
  BY <1>1, <1>5, ReceivesKeepsTraceIndex
<1> QED  BY <1>2, <1>6, <1>7, <1>8 DEF EntriesInv

-----------------------------------------------------------------------------
(* Streams go, or lose entries from their front. *)
StreamsShrink ==
    /\ DOMAIN streams' \subseteq DOMAIN streams
    /\ \A id \in DOMAIN streams' :
          /\ streams'[id] \in LogStream
          /\ streams'[id].labels = streams[id].labels
          /\ \E n : IsTail(streams[id].entries, n, streams'[id].entries)

LEMMA ShrinkKeepsStamps ==
    ASSUME StampsInv, StreamsShrink, UNCHANGED <<ingest_seq, drawn>>,
           DOMAIN trace_index' \subseteq TraceIds
    PROVE  StampsInv'
<1>1. ASSUME NEW id \in DOMAIN streams'
      PROVE  /\ streams'[id] \in LogStream
             /\ TimeSorted(streams'[id].entries)
             /\ StampsUsed(streams[id].entries)'
  <2> DEFINE s == streams[id].entries
             left == streams'[id].entries
  <2>1. id \in DOMAIN streams /\ streams'[id] \in LogStream
    BY DEF StreamsShrink
  <2>2. PICK n : IsTail(s, n, left)
    BY DEF StreamsShrink
  <2>3. s \in Seq(LogEntry) /\ TimeSorted(s) /\ StampsUsed(s)
    BY <2>1, StreamFields DEF StampsInv
  <2>4. left \in Seq(LogEntry)
    BY <2>1 DEF LogStream
  <2> HIDE DEF s, left
  <2>5. TimeSorted(left)
    BY <2>2, <2>3, <2>4, TailKeepsOrder
  <2>6. \A i \in 1 .. Len(left) : left[i].seq < ingest_seq' /\ left[i].seq \notin drawn'
    BY <2>2, <2>3 DEF IsTail, StampsUsed
  <2> QED  BY <2>1, <2>5, <2>6 DEF left, StampsUsed
<1>2. UniqueStamps'
  <2> SUFFICES ASSUME NEW a \in DOMAIN streams', NEW b \in DOMAIN streams',
                      NEW i \in 1 .. Len(streams'[a].entries),
                      NEW j \in 1 .. Len(streams'[b].entries),
                      streams'[a].entries[i].seq = streams'[b].entries[j].seq
               PROVE  a = b /\ i = j
    BY DEF UniqueStamps
  <2>1. a \in DOMAIN streams /\ b \in DOMAIN streams
    BY DEF StreamsShrink
  <2>2. PICK n : IsTail(streams[a].entries, n, streams'[a].entries)
    BY DEF StreamsShrink
  <2>3. PICK m : IsTail(streams[b].entries, m, streams'[b].entries)
    BY DEF StreamsShrink
  <2>4. i + n \in 1 .. Len(streams[a].entries) /\ streams'[a].entries[i] = streams[a].entries[i + n]
    BY <2>2 DEF IsTail
  <2>5. j + m \in 1 .. Len(streams[b].entries) /\ streams'[b].entries[j] = streams[b].entries[j + m]
    BY <2>3 DEF IsTail
  <2>6. UniqueStamps
    BY DEF StampsInv
  <2>7. streams[a].entries[i + n].seq = streams[b].entries[j + m].seq
    BY <2>4, <2>5
  <2>8. a = b /\ i + n = j + m
    BY <2>1, <2>4, <2>5, <2>6, <2>7 DEF UniqueStamps
  <2>9. /\ Len(streams[a].entries) \in Nat /\ n \in Nat /\ m \in Nat
        /\ Len(streams'[a].entries) = Len(streams[a].entries) - n
        /\ Len(streams'[b].entries) = Len(streams[a].entries) - m
    BY <2>1, <2>2, <2>3, <2>8, StreamFields DEF IsTail
  <2>10. n = m
    BY <2>8, <2>9
  <2>11. i \in Int /\ j \in Int
    BY <2>9
  <2> QED  BY <2>8, <2>9, <2>10, <2>11
<1>3. ingest_seq' \in Nat /\ drawn' \subseteq Nat /\ \A n \in drawn' : n < ingest_seq'
  BY DEF StampsInv
<1> QED  BY <1>1, <1>2, <1>3 DEF StampsInv

-----------------------------------------------------------------------------
(* What evict_before leaves: of each stream the entries not before the
   cutoff, which are a tail, and no stream without an entry.               *)
Expires(cutoff, fresh) ==
    /\ DOMAIN fresh \subseteq DOMAIN streams
    /\ \A id \in DOMAIN fresh :
          /\ fresh[id] \in Seq(LogEntry)
          /\ IsTail(streams[id].entries, CountBelow(streams[id].entries, cutoff), fresh[id])
    /\ \A id \in DOMAIN streams \ DOMAIN fresh :
          CountBelow(streams[id].entries, cutoff) = Len(streams[id].entries)

LEMMA EvictBeforeExpires ==
    ASSUME StampsInv, NEW cutoff \in Cutoffs, NEW fresh, fresh = EvictBefore(cutoff)
    PROVE  Expires(cutoff, fresh)
<1> DEFINE s(id) == streams[id].entries
           cut(id) == CountBelow(s(id), cutoff)
           live(id) == DrainFront(s(id), cut(id))
<1>1. cutoff \in Int
  BY LogConstants
<1>2. ASSUME NEW id \in DOMAIN streams
      PROVE  /\ s(id) \in Seq(LogEntry) /\ cut(id) \in 0 .. Len(s(id))
             /\ live(id) \in Seq(LogEntry) /\ IsTail(s(id), cut(id), live(id))
  <2>1. s(id) \in Seq(LogEntry)
    BY StreamFields
  <2>2. TimeSorted(s(id))
    BY <2>1 DEF StampsInv
  <2>3. cut(id) \in 0 .. Len(s(id))
    <3> HIDE DEF s
    <3> QED  BY <1>1, <2>1, <2>2, EntriesAreTimed, CountBelowIsPrefix
  <2> HIDE DEF s, cut
  <2> QED  BY <2>1, <2>3, DrainFrontIsTail
<1>3. fresh = [id \in {i \in DOMAIN streams : live(i) # << >>} |-> live(id)]
  BY DEF EvictBefore, Unexpired
<1> HIDE DEF live
<1>4. /\ DOMAIN fresh \subseteq DOMAIN streams
      /\ \A id \in DOMAIN fresh : fresh[id] = live(id)
      /\ \A id \in DOMAIN streams \ DOMAIN fresh : live(id) = << >>
  BY <1>3
<1>5. \A id \in DOMAIN streams : live(id) = << >> => cut(id) = Len(s(id))
  <2> SUFFICES ASSUME NEW id \in DOMAIN streams, live(id) = << >> PROVE cut(id) = Len(s(id))
    OBVIOUS
  <2>1. Len(live(id)) = 0
    OBVIOUS
  <2>2. s(id) \in Seq(LogEntry) /\ cut(id) \in 0 .. Len(s(id)) /\ Len(live(id)) = Len(s(id)) - cut(id)
    BY <1>2 DEF IsTail
  <2> HIDE DEF s, cut
  <2>3. Len(s(id)) \in Nat
    BY <2>2
  <2> QED  BY <2>1, <2>2, <2>3
<1> QED  BY <1>2, <1>4, <1>5 DEF Expires

LEMMA FreshCount ==
    ASSUME IndexInv, StampsInv, NEW cutoff \in Cutoffs, NEW fresh, Expires(cutoff, fresh)
    PROVE  /\ IsFiniteSet(DOMAIN fresh)
           /\ \A id \in DOMAIN fresh : /\ Len(fresh[id]) \in Nat
                                       /\ DOMAIN fresh[id] = 1 .. Len(fresh[id])
           /\ IsFiniteSet(Slots(fresh)) /\ CountItems(fresh) \in Nat
           /\ TotalIsExact => TotalAfterExpiry(fresh) = CountItems(fresh)
<1>1. /\ DOMAIN EntriesOf = DOMAIN streams
      /\ \A id \in DOMAIN streams : EntriesOf[id] = streams[id].entries
      /\ IsFiniteSet(Slots(EntriesOf)) /\ CountItems(EntriesOf) \in Nat
  BY EntriesFinite
<1>2. \A id \in DOMAIN fresh : Len(fresh[id]) \in Nat /\ DOMAIN fresh[id] = 1 .. Len(fresh[id])
  BY DEF Expires
<1>3. \A id \in DOMAIN fresh : DOMAIN fresh[id] \subseteq DOMAIN EntriesOf[id]
  <2> SUFFICES ASSUME NEW id \in DOMAIN fresh PROVE DOMAIN fresh[id] \subseteq DOMAIN EntriesOf[id]
    OBVIOUS
  <2>1. id \in DOMAIN streams
    BY DEF Expires
  <2>2. /\ DOMAIN EntriesOf[id] = 1 .. Len(streams[id].entries)
        /\ Len(streams[id].entries) \in Nat
    BY <1>1, <2>1, StreamFields
  <2>3. Len(fresh[id]) <= Len(streams[id].entries)
    BY <2>2 DEF Expires, IsTail
  <2> QED  BY <1>2, <2>2, <2>3
<1>4. IsFiniteSet(DOMAIN fresh)
  BY StreamsFinite, FS_Subset DEF Expires
<1>5. /\ IsFiniteSet(Slots(fresh)) /\ CountItems(fresh) \in Nat
      /\ CountItems(fresh) <= CountItems(EntriesOf)
  <2>1. DOMAIN fresh \subseteq DOMAIN EntriesOf
    BY <1>1 DEF Expires
  <2> QED  BY <1>1, <1>3, <2>1, FewerSlots
<1>6. TotalIsExact => TotalAfterExpiry(fresh) = CountItems(fresh)
  BY <1>1, <1>5 DEF TotalIsExact, TotalAfterExpiry, SaturatingSub
<1> QED  BY <1>2, <1>4, <1>5, <1>6

-----------------------------------------------------------------------------
(* What evict_to_max leaves of the streams of `fresh`: it takes the first k
   entries of the line in which `pos` drains them, and nothing else.       *)
Drains(fresh, pos, k, kept) ==
    /\ DOMAIN kept \subseteq DOMAIN fresh
    /\ \A id \in DOMAIN kept :
          kept[id] \in Seq(LogEntry) /\ \E n : IsTail(fresh[id], n, kept[id])
    /\ \A id \in DOMAIN fresh : \A i \in 1 .. Len(fresh[id]) :
          Ahead(fresh, pos, id) + i > k
             <=> id \in DOMAIN kept /\ i > Len(fresh[id]) - Len(kept[id])

VectorsOfEntries(fresh) ==
    /\ IsFiniteSet(DOMAIN fresh) /\ IsFiniteSet(Slots(fresh))
    /\ \A id \in DOMAIN fresh : fresh[id] \in Seq(LogEntry)

LEMMA AheadIsCount ==
    ASSUME NEW fresh, VectorsOfEntries(fresh), NEW pos, NEW id
    PROVE  Ahead(fresh, pos, id) \in Nat
<1> DEFINE first == [i \in {j \in DOMAIN fresh : pos[j] < pos[id]} |-> fresh[i]]
<1>1. DOMAIN first \subseteq DOMAIN fresh /\ \A a \in DOMAIN first : DOMAIN first[a] \subseteq DOMAIN fresh[a]
  OBVIOUS
<1> HIDE DEF first
<1>2. CountItems(first) \in Nat
  BY <1>1, FewerSlots DEF VectorsOfEntries
<1> QED  BY <1>2 DEF Ahead, first

LEMMA EvictToMaxDrains ==
    ASSUME NEW fresh, VectorsOfEntries(fresh), NEW pos, NEW total \in Nat,
           NEW kept, kept = EvictToMax(fresh, total, pos)
    PROVE  ToRemove(total) \in Nat /\ Drains(fresh, pos, ToRemove(total), kept)
<1> DEFINE k == ToRemove(total)
           ahead(id) == Ahead(fresh, pos, id)
           drain(id) == Lesser(SaturatingSub(k, ahead(id)), Len(fresh[id]))
<1>1. k \in Nat
  BY LogConstants DEF ToRemove, SaturatingSub
<1>2. \A id \in DOMAIN fresh : ahead(id) \in Nat
  BY AheadIsCount
<1>3. \A id \in DOMAIN fresh : fresh[id] \in Seq(LogEntry) /\ Len(fresh[id]) \in Nat
  BY DEF VectorsOfEntries
<1>4. kept = [id \in {i \in DOMAIN fresh : drain(i) < Len(fresh[i])} |->
                 DrainFront(fresh[id], drain(id))]
  BY DEF EvictToMax, Ahead
<1> HIDE DEF ahead
<1>5. ASSUME NEW id \in DOMAIN fresh
      PROVE  /\ drain(id) \in 0 .. Len(fresh[id])
             /\ \A i \in 1 .. Len(fresh[id]) : ahead(id) + i > k <=> i > drain(id)
  <2>1. ahead(id) \in Nat /\ Len(fresh[id]) \in Nat
    BY <1>2, <1>3
  <2> HIDE DEF k
  <2> QED  BY <1>1, <2>1 DEF Lesser, SaturatingSub
<1> HIDE DEF k, drain
<1>6. /\ DOMAIN kept \subseteq DOMAIN fresh
      /\ \A id \in DOMAIN kept : kept[id] = DrainFront(fresh[id], drain(id))
      /\ \A id \in DOMAIN fresh : id \in DOMAIN kept <=> drain(id) < Len(fresh[id])
  BY <1>4
<1>7. ASSUME NEW id \in DOMAIN kept
      PROVE  /\ kept[id] \in Seq(LogEntry) /\ IsTail(fresh[id], drain(id), kept[id])
             /\ Len(fresh[id]) - Len(kept[id]) = drain(id)
  <2>1. id \in DOMAIN fresh /\ fresh[id] \in Seq(LogEntry) /\ drain(id) \in 0 .. Len(fresh[id])
    BY <1>3, <1>5, <1>6
  <2>2. kept[id] \in Seq(LogEntry) /\ IsTail(fresh[id], drain(id), kept[id])
    BY <1>6, <2>1, DrainFrontIsTail
  <2>3. Len(fresh[id]) \in Nat /\ drain(id) \in Nat /\ Len(kept[id]) = Len(fresh[id]) - drain(id)
    BY <1>3, <2>1, <2>2 DEF IsTail
  <2> QED  BY <2>2, <2>3
<1>8. ASSUME NEW id \in DOMAIN fresh, NEW i \in 1 .. Len(fresh[id])
      PROVE  ahead(id) + i > k <=> id \in DOMAIN kept /\ i > Len(fresh[id]) - Len(kept[id])
  <2>1. ahead(id) + i > k <=> i > drain(id)
    BY <1>5
  <2>2. i \in Int /\ i <= Len(fresh[id]) /\ drain(id) \in Int /\ Len(fresh[id]) \in Int
    BY <1>3, <1>5
  <2>3. CASE id \in DOMAIN kept
    BY <1>7, <2>1, <2>3
  <2>4. CASE id \notin DOMAIN kept
    BY <1>6, <2>1, <2>2, <2>4
  <2> QED  BY <2>3, <2>4
<1> QED  BY <1>1, <1>6, <1>7, <1>8 DEF Drains, k, ahead

(* One eviction tick, with what each of its two halves leaves. *)
Evicts(cutoff, fresh, pos, kept) ==
    /\ Expires(cutoff, fresh) /\ VectorsOfEntries(fresh)
    /\ \A id \in DOMAIN fresh : pos[id] \in Int
    /\ \A a, b \in DOMAIN fresh : pos[a] = pos[b] => a = b
    /\ Drains(fresh, pos, ToRemove(CountItems(fresh)), kept)
    /\ CountItems(fresh) \in Nat /\ ToRemove(CountItems(fresh)) \in Nat
    /\ DOMAIN streams' = DOMAIN kept
    /\ \A id \in DOMAIN kept :
          streams'[id] = [labels |-> streams[id].labels, entries |-> kept[id]]
    /\ total_entries' = CountItems(fresh) - (CountItems(fresh) - CountItems(kept))
    /\ trace_index' = RebuildTraceIndex(kept)
    /\ UNCHANGED <<ingest_seq, drawn>>

LEMMA RunEvictionEvicts ==
    ASSUME IndexInv, StampsInv, TotalIsExact, NEW cutoff \in Cutoffs, RunEviction(cutoff)
    PROVE  \E fresh, pos, kept : Evicts(cutoff, fresh, pos, kept)
<1> DEFINE fresh == EvictBefore(cutoff)
           total == TotalAfterExpiry(fresh)
<1>1. PICK pos \in DrainOrders(fresh) :
         LET kept == EvictToMax(fresh, total, pos)
         IN  /\ streams' = [id \in DOMAIN kept |->
                               [labels |-> streams[id].labels, entries |-> kept[id]]]
             /\ total_entries' = total - (CountItems(fresh) - CountItems(kept))
             /\ trace_index' = RebuildTraceIndex(kept)
             /\ UNCHANGED <<ingest_seq, drawn>>
  BY DEF RunEviction
<1> DEFINE kept == EvictToMax(fresh, total, pos)
<1>2. Expires(cutoff, fresh)
  <2> HIDE DEF fresh
  <2> QED  BY EvictBeforeExpires DEF fresh
<1> HIDE DEF fresh, total
<1>3. /\ IsFiniteSet(DOMAIN fresh) /\ IsFiniteSet(Slots(fresh))
      /\ CountItems(fresh) \in Nat /\ total = CountItems(fresh)
  BY <1>2, FreshCount DEF total
<1>4. VectorsOfEntries(fresh)
  BY <1>2, <1>3 DEF VectorsOfEntries, Expires
<1>5. Cardinality(DOMAIN fresh) \in Nat
  BY <1>3, FS_CardinalityType
<1>6. /\ \A id \in DOMAIN fresh : pos[id] \in Int
      /\ \A a, b \in DOMAIN fresh : pos[a] = pos[b] => a = b
  <2>1. pos \in Bijection(DOMAIN fresh, 1 .. Cardinality(DOMAIN fresh))
    BY <1>1 DEF DrainOrders
  <2>2. /\ \A id \in DOMAIN fresh : pos[id] \in 1 .. Cardinality(DOMAIN fresh)
        /\ \A a, b \in DOMAIN fresh : pos[a] = pos[b] => a = b
    BY <2>1 DEF Bijection, Injection, IsInjective, Surjection
  <2> QED  BY <1>5, <2>2
<1>7. ToRemove(total) \in Nat /\ Drains(fresh, pos, ToRemove(total), kept)
  BY <1>3, <1>4, EvictToMaxDrains
<1>8. /\ streams' = [id \in DOMAIN kept |-> [labels |-> streams[id].labels, entries |-> kept[id]]]
      /\ total_entries' = total - (CountItems(fresh) - CountItems(kept))
      /\ trace_index' = RebuildTraceIndex(kept)
      /\ UNCHANGED <<ingest_seq, drawn>>
  BY <1>1
<1> HIDE DEF kept
<1>9. Evicts(cutoff, fresh, pos, kept)
  BY <1>2, <1>3, <1>4, <1>6, <1>7, <1>8 DEF Evicts
<1> QED  BY <1>9

LEMMA EvictsShrinks ==
    ASSUME StampsInv, NEW cutoff, NEW fresh, NEW pos, NEW kept, Evicts(cutoff, fresh, pos, kept)
    PROVE  /\ StreamsShrink /\ DOMAIN trace_index' \subseteq TraceIds
           /\ \A id \in DOMAIN kept : /\ id \in DOMAIN fresh /\ id \in DOMAIN streams
                                      /\ streams'[id].entries = kept[id]
                                      /\ streams'[id].labels = streams[id].labels
                                      /\ kept[id] \in Seq(LogEntry)
           /\ TraceIndexComplete'
<1>1. DOMAIN kept \subseteq DOMAIN fresh /\ DOMAIN fresh \subseteq DOMAIN streams
  BY DEF Evicts, Drains, Expires
<1>2. ASSUME NEW id \in DOMAIN kept
      PROVE  /\ streams'[id].labels = streams[id].labels /\ streams'[id].entries = kept[id]
             /\ kept[id] \in Seq(LogEntry) /\ streams'[id] \in LogStream
             /\ \E n : IsTail(streams[id].entries, n, streams'[id].entries)
  <2>1. streams'[id] = [labels |-> streams[id].labels, entries |-> kept[id]]
    BY DEF Evicts
  <2>2. kept[id] \in Seq(LogEntry) /\ \E n : IsTail(fresh[id], n, kept[id])
    BY DEF Evicts, Drains
  <2>3. PICK n : IsTail(fresh[id], n, kept[id])
    BY <2>2
  <2>4. PICK m : IsTail(streams[id].entries, m, fresh[id])
    BY <1>1 DEF Evicts, Expires
  <2>5. streams[id].labels \in LabelSets /\ Len(streams[id].entries) \in Nat
    BY <1>1, StreamFields DEF StampsInv, LogStream
  <2>6. IsTail(streams[id].entries, m + n, kept[id])
    BY <2>3, <2>4, <2>5, TailOfTail
  <2> QED  BY <2>1, <2>2, <2>5, <2>6 DEF LogStream
<1>3. StreamsShrink
  BY <1>1, <1>2 DEF StreamsShrink, Evicts
<1>4. trace_index' = RebuildTraceIndex(kept) /\ DOMAIN streams' = DOMAIN kept
  BY DEF Evicts
<1>5. DOMAIN trace_index' \subseteq TraceIds
  <2> SUFFICES ASSUME NEW id \in DOMAIN kept, NEW t \in TracesIn(kept[id]) PROVE t \in TraceIds
    BY <1>4 DEF RebuildTraceIndex
  <2>1. PICK i \in DOMAIN kept[id] : kept[id][i].trace = t /\ t # NoTrace
    BY DEF TracesIn
  <2>2. kept[id][i] \in LogEntry
    BY <1>2
  <2> QED  BY <2>1, <2>2, EntryFields
<1>6. TraceIndexComplete'
  <2> SUFFICES ASSUME NEW id \in DOMAIN kept, NEW t \in TracesIn(kept[id])
               PROVE  id \in EntryOrEmpty(trace_index', t)
    BY <1>2, <1>4 DEF TraceIndexComplete
  <2> QED  BY <1>4 DEF RebuildTraceIndex, EntryOrEmpty
<1> QED  BY <1>1, <1>2, <1>3, <1>5, <1>6

LEMMA EvictsKeepsTotal ==
    ASSUME StampsInv, NEW cutoff, NEW fresh, NEW pos, NEW kept, Evicts(cutoff, fresh, pos, kept)
    PROVE  TotalIsExact'
<1>1. /\ DOMAIN kept \subseteq DOMAIN fresh /\ IsFiniteSet(Slots(fresh)) /\ CountItems(fresh) \in Nat
      /\ \A id \in DOMAIN fresh : fresh[id] \in Seq(LogEntry)
      /\ DOMAIN streams' = DOMAIN kept
      /\ total_entries' = CountItems(fresh) - (CountItems(fresh) - CountItems(kept))
  BY DEF Evicts, Drains, VectorsOfEntries
<1>2. \A id \in DOMAIN kept : DOMAIN kept[id] \subseteq DOMAIN fresh[id]
  <2> SUFFICES ASSUME NEW id \in DOMAIN kept PROVE DOMAIN kept[id] \subseteq DOMAIN fresh[id]
    OBVIOUS
  <2>1. PICK n : IsTail(fresh[id], n, kept[id])
    BY DEF Evicts, Drains
  <2>2. fresh[id] \in Seq(LogEntry) /\ kept[id] \in Seq(LogEntry)
    BY <1>1 DEF Evicts, Drains
  <2>3. Len(kept[id]) <= Len(fresh[id])
    BY <2>1, <2>2 DEF IsTail
  <2> QED  BY <2>2, <2>3
<1>3. CountItems(kept) \in Nat
  BY <1>1, <1>2, FewerSlots
<1>4. total_entries' = CountItems(kept)
  BY <1>1, <1>3
<1>5. /\ DOMAIN EntriesOf' = DOMAIN kept
      /\ \A id \in DOMAIN kept : EntriesOf'[id] = kept[id]
  BY <1>1, EvictsShrinks DEF EntriesOf
<1>6. CountItems(EntriesOf') = CountItems(kept)
  BY <1>5, SameSlots
<1> QED  BY <1>4, <1>6 DEF TotalIsExact

LEMMA RunEvictionKeepsEntriesInv ==
    ASSUME EntriesInv, NEW cutoff \in Cutoffs, RunEviction(cutoff)
    PROVE  EntriesInv'
<1>1. IndexInv /\ StampsInv /\ TotalIsExact
  BY DEF EntriesInv
<1>2. IndexInv'
  BY <1>1, RunEvictionKeepsIndexInv
<1>3. PICK fresh, pos, kept : Evicts(cutoff, fresh, pos, kept)
  BY <1>1, RunEvictionEvicts
<1>4. StreamsShrink /\ DOMAIN trace_index' \subseteq TraceIds /\ TraceIndexComplete'
  BY <1>1, <1>3, EvictsShrinks
<1>5. UNCHANGED <<ingest_seq, drawn>>
  BY <1>3 DEF Evicts
<1>6. StampsInv'
  BY <1>1, <1>4, <1>5, ShrinkKeepsStamps
<1>7. TotalIsExact'
  BY <1>1, <1>3, EvictsKeepsTotal
<1> QED  BY <1>2, <1>4, <1>6, <1>7 DEF EntriesInv

-----------------------------------------------------------------------------
LEMMA ClearServiceShrinks ==
    ASSUME StampsInv, NEW service \in Services, ClearService(service)
    PROVE  StreamsShrink
<1> DEFINE gone == label_index[<<"service", service>>] \cap DOMAIN streams
<1>1. streams' = [id \in DOMAIN streams \ gone |-> streams[id]]
  BY DEF ClearService
<1> HIDE DEF gone
<1>2. /\ DOMAIN streams' = DOMAIN streams \ gone
      /\ \A id \in DOMAIN streams' : streams'[id] = streams[id]
  BY <1>1
<1> SUFFICES ASSUME NEW id \in DOMAIN streams'
             PROVE  /\ streams'[id] \in LogStream
                    /\ \E n : IsTail(streams[id].entries, n, streams'[id].entries)
  BY <1>2 DEF StreamsShrink
<1>3. streams[id] \in LogStream /\ Len(streams[id].entries) \in Nat
  BY <1>2, StreamFields DEF StampsInv
<1> DEFINE s == streams[id].entries
<1>4. Len(s) \in Nat
  BY <1>3
<1> HIDE DEF s
<1>5. IsTail(s, 0, s)
  BY <1>4 DEF IsTail
<1> QED  BY <1>2, <1>3, <1>5 DEF s

LEMMA ClearServiceKeepsEntriesInv ==
    ASSUME EntriesInv, NEW service \in Services, ClearService(service)
    PROVE  EntriesInv'
<1> DEFINE gone == label_index[<<"service", service>>] \cap DOMAIN streams
           taken == [id \in gone |-> streams[id].entries]
<1>1. IndexInv /\ StampsInv /\ TotalIsExact /\ TraceIndexComplete
  BY DEF EntriesInv
<1>2. /\ streams' = [id \in DOMAIN streams \ gone |-> streams[id]]
      /\ total_entries' = SaturatingSub(total_entries, CountItems(taken))
      /\ UNCHANGED <<trace_index, ingest_seq, drawn>>
  BY DEF ClearService
<1>3. IndexInv'
  BY <1>1, ClearServiceKeepsIndexInv
<1>4. /\ gone \subseteq DOMAIN streams
      /\ DOMAIN taken = gone /\ \A id \in gone : taken[id] = streams[id].entries
  OBVIOUS
<1> HIDE DEF gone, taken
<1>5. /\ DOMAIN streams' = DOMAIN streams \ gone
      /\ \A id \in DOMAIN streams' : streams'[id] = streams[id]
  BY <1>2
<1>6. StreamsShrink
  BY <1>1, ClearServiceShrinks
<1>7. StampsInv'
  BY <1>1, <1>2, <1>6, ShrinkKeepsStamps DEF StampsInv
<1>8. TraceIndexComplete'
  BY <1>1, <1>2, <1>5 DEF TraceIndexComplete
<1>9. TotalIsExact'
  <2> DEFINE before == EntriesOf
             after == EntriesOf'
  <2>1. /\ DOMAIN before = DOMAIN streams
        /\ \A id \in DOMAIN streams : before[id] = streams[id].entries
        /\ IsFiniteSet(Slots(before)) /\ CountItems(before) \in Nat
    BY <1>1, EntriesFinite
  <2>2. /\ DOMAIN after = DOMAIN streams \ gone
        /\ \A id \in DOMAIN after : after[id] = streams[id].entries
    BY <1>5 DEF EntriesOf
  <2>3. total_entries = CountItems(before)
    BY <1>1 DEF TotalIsExact
  <2> HIDE DEF before, after
  <2>4. gone \in SUBSET DOMAIN before /\ DOMAIN after = DOMAIN before \ gone
    BY <1>4, <2>1, <2>2
  <2>5. /\ \A id \in gone : DOMAIN taken[id] = DOMAIN before[id]
        /\ \A id \in DOMAIN after : DOMAIN after[id] = DOMAIN before[id]
    BY <1>4, <2>1, <2>2
  <2>6. CountItems(before) = CountItems(taken) + CountItems(after)
    <3>1. Splits(before, taken, after)
      BY <1>4, <2>4, <2>5 DEF Splits
    <3> QED  BY <2>1, <3>1, SlotsSplit
  <2>7. CountItems(taken) \in Nat
    <3>1. DOMAIN taken \subseteq DOMAIN before /\ \A id \in DOMAIN taken : DOMAIN taken[id] \subseteq DOMAIN before[id]
      BY <1>4, <2>4, <2>5
    <3> QED  BY <2>1, <3>1, FewerSlots
  <2>8. CountItems(after) \in Nat
    <3>1. DOMAIN after \subseteq DOMAIN before /\ \A id \in DOMAIN after : DOMAIN after[id] \subseteq DOMAIN before[id]
      BY <2>4, <2>5
    <3> QED  BY <2>1, <3>1, FewerSlots
  <2>9. total_entries' = CountItems(after)
    BY <1>2, <2>3, <2>6, <2>7, <2>8 DEF SaturatingSub
  <2> QED  BY <2>9 DEF TotalIsExact, after
<1> QED  BY <1>3, <1>7, <1>8, <1>9 DEF EntriesInv

LEMMA ClearKeepsEntriesInv == EntriesInv /\ Clear => EntriesInv'
<1> SUFFICES ASSUME EntriesInv, Clear PROVE EntriesInv'
  OBVIOUS
<1>1. /\ DOMAIN streams' = {} /\ DOMAIN trace_index' = {} /\ total_entries' = 0
      /\ ingest_seq' = ingest_seq /\ drawn' = drawn
  BY DEF Clear, NoEntries
<1>2. Slots(EntriesOf') = {}
  BY <1>1 DEF Slots, EntriesOf
<1>3. TotalIsExact'
  BY <1>1, <1>2, FS_EmptySet DEF TotalIsExact, CountItems
<1>4. ingest_seq \in Nat /\ drawn \subseteq Nat /\ \A n \in drawn : n < ingest_seq
  BY DEF EntriesInv, StampsInv
<1> QED  BY <1>1, <1>3, <1>4, ClearKeepsIndexInv
         DEF EntriesInv, StampsInv, UniqueStamps, TraceIndexComplete

(* The steps that leave the entries and the trace index as they are: a number
   drawn, a restart, and no step at all.                                   *)
NumbersStay ==
    /\ \A id \in DOMAIN streams : StampsUsed(streams[id].entries)'
    /\ ingest_seq' \in Nat /\ drawn' \subseteq Nat /\ \A n \in drawn' : n < ingest_seq'

LEMMA SameEntriesKeepEntriesInv ==
    ASSUME EntriesInv, IndexInv', NumbersStay, UNCHANGED <<streams, trace_index, total_entries>>
    PROVE  EntriesInv'
<1>1. EntriesOf' = EntriesOf
  BY DEF EntriesOf
<1>2. TotalIsExact'
  BY <1>1 DEF EntriesInv, TotalIsExact
<1>3. TraceIndexComplete'
  BY DEF EntriesInv, TraceIndexComplete
<1>4. StampsInv'
  BY DEF EntriesInv, StampsInv, UniqueStamps, NumbersStay, StampsUsed
<1> QED  BY <1>2, <1>3, <1>4 DEF EntriesInv

(* The number drawn is above all in the store. *)
LEMMA DrawKeepsNumbers == EntriesInv /\ Draw => NumbersStay
<1> SUFFICES ASSUME EntriesInv, Draw PROVE NumbersStay
  OBVIOUS
<1>1. /\ ingest_seq' = ingest_seq + 1 /\ drawn' = drawn \cup {ingest_seq}
      /\ streams' = streams /\ ingest_seq \in Nat
      /\ drawn \subseteq Nat /\ \A n \in drawn : n < ingest_seq
  BY DEF Draw, EntriesInv, StampsInv
<1>2. ASSUME NEW id \in DOMAIN streams, NEW i \in 1 .. Len(streams[id].entries)
      PROVE  streams[id].entries[i].seq < ingest_seq' /\ streams[id].entries[i].seq \notin drawn'
  <2>1. streams[id].entries \in Seq(LogEntry) /\ StampsUsed(streams[id].entries)
    BY StreamFields DEF EntriesInv, StampsInv
  <2>2. /\ streams[id].entries[i].seq \in Nat
        /\ streams[id].entries[i].seq < ingest_seq /\ streams[id].entries[i].seq \notin drawn
    BY <2>1, EntryFields DEF StampsUsed
  <2> QED  BY <1>1, <2>2
<1>3. \A n \in drawn' : n < ingest_seq'
  BY <1>1
<1> QED  BY <1>1, <1>2, <1>3 DEF NumbersStay, StampsUsed

(* The counter is seeded above all numbers in the store. *)
LEMMA RestoreKeepsNumbers == EntriesInv /\ RestoreFromSnapshot => NumbersStay
<1> SUFFICES ASSUME EntriesInv, RestoreFromSnapshot PROVE NumbersStay
  OBVIOUS
<1>1. ingest_seq' \in Seeds /\ drawn' = {} /\ streams' = streams /\ ingest_seq \in Nat
  BY DEF RestoreFromSnapshot, EntriesInv, StampsInv
<1>2. ingest_seq' \in Nat
  BY <1>1 DEF Seeds
<1>3. \A id \in DOMAIN streams : \A i \in 1 .. Len(streams[id].entries) :
         streams[id].entries[i].seq < ingest_seq'
  BY <1>1, StreamFields DEF Seeds, EntriesInv
<1> QED  BY <1>1, <1>2, <1>3 DEF NumbersStay, StampsUsed

(* The entries of a stream are in order of time, no two entries of the store
   have the same number, none has a number that a push has drawn and not yet
   stored, and they are counted and found by their trace, in every reachable
   state, whatever order pushes draw and store in.                         *)
THEOREM EntriesInvariant == Spec => []EntriesInv
<1>1. Init => EntriesInv
  BY EntriesInvInit
<1>2. EntriesInv /\ [Next]_vars => EntriesInv'
  <2> SUFFICES ASSUME EntriesInv, [Next]_vars PROVE EntriesInv'
    OBVIOUS
  <2>0. CASE Draw
    <3>1. IndexInv'
      BY <2>0, DrawKeepsIndexInv DEF EntriesInv
    <3> QED  BY <2>0, <3>1, DrawKeepsNumbers, SameEntriesKeepEntriesInv DEF Draw
  <2>1. CASE Ingest
    BY <2>1, IngestKeepsEntriesInv
  <2>2. CASE \E cutoff \in Cutoffs : RunEviction(cutoff)
    BY <2>2, RunEvictionKeepsEntriesInv
  <2>3. CASE \E service \in Services : ClearService(service)
    BY <2>3, ClearServiceKeepsEntriesInv
  <2>4. CASE Clear
    BY <2>4, ClearKeepsEntriesInv
  <2>5. CASE RestoreFromSnapshot
    <3>1. IndexInv'
      BY <2>5, RestoreKeepsIndexInv DEF EntriesInv
    <3> QED  BY <2>5, <3>1, RestoreKeepsNumbers, SameEntriesKeepEntriesInv DEF RestoreFromSnapshot
  <2>6. CASE UNCHANGED vars
    <3>1. IndexInv'
      <4>1. LabelsOf' = LabelsOf
        BY <2>6 DEF vars, LabelsOf
      <4> QED  BY <2>6, <4>1 DEF EntriesInv, IndexInv, vars, StreamIdentity, LabelIndexesExact,
                  LabelIndexExact, LabelValuesExact, InternerCovers
    <3>2. NumbersStay
      BY <2>6 DEF EntriesInv, StampsInv, StampsUsed, NumbersStay, vars
    <3> QED  BY <2>6, <3>1, <3>2, SameEntriesKeepEntriesInv DEF vars
  <2> QED  BY <2>0, <2>1, <2>2, <2>3, <2>4, <2>5, <2>6 DEF Next
<1> QED  BY <1>1, <1>2, PTL DEF Spec

(* The fields of LogStore have their types. *)
THEOREM LogStoreTypesAlways == Spec => []TypeOK
<1>1. EntriesInv => TypeOK
  <2> SUFFICES ASSUME EntriesInv PROVE TypeOK
    OBVIOUS
  <2>1. IndexInv /\ StampsInv
    BY DEF EntriesInv
  <2>2. total_entries \in Nat
    BY <2>1, EntriesFinite DEF EntriesInv, TotalIsExact
  <2>3. /\ DOMAIN stream_ids \subseteq LabelSets
        /\ \A labels \in DOMAIN stream_ids : stream_ids[labels] \in Nat
    <3> SUFFICES ASSUME NEW labels \in DOMAIN stream_ids
                 PROVE  labels \in LabelSets /\ stream_ids[labels] \in Nat
      OBVIOUS
    <3>1. PICK id \in DOMAIN streams : labels = streams[id].labels
      BY <2>1 DEF IndexInv, StreamIdentity
    <3> QED  BY <2>1, <3>1 DEF IndexInv, StreamIdentity
  <2> QED  BY <2>1, <2>2, <2>3 DEF TypeOK, IndexInv, StampsInv
<1> QED  BY <1>1, EntriesInvariant, PTL

(* total_entries is the number of entries after every ingest, eviction tick,
   reset and restore: the saturating subtractions of evict_before,
   evict_to_max and clear_service never saturate.                          *)
THEOREM TotalAlwaysExact == Spec => []TotalIsExact
<1>1. EntriesInv => TotalIsExact
  BY DEF EntriesInv
<1> QED  BY <1>1, EntriesInvariant, PTL

(* streams_for_trace never misses a stream with an entry of the trace. *)
THEOREM TraceIndexAlwaysComplete == Spec => []TraceIndexComplete
<1>1. EntriesInv => TraceIndexComplete
  BY DEF EntriesInv
<1> QED  BY <1>1, EntriesInvariant, PTL

(* A read by time is a slice of the stream, in its order. *)
InWindow(s, start, end) == {i \in DOMAIN s : start <= s[i].ts /\ s[i].ts <= end}

LEMMA WindowIsSlice ==
    ASSUME NEW s \in Seq(LogEntry), TimeSorted(s), NEW start \in Int, NEW end \in Int,
           NEW lo, lo = CountBelow(s, start), NEW hi, hi = CountBelow(s, end + 1)
    PROVE  /\ lo \in 0 .. Len(s) /\ hi \in 0 .. Len(s)
           /\ start <= end => lo <= hi
           /\ InWindow(s, start, end) = lo + 1 .. hi
<1>1. TimeSorted(s) /\ end + 1 \in Int /\ Len(s) \in Nat /\ DOMAIN s = 1 .. Len(s)
  OBVIOUS
<1>2. /\ lo \in 0 .. Len(s)
      /\ \A i \in 1 .. Len(s) : s[i].ts < start <=> i <= lo
  BY <1>1, EntriesAreTimed, CountBelowIsPrefix
<1>3. /\ hi \in 0 .. Len(s)
      /\ \A i \in 1 .. Len(s) : s[i].ts < end + 1 <=> i <= hi
  <2> DEFINE bound == end + 1
  <2>1. bound \in Int /\ hi = CountBelow(s, bound)
    BY <1>1
  <2> HIDE DEF bound
  <2>2. hi \in 0 .. Len(s) /\ \A i \in 1 .. Len(s) : s[i].ts < bound <=> i <= hi
    BY <1>1, <2>1, EntriesAreTimed, CountBelowIsPrefix
  <2> QED  BY <2>2 DEF bound
<1>4. \A i \in 1 .. Len(s) : s[i].ts \in Int
  BY EntriesAreTimed
<1>5. ASSUME start <= end PROVE lo <= hi
  <2>1. CASE lo = 0
    BY <1>3, <2>1
  <2>2. CASE lo # 0
    <3>1. lo \in 1 .. Len(s)
      BY <1>1, <1>2, <2>2
    <3>2. s[lo].ts < start /\ s[lo].ts \in Int
      BY <1>2, <1>4, <3>1
    <3>3. s[lo].ts < end + 1
      BY <1>5, <3>2
    <3> QED  BY <1>3, <3>1, <3>3
  <2> QED  BY <2>1, <2>2
<1>6. InWindow(s, start, end) = lo + 1 .. hi
  <2>1. \A i \in 1 .. Len(s) : start <= s[i].ts /\ s[i].ts <= end <=> lo + 1 <= i /\ i <= hi
    <3> SUFFICES ASSUME NEW i \in 1 .. Len(s)
                 PROVE  start <= s[i].ts /\ s[i].ts <= end <=> lo + 1 <= i /\ i <= hi
      OBVIOUS
    <3>1. s[i].ts \in Int /\ i \in Int /\ lo \in Int /\ hi \in Int
      BY <1>1, <1>2, <1>3, <1>4
    <3>2. (s[i].ts < start <=> i <= lo) /\ (s[i].ts < end + 1 <=> i <= hi)
      BY <1>2, <1>3
    <3> QED  BY <3>1, <3>2
  <2>2. \A i \in lo + 1 .. hi : i \in 1 .. Len(s) /\ lo + 1 <= i /\ i <= hi
    BY <1>1, <1>2, <1>3
  <2>3. \A i \in 1 .. Len(s) : lo + 1 <= i /\ i <= hi => i \in lo + 1 .. hi
    BY <1>1, <1>2, <1>3
  <2> QED  BY <1>1, <2>1, <2>2, <2>3 DEF InWindow
<1> QED  BY <1>2, <1>3, <1>5, <1>6

LEMMA SliceInOrder ==
    ASSUME NEW s \in Seq(LogEntry), TimeSorted(s), NEW lo \in 0 .. Len(s), NEW hi \in 0 .. Len(s),
           NEW read, read = SubSeq(s, lo + 1, hi)
    PROVE  DOMAIN read = 1 .. Len(read) /\ TimeSorted(read)
<1> DEFINE p == lo + 1
<1>1. p \in Int /\ hi \in Int /\ Len(s) \in Nat
  OBVIOUS
<1>2. \A i \in p .. hi : s[i] \in LogEntry /\ i \in 1 .. Len(s)
  BY <1>1
<1>3. read = SubSeq(s, p, hi)
  OBVIOUS
<1> HIDE DEF p
<1>4. /\ read \in Seq(LogEntry)
      /\ Len(read) = IF p <= hi THEN hi - p + 1 ELSE 0
      /\ \A i \in 1 .. hi - p + 1 : read[i] = s[p + i - 1]
  BY <1>1, <1>2, <1>3, SubSeqProperties
<1>5. DOMAIN read = 1 .. Len(read)
  BY <1>4
<1>6. ASSUME NEW i \in DOMAIN read
      PROVE  /\ i \in Int /\ p + i - 1 \in 1 .. Len(s) /\ read[i] = s[p + i - 1]
  <2>1. i \in Int /\ i \in 1 .. hi - p + 1
    BY <1>1, <1>4, <1>5
  <2>2. p + i - 1 \in p .. hi
    BY <1>1, <2>1
  <2> QED  BY <1>2, <1>4, <2>1, <2>2
<1> SUFFICES ASSUME NEW i \in DOMAIN read, NEW j \in DOMAIN read, i < j
             PROVE  read[i].ts <= read[j].ts
  BY <1>5 DEF TimeSorted
<1> DEFINE a == p + i - 1
           b == p + j - 1
<1>7. a \in 1 .. Len(s) /\ b \in 1 .. Len(s) /\ read[i] = s[a] /\ read[j] = s[b]
  BY <1>6
<1>8. a < b
  BY <1>1, <1>6
<1> HIDE DEF a, b
<1> QED  BY <1>7, <1>8 DEF TimeSorted

LEMMA ReadsAreWindows == EntriesInv => ReadsInWindow
<1> SUFFICES ASSUME EntriesInv, NEW id \in DOMAIN streams,
                    NEW start \in Timestamps, NEW end \in Timestamps
             PROVE  LET read == GetEntries(id, start, end)
                        entries == streams[id].entries
                        inWindow == {i \in DOMAIN entries :
                                        start <= entries[i].ts /\ entries[i].ts <= end}
                    IN  /\ start <= end => read = ItemsAt(entries, inWindow)
                        /\ \A i, j \in DOMAIN read : i < j => read[i].ts <= read[j].ts
  BY DEF ReadsInWindow
<1> DEFINE entries == streams[id].entries
           lo == CountBelow(entries, start)
           hi == CountBelow(entries, end + 1)
           read == GetEntries(id, start, end)
           inWindow == {i \in DOMAIN entries : start <= entries[i].ts /\ entries[i].ts <= end}
<1>1. entries \in Seq(LogEntry) /\ TimeSorted(entries)
  BY StreamFields DEF EntriesInv, StampsInv
<1>2. start \in Int /\ end \in Int
  BY LogConstants
<1>3. /\ read = SubSeq(entries, lo + 1, hi)
      /\ lo = CountBelow(entries, start) /\ hi = CountBelow(entries, end + 1)
  BY DEF GetEntries
<1> HIDE DEF entries, lo, hi, read
<1>4. /\ lo \in 0 .. Len(entries) /\ hi \in 0 .. Len(entries)
      /\ start <= end => lo <= hi
      /\ InWindow(entries, start, end) = lo + 1 .. hi
  BY <1>1, <1>2, <1>3, WindowIsSlice
<1>5. lo \in Nat /\ hi \in Nat
  BY <1>1, <1>4
<1>6. ASSUME start <= end PROVE read = ItemsAt(entries, inWindow)
  <2>1. ItemsAt(entries, lo + 1 .. hi) = SubSeq(entries, lo + 1, hi)
    BY <1>4, <1>5, <1>6, ItemsAtInterval
  <2> QED  BY <1>3, <1>4, <2>1 DEF InWindow
<1>7. \A i, j \in DOMAIN read : i < j => read[i].ts <= read[j].ts
  <2>1. DOMAIN read = 1 .. Len(read) /\ TimeSorted(read)
    BY <1>1, <1>3, <1>4, SliceInOrder
  <2> QED  BY <2>1 DEF TimeSorted
<1> QED  BY <1>6, <1>7 DEF entries, read

(* What every step does to the order of the entries of one time. *)
ArrivalsFollow ==
    \A id \in DOMAIN streams' : EqualTimesInOrder(StoredEntries(id), streams'[id].entries)

LEMMA ShrinkKeepsArrivals ==
    ASSUME StampsInv, StreamsShrink
    PROVE  ArrivalsFollow
<1> SUFFICES ASSUME NEW id \in DOMAIN streams'
             PROVE  EqualTimesInOrder(StoredEntries(id), streams'[id].entries)
  BY DEF ArrivalsFollow
<1>1. id \in DOMAIN streams /\ streams'[id] \in LogStream
  BY DEF StreamsShrink
<1>2. PICK n : IsTail(streams[id].entries, n, streams'[id].entries)
  BY DEF StreamsShrink
<1>3. streams[id].entries \in Seq(LogEntry) /\ TimeSorted(streams[id].entries)
  BY <1>1, StreamFields DEF StampsInv
<1>4. streams'[id].entries \in Seq(LogEntry)
  BY <1>1 DEF LogStream
<1>5. EqualTimesInOrder(streams[id].entries, streams'[id].entries)
  BY <1>2, <1>3, <1>4, TailKeepsOrder
<1> QED  BY <1>1, <1>5 DEF StoredEntries

LEMMA IngestKeepsArrivals == EntriesInv /\ Ingest => ArrivalsFollow
<1> SUFFICES ASSUME EntriesInv, Ingest, NEW other \in DOMAIN streams'
             PROVE  EqualTimesInOrder(StoredEntries(other), streams'[other].entries)
  BY DEF ArrivalsFollow
<1>1. IndexInv /\ StampsInv
  BY DEF EntriesInv
<1>2. PICK labels \in LabelSets, batch \in Batches : \E seqs \in DrawnFor(batch) :
         IngestStream(labels, Stamp(batch, seqs))
  BY DEF Ingest
<1>3. PICK seqs \in DrawnFor(batch) : IngestStream(labels, Stamp(batch, seqs))
  BY <1>2
<1>4. PICK id, old : id \in Nat /\ Receives(id, old, labels, Stamp(batch, seqs))
  BY <1>1, <1>3, IngestReceives
<1>5. CASE other = id
  <2>1. EqualTimesInOrder(old, streams'[id].entries)
    BY <1>1, <1>4, ReceivedStream
  <2>2. old = StoredEntries(id)
    BY <1>4 DEF Receives, StoredEntries
  <2> QED  BY <1>5, <2>1, <2>2
<1>6. CASE other # id
  <2>1. other \in DOMAIN streams /\ streams'[other] = streams[other]
    BY <1>4, <1>6 DEF Receives
  <2> DEFINE s == streams[other].entries
  <2>2. s \in Seq(LogEntry) /\ TimeSorted(s)
    BY <1>1, <2>1, StreamFields DEF StampsInv
  <2>3. StoredEntries(other) = s /\ streams'[other].entries = s
    BY <2>1 DEF StoredEntries
  <2> HIDE DEF s
  <2>4. IsTail(s, 0, s)
    BY <2>2 DEF IsTail
  <2>5. EqualTimesInOrder(s, s)
    BY <2>2, <2>4, TailKeepsOrder
  <2> QED  BY <2>3, <2>5
<1> QED  BY <1>5, <1>6

(* After every step that changes the streams, get_entries returns exactly the
   entries of its window by time, and entries of one time are in the order
   in which they were stored: earlier batches first, and one batch as its
   handler read it, although handlers draw their numbers before they wait
   for the lock.                                                           *)
THEOREM RangeReadsAlwaysExact == Spec => RangeReadsExact
<1>1. EntriesInv /\ [Next]_vars => ArrivalsFollow \/ UNCHANGED streams
  <2> SUFFICES ASSUME EntriesInv, [Next]_vars PROVE ArrivalsFollow \/ UNCHANGED streams
    OBVIOUS
  <2>0. IndexInv /\ StampsInv /\ TotalIsExact
    BY DEF EntriesInv
  <2>1. CASE Draw
    BY <2>1 DEF Draw
  <2>2. CASE Ingest
    BY <2>2, IngestKeepsArrivals
  <2>3. ASSUME NEW cutoff \in Cutoffs, RunEviction(cutoff) PROVE ArrivalsFollow
    <3>1. PICK fresh, pos, kept : Evicts(cutoff, fresh, pos, kept)
      BY <2>0, <2>3, RunEvictionEvicts
    <3> QED  BY <2>0, <3>1, EvictsShrinks, ShrinkKeepsArrivals
  <2>4. ASSUME NEW service \in Services, ClearService(service) PROVE ArrivalsFollow
    BY <2>0, <2>4, ClearServiceShrinks, ShrinkKeepsArrivals
  <2>5. CASE Clear
    <3>1. DOMAIN streams' = {}
      BY <2>5 DEF Clear, NoEntries
    <3> QED  BY <3>1 DEF ArrivalsFollow
  <2>6. CASE RestoreFromSnapshot
    BY <2>6 DEF RestoreFromSnapshot
  <2>7. CASE UNCHANGED vars
    BY <2>7 DEF vars
  <2> QED  BY <2>1, <2>2, <2>3, <2>4, <2>5, <2>6, <2>7 DEF Next
<1>2. ReadsInWindow' /\ (ArrivalsFollow \/ UNCHANGED streams) =>
         [/\ ReadsInWindow'
          /\ \A id \in DOMAIN streams' :
                EqualTimesInOrder(StoredEntries(id), streams'[id].entries)]_streams
  BY DEF ArrivalsFollow
<1>3. Spec => []EntriesInv
  BY EntriesInvariant
<1>4. EntriesInv => ReadsInWindow
  BY ReadsAreWindows
<1> QED  BY <1>1, <1>2, <1>3, <1>4, PTL DEF Spec, RangeReadsExact

-----------------------------------------------------------------------------
(* The abstract item that stands for an entry of a stream. *)
ItemOf(entry, labels) ==
    [seq |-> entry.seq, ts |-> entry.ts, group |-> labels, services |-> ServicesOf(labels)]

HeldItem(id, i) == ItemOf(streams[id].entries[i], streams[id].labels)

LEMMA HeldEntriesAre ==
    ASSUME NEW h
    PROVE  h \in HeldEntries <=>
              \E id \in DOMAIN streams : \E i \in DOMAIN streams[id].entries : h = HeldItem(id, i)
BY DEF HeldEntries, HeldItem, ItemOf

LEMMA HeldEntriesAreNext ==
    ASSUME NEW h
    PROVE  h \in HeldEntries' <=>
              \E id \in DOMAIN streams' : \E i \in DOMAIN streams'[id].entries :
                  h = ItemOf(streams'[id].entries[i], streams'[id].labels)
BY DEF HeldEntries, ItemOf

LEMMA IngestAccepts == EntriesInv /\ Ingest => Store!Accept
<1> SUFFICES ASSUME EntriesInv, Ingest PROVE Store!Accept
  OBVIOUS
<1>1. IndexInv /\ StampsInv
  BY DEF EntriesInv
<1>2. PICK labels \in LabelSets, batch \in Batches : \E seqs \in DrawnFor(batch) :
         IngestStream(labels, Stamp(batch, seqs))
  BY DEF Ingest
<1>3. PICK seqs \in DrawnFor(batch) : IngestStream(labels, Stamp(batch, seqs))
  BY <1>2
<1>4. PICK id, old : id \in Nat /\ Receives(id, old, labels, Stamp(batch, seqs))
  BY <1>1, <1>3, IngestReceives
<1> DEFINE new == streams'[id].entries
           entries == Stamp(batch, seqs)
<1>5. /\ old \in Seq(LogEntry) /\ new \in Seq(LogEntry) /\ streams'[id].labels = labels
      /\ Merges(old, entries, new)
      /\ \A i \in 1 .. Len(entries) : entries[i].seq \in drawn
  BY <1>1, <1>4, ReceivedStream, StampIsBatch
<1>6. /\ DOMAIN streams' = DOMAIN streams \cup {id}
      /\ \A other \in DOMAIN streams : other # id => streams'[other] = streams[other]
      /\ id \in DOMAIN streams => streams[id].labels = labels /\ old = streams[id].entries
      /\ id \notin DOMAIN streams => old = << >>
  BY <1>4 DEF Receives
<1>7. DOMAIN old = 1 .. Len(old) /\ DOMAIN new = 1 .. Len(new)
  BY <1>5
<1>8. \A h \in HeldEntries : h.seq \notin drawn
  <2> SUFFICES ASSUME NEW a \in DOMAIN streams, NEW i \in DOMAIN streams[a].entries
               PROVE  streams[a].entries[i].seq \notin drawn
    BY HeldEntriesAre DEF HeldItem, ItemOf
  <2>1. /\ streams[a].entries \in Seq(LogEntry)
        /\ StampsUsed(streams[a].entries)
    BY <1>1, StreamFields DEF StampsInv
  <2> QED  BY <2>1, EntryFields DEF StampsUsed
<1> HIDE DEF new, entries
<1>9. HeldEntries \subseteq HeldEntries'
  <2> SUFFICES ASSUME NEW h \in HeldEntries PROVE h \in HeldEntries'
    OBVIOUS
  <2>1. PICK a \in DOMAIN streams : \E i \in DOMAIN streams[a].entries : h = HeldItem(a, i)
    BY HeldEntriesAre
  <2>2. PICK i \in DOMAIN streams[a].entries : h = HeldItem(a, i)
    BY <2>1
  <2>3. CASE a # id
    <3>1. a \in DOMAIN streams' /\ streams'[a] = streams[a]
      BY <1>6, <2>3
    <3> QED  BY <2>2, <3>1, HeldEntriesAreNext DEF HeldItem
  <2>4. CASE a = id
    <3>1. streams[a].labels = labels /\ old = streams[a].entries
      BY <1>6, <2>4
    <3>2. i \in 1 .. Len(old)
      BY <1>7, <3>1
    <3>3. PICK r \in 1 .. Len(new) : new[r] = old[i]
      BY <1>5, <3>2 DEF Merges
    <3>4. h = ItemOf(new[r], labels)
      BY <2>2, <3>1, <3>3 DEF HeldItem
    <3>5. id \in DOMAIN streams' /\ r \in DOMAIN new
      BY <1>6, <1>7
    <3> QED  BY <1>5, <3>4, <3>5, HeldEntriesAreNext DEF new
  <2> QED  BY <2>3, <2>4
<1>10. ASSUME NEW h \in HeldEntries', h \notin HeldEntries
       PROVE  h.seq \in drawn
  <2>1. PICK a \in DOMAIN streams' : \E i \in DOMAIN streams'[a].entries :
                  h = ItemOf(streams'[a].entries[i], streams'[a].labels)
    BY HeldEntriesAreNext
  <2>2. PICK r \in DOMAIN streams'[a].entries :
                  h = ItemOf(streams'[a].entries[r], streams'[a].labels)
    BY <2>1
  <2>3. a = id
    <3> SUFFICES ASSUME a # id PROVE FALSE
      OBVIOUS
    <3>1. a \in DOMAIN streams /\ streams'[a] = streams[a]
      BY <1>6
    <3>2. h \in HeldEntries
      BY <2>2, <3>1, HeldEntriesAre DEF HeldItem
    <3> QED  BY <1>10, <3>2
  <2>4. r \in 1 .. Len(new) /\ h = ItemOf(new[r], labels)
    BY <1>5, <1>7, <2>2, <2>3 DEF new
  <2>5. ~ \E i \in 1 .. Len(old) : new[r] = old[i]
    <3> SUFFICES ASSUME NEW i \in 1 .. Len(old), new[r] = old[i] PROVE FALSE
      OBVIOUS
    <3>1. id \in DOMAIN streams
      BY <1>6
    <3>2. i \in DOMAIN streams[id].entries /\ h = HeldItem(id, i)
      BY <1>6, <1>7, <2>4, <3>1 DEF HeldItem
    <3>3. h \in HeldEntries
      BY <3>1, <3>2, HeldEntriesAre
    <3> QED  BY <1>10, <3>3
  <2>6. new[r].seq \in drawn
    BY <1>5, <2>4, <2>5 DEF Merges
  <2> QED  BY <2>4, <2>6 DEF ItemOf
<1> QED  BY <1>8, <1>9, <1>10 DEF Store!Accept

LEMMA ClearServiceForgets ==
    ASSUME EntriesInv, NEW service \in Services, ClearService(service)
    PROVE  Store!ForgetService(service)
<1> DEFINE pair == <<"service", service>>
           gone == label_index[pair] \cap DOMAIN streams
<1>1. /\ streams' = [id \in DOMAIN streams \ gone |-> streams[id]]
      /\ pair \in DOMAIN label_index
  BY DEF ClearService
<1>2. IndexInv
  BY DEF EntriesInv
<1>3. \A id \in DOMAIN streams : service \in ServicesOf(streams[id].labels) <=> pair \in streams[id].labels
  <2> SUFFICES ASSUME NEW id \in DOMAIN streams
               PROVE  service \in ServicesOf(streams[id].labels) <=> pair \in streams[id].labels
    OBVIOUS
  <2>1. \A p \in streams[id].labels : p = <<p[1], p[2]>>
    BY <1>2, LogConstants DEF IndexInv
  <2> QED  BY <2>1 DEF ServicesOf
<1>4. \A id \in DOMAIN streams : id \in gone <=> pair \in streams[id].labels
  <2>1. label_index = [p \in AllPairs(LabelsOf) |-> {id \in DOMAIN LabelsOf : p \in LabelsOf[id]}]
    BY <1>2 DEF IndexInv, LabelIndexesExact, LabelIndexExact
  <2>2. label_index[pair] = {id \in DOMAIN LabelsOf : pair \in LabelsOf[id]}
    BY <1>1, <2>1
  <2>3. DOMAIN LabelsOf = DOMAIN streams /\ \A id \in DOMAIN streams : LabelsOf[id] = streams[id].labels
    BY DEF LabelsOf
  <2> QED  BY <2>2, <2>3
<1> HIDE DEF gone, pair
<1>5. /\ DOMAIN streams' = DOMAIN streams \ gone
      /\ \A id \in DOMAIN streams' : streams'[id] = streams[id]
  BY <1>1
<1>6. ASSUME NEW h PROVE h \in HeldEntries' <=> h \in HeldEntries /\ service \notin h.services
  <2>1. h \in HeldEntries' <=> \E id \in DOMAIN streams \ gone :
                                   \E i \in DOMAIN streams[id].entries : h = HeldItem(id, i)
    BY <1>5, HeldEntriesAreNext DEF HeldItem
  <2>2. \A id \in DOMAIN streams : \A i : h = HeldItem(id, i) => (service \notin h.services <=> id \notin gone)
    BY <1>3, <1>4 DEF HeldItem, ItemOf
  <2> QED  BY <2>1, <2>2, HeldEntriesAre
<1> QED  BY <1>6 DEF Store!ForgetService

-----------------------------------------------------------------------------
(* The abstract item of a position of `fresh`, the streams after the first
   half of an eviction tick.                                               *)
FreshItem(fresh, x) == ItemOf(fresh[x[1]][x[2]], streams[x[1]].labels)

(* What is unexpired is what evict_before leaves. *)
LEMMA LiveItems ==
    ASSUME StampsInv, NEW cutoff \in Cutoffs, NEW fresh, Expires(cutoff, fresh), NEW h
    PROVE  h \in Store!Unexpired(HeldEntries, cutoff) <=> \E x \in Slots(fresh) : h = FreshItem(fresh, x)
<1> DEFINE s(id) == streams[id].entries
           cut(id) == CountBelow(s(id), cutoff)
<1>1. cutoff \in Int
  BY LogConstants
<1>2. ASSUME NEW id \in DOMAIN streams
      PROVE  /\ s(id) \in Seq(LogEntry) /\ Len(s(id)) \in Nat /\ DOMAIN s(id) = 1 .. Len(s(id))
             /\ cut(id) \in 0 .. Len(s(id))
             /\ \A i \in 1 .. Len(s(id)) : s(id)[i].ts \in Int /\ (s(id)[i].ts < cutoff <=> i <= cut(id))
  <2>1. s(id) \in Seq(LogEntry)
    BY StreamFields
  <2>2. TimeSorted(s(id))
    BY <2>1 DEF StampsInv
  <2> HIDE DEF s
  <2>3. /\ cut(id) \in 0 .. Len(s(id))
        /\ \A i \in 1 .. Len(s(id)) : s(id)[i].ts < cutoff <=> i <= cut(id)
    BY <1>1, <2>1, <2>2, EntriesAreTimed, CountBelowIsPrefix
  <2> HIDE DEF cut
  <2> QED  BY <2>1, <2>3, EntriesAreTimed
<1>3. ASSUME NEW id \in DOMAIN fresh
      PROVE  /\ id \in DOMAIN streams /\ IsTail(s(id), cut(id), fresh[id])
             /\ DOMAIN fresh[id] = 1 .. Len(fresh[id])
  BY DEF Expires
<1>4. \A id \in DOMAIN streams \ DOMAIN fresh : cut(id) = Len(s(id))
  BY DEF Expires
<1>5. \A g : g \in Store!Unexpired(HeldEntries, cutoff) <=>
                \E id \in DOMAIN streams : \E i \in DOMAIN s(id) :
                    g = ItemOf(s(id)[i], streams[id].labels) /\ s(id)[i].ts >= cutoff
  <2> SUFFICES ASSUME NEW g
               PROVE  g \in HeldEntries /\ g.ts >= cutoff <=>
                        \E id \in DOMAIN streams : \E i \in DOMAIN s(id) :
                            g = ItemOf(s(id)[i], streams[id].labels) /\ s(id)[i].ts >= cutoff
    BY DEF Store!Unexpired
  <2>1. g \in HeldEntries <=> \E id \in DOMAIN streams : \E i \in DOMAIN s(id) :
                                  g = ItemOf(s(id)[i], streams[id].labels)
    BY HeldEntriesAre DEF HeldItem
  <2>2. \A id, i : g = ItemOf(s(id)[i], streams[id].labels) => g.ts = s(id)[i].ts
    BY DEF ItemOf
  <2> HIDE DEF s
  <2> QED  BY <2>1, <2>2
<1> HIDE DEF s, cut
<1>6. ASSUME h \in Store!Unexpired(HeldEntries, cutoff)
      PROVE  \E x \in Slots(fresh) : h = FreshItem(fresh, x)
  <2>1. PICK id \in DOMAIN streams : \E i \in DOMAIN s(id) :
                    h = ItemOf(s(id)[i], streams[id].labels) /\ s(id)[i].ts >= cutoff
    BY <1>5, <1>6
  <2>2. PICK i \in DOMAIN s(id) : h = ItemOf(s(id)[i], streams[id].labels) /\ s(id)[i].ts >= cutoff
    BY <2>1
  <2>3. i \in 1 .. Len(s(id)) /\ i \in Int /\ Len(s(id)) \in Nat /\ cut(id) \in 0 .. Len(s(id))
    BY <1>2
  <2>4. i > cut(id)
    <3>1. s(id)[i].ts \in Int /\ (s(id)[i].ts < cutoff <=> i <= cut(id))
      BY <1>2, <2>3
    <3> QED  BY <1>1, <2>2, <2>3, <3>1
  <2>5. id \in DOMAIN fresh
    BY <1>4, <2>3, <2>4
  <2>6. IsTail(s(id), cut(id), fresh[id]) /\ DOMAIN fresh[id] = 1 .. Len(fresh[id])
    BY <1>3, <2>5
  <2> DEFINE j == i - cut(id)
  <2>7. j \in 1 .. Len(fresh[id]) /\ j + cut(id) = i
    BY <2>3, <2>4, <2>6 DEF IsTail
  <2> HIDE DEF j
  <2>8. fresh[id][j] = s(id)[i]
    BY <2>6, <2>7 DEF IsTail
  <2>9. <<id, j>> \in Slots(fresh)
    BY <2>5, <2>6, <2>7, PairInSlots
  <2>10. h = FreshItem(fresh, <<id, j>>)
    BY <2>2, <2>8 DEF FreshItem
  <2> QED  BY <2>9, <2>10
<1>7. ASSUME NEW x \in Slots(fresh), h = FreshItem(fresh, x)
      PROVE  h \in Store!Unexpired(HeldEntries, cutoff)
  <2>1. PICK id \in DOMAIN fresh : \E j \in DOMAIN fresh[id] : x = <<id, j>>
    BY SlotsMembers
  <2>2. PICK j \in DOMAIN fresh[id] : x = <<id, j>>
    BY <2>1
  <2>3. /\ id \in DOMAIN streams /\ IsTail(s(id), cut(id), fresh[id])
        /\ j \in 1 .. Len(fresh[id])
    BY <1>3
  <2> DEFINE i == j + cut(id)
  <2>4. i \in 1 .. Len(s(id)) /\ fresh[id][j] = s(id)[i]
    BY <2>3 DEF IsTail
  <2>5. ~ (i <= cut(id))
    <3>1. cut(id) \in Int /\ j \in Int /\ j >= 1
      BY <1>2, <2>3 DEF IsTail
    <3> QED  BY <3>1
  <2> HIDE DEF i
  <2>6. s(id)[i].ts >= cutoff /\ i \in DOMAIN s(id)
    <3>1. s(id)[i].ts \in Int /\ (s(id)[i].ts < cutoff <=> i <= cut(id)) /\ DOMAIN s(id) = 1 .. Len(s(id))
      BY <1>2, <2>3, <2>4
    <3> QED  BY <1>1, <2>4, <2>5, <3>1
  <2>7. h = ItemOf(s(id)[i], streams[id].labels)
    BY <1>7, <2>2, <2>4 DEF FreshItem
  <2> QED  BY <1>5, <2>3, <2>6, <2>7
<1> QED  BY <1>6, <1>7

(* Items tell the entries of the store apart, because stamps do. *)
LEMMA FreshItemsDiffer ==
    ASSUME StampsInv, NEW cutoff, NEW fresh, Expires(cutoff, fresh),
           NEW x \in Slots(fresh), NEW y \in Slots(fresh), FreshItem(fresh, x) = FreshItem(fresh, y)
    PROVE  x = y
<1>1. PICK a \in DOMAIN fresh : \E i \in DOMAIN fresh[a] : x = <<a, i>>
  BY SlotsMembers
<1>2. PICK i \in DOMAIN fresh[a] : x = <<a, i>>
  BY <1>1
<1>3. PICK b \in DOMAIN fresh : \E j \in DOMAIN fresh[b] : y = <<b, j>>
  BY SlotsMembers
<1>4. PICK j \in DOMAIN fresh[b] : y = <<b, j>>
  BY <1>3
<1>5. fresh[a][i].seq = fresh[b][j].seq
  BY <1>2, <1>4 DEF FreshItem, ItemOf
<1> DEFINE n == CountBelow(streams[a].entries, cutoff)
           m == CountBelow(streams[b].entries, cutoff)
<1>6. /\ a \in DOMAIN streams /\ b \in DOMAIN streams
      /\ IsTail(streams[a].entries, n, fresh[a]) /\ IsTail(streams[b].entries, m, fresh[b])
      /\ i \in 1 .. Len(fresh[a]) /\ j \in 1 .. Len(fresh[b])
  BY DEF Expires
<1> HIDE DEF n, m
<1>7. i + n \in 1 .. Len(streams[a].entries) /\ fresh[a][i] = streams[a].entries[i + n]
  BY <1>6 DEF IsTail
<1>8. j + m \in 1 .. Len(streams[b].entries) /\ fresh[b][j] = streams[b].entries[j + m]
  BY <1>6 DEF IsTail
<1>9. UniqueStamps /\ streams[a].entries[i + n].seq = streams[b].entries[j + m].seq
  BY <1>5, <1>7, <1>8 DEF StampsInv
<1>10. a = b /\ i + n = j + m
  BY <1>6, <1>7, <1>8, <1>9 DEF UniqueStamps
<1>11. n \in Int /\ m \in Int /\ i \in Int /\ j \in Int /\ n = m
  <2>1. Len(streams[a].entries) \in Nat /\ Len(streams[b].entries) \in Nat
    BY <1>6, StreamFields
  <2>2. Len(fresh[a]) = Len(streams[a].entries) - n /\ Len(fresh[a]) = Len(streams[a].entries) - m
    BY <1>6, <1>10 DEF IsTail
  <2>3. n \in Int /\ m \in Int
    BY <1>6, <2>1 DEF IsTail
  <2> QED  BY <1>6, <2>1, <2>2, <2>3
<1>12. i = j
  BY <1>10, <1>11
<1> QED  BY <1>2, <1>4, <1>10, <1>12

(* What stays are the items behind the first k of the line. *)
LEMMA KeptItems ==
    ASSUME StampsInv, NEW cutoff, NEW fresh, NEW pos, NEW kept, Evicts(cutoff, fresh, pos, kept),
           NEW k, k = ToRemove(CountItems(fresh)), NEW h
    PROVE  h \in HeldEntries' <=>
              \E x \in Slots(fresh) : h = FreshItem(fresh, x) /\ Ahead(fresh, pos, x[1]) + x[2] > k
<1>1. \A id \in DOMAIN kept : /\ id \in DOMAIN fresh /\ id \in DOMAIN streams
                              /\ streams'[id].entries = kept[id]
                              /\ streams'[id].labels = streams[id].labels
                              /\ DOMAIN kept[id] = 1 .. Len(kept[id])
  BY EvictsShrinks
<1>2. DOMAIN streams' = DOMAIN kept /\ Drains(fresh, pos, k, kept)
  BY DEF Evicts
<1>3. \A id \in DOMAIN fresh : DOMAIN fresh[id] = 1 .. Len(fresh[id]) /\ Len(fresh[id]) \in Nat
  BY DEF Evicts, VectorsOfEntries
<1>4. ASSUME NEW id \in DOMAIN kept
      PROVE  \E n : /\ IsTail(fresh[id], n, kept[id]) /\ n \in Nat
                    /\ Len(kept[id]) = Len(fresh[id]) - n /\ Len(fresh[id]) - Len(kept[id]) = n
  <2>1. PICK n : IsTail(fresh[id], n, kept[id])
    BY <1>2 DEF Drains
  <2> QED  BY <1>1, <1>3, <2>1 DEF IsTail
<1>5. \A id \in DOMAIN fresh : \A i \in 1 .. Len(fresh[id]) :
          Ahead(fresh, pos, id) + i > k <=> id \in DOMAIN kept /\ i > Len(fresh[id]) - Len(kept[id])
  BY <1>2 DEF Drains
<1>6. ASSUME h \in HeldEntries'
      PROVE  \E x \in Slots(fresh) : h = FreshItem(fresh, x) /\ Ahead(fresh, pos, x[1]) + x[2] > k
  <2>1. PICK id \in DOMAIN kept : \E i \in DOMAIN streams'[id].entries :
                  h = ItemOf(streams'[id].entries[i], streams'[id].labels)
    BY <1>2, <1>6, HeldEntriesAreNext
  <2>2. PICK i \in 1 .. Len(kept[id]) : h = ItemOf(kept[id][i], streams[id].labels)
    BY <1>1, <2>1
  <2>3. PICK n : /\ IsTail(fresh[id], n, kept[id]) /\ n \in Nat
                 /\ Len(fresh[id]) - Len(kept[id]) = n /\ Len(kept[id]) = Len(fresh[id]) - n
    BY <1>4
  <2> DEFINE j == i + n
  <2>4. j \in 1 .. Len(fresh[id]) /\ kept[id][i] = fresh[id][j] /\ id \in DOMAIN fresh
    BY <1>1, <2>3 DEF IsTail
  <2>5. j > n
    BY <1>1, <1>3, <2>3
  <2> HIDE DEF j
  <2>6. Ahead(fresh, pos, id) + j > k
    BY <1>5, <2>3, <2>4, <2>5
  <2>7. <<id, j>> \in Slots(fresh)
    BY <1>3, <2>4, PairInSlots
  <2>8. h = FreshItem(fresh, <<id, j>>)
    BY <2>2, <2>4 DEF FreshItem
  <2> DEFINE x == <<id, j>>
  <2>9. x[1] = id /\ x[2] = j
    OBVIOUS
  <2> QED  BY <2>6, <2>7, <2>8, <2>9
<1>7. ASSUME NEW x \in Slots(fresh), h = FreshItem(fresh, x), Ahead(fresh, pos, x[1]) + x[2] > k
      PROVE  h \in HeldEntries'
  <2>1. PICK id \in DOMAIN fresh : \E j \in DOMAIN fresh[id] : x = <<id, j>>
    BY SlotsMembers
  <2>2. PICK j \in DOMAIN fresh[id] : x = <<id, j>>
    BY <2>1
  <2>3. j \in 1 .. Len(fresh[id]) /\ Len(fresh[id]) \in Nat /\ Ahead(fresh, pos, id) + j > k
    BY <1>3, <1>7, <2>2
  <2>4. id \in DOMAIN kept /\ j > Len(fresh[id]) - Len(kept[id])
    BY <1>5, <2>3
  <2>5. PICK n : /\ IsTail(fresh[id], n, kept[id]) /\ n \in Nat
                 /\ Len(fresh[id]) - Len(kept[id]) = n /\ Len(kept[id]) = Len(fresh[id]) - n
    BY <1>4, <2>4
  <2> DEFINE i == j - n
  <2>6. i \in 1 .. Len(kept[id]) /\ i + n = j
    BY <2>3, <2>4, <2>5
  <2> HIDE DEF i
  <2>7. kept[id][i] = fresh[id][j]
    BY <2>5, <2>6 DEF IsTail
  <2>8. h = ItemOf(streams'[id].entries[i], streams'[id].labels) /\ i \in DOMAIN streams'[id].entries
    BY <1>1, <1>7, <2>2, <2>4, <2>6, <2>7 DEF FreshItem
  <2> QED  BY <1>2, <2>4, <2>8, HeldEntriesAreNext
<1> QED  BY <1>6, <1>7

(* An eviction tick leaves as many entries as the maximum allows, and the
   abstract store asks for no more than that.                              *)
LEMMA RunEvictionEvictsItems ==
    ASSUME EntriesInv, NEW cutoff \in Cutoffs, RunEviction(cutoff)
    PROVE  Store!Evict(cutoff)
<1>1. IndexInv /\ StampsInv /\ TotalIsExact
  BY DEF EntriesInv
<1>2. PICK fresh, pos, kept : Evicts(cutoff, fresh, pos, kept)
  BY <1>1, RunEvictionEvicts
<1> DEFINE N == CountItems(fresh)
           k == ToRemove(N)
           live == Store!Unexpired(HeldEntries, cutoff)
           staying == {x \in Slots(fresh) : Ahead(fresh, pos, x[1]) + x[2] > k}
           drained == {x \in Slots(fresh) : Ahead(fresh, pos, x[1]) + x[2] <= k}
           item == [x \in staying |-> FreshItem(fresh, x)]
<1>3. /\ Expires(cutoff, fresh) /\ VectorsOfEntries(fresh) /\ IsFiniteSet(Slots(fresh))
      /\ N \in Nat /\ N = Cardinality(Slots(fresh)) /\ MaxLogEntries \in Nat
      /\ \A id \in DOMAIN fresh : pos[id] \in Int
      /\ \A a, b \in DOMAIN fresh : pos[a] = pos[b] => a = b
  BY <1>2, LogConstants DEF Evicts, VectorsOfEntries, CountItems
<1>4. k \in 0 .. N /\ k = IF N > MaxLogEntries THEN N - MaxLogEntries ELSE 0
  <2> HIDE DEF N
  <2> QED  BY <1>3 DEF ToRemove, SaturatingSub
<1>5. \A h : h \in live <=> \E x \in Slots(fresh) : h = FreshItem(fresh, x)
  BY <1>1, <1>3, LiveItems
<1>6. \A h : h \in HeldEntries' <=>
         \E x \in Slots(fresh) : h = FreshItem(fresh, x) /\ Ahead(fresh, pos, x[1]) + x[2] > k
  BY <1>1, <1>2, KeptItems
<1>7. HeldEntries' \subseteq live
  <2> HIDE DEF live, N, k
  <2> QED  BY <1>5, <1>6
<1>8. \A x \in Slots(fresh) : Ahead(fresh, pos, x[1]) + x[2] \in Int /\ Ahead(fresh, pos, x[1]) + x[2] >= 1
  <2> SUFFICES ASSUME NEW x \in Slots(fresh)
               PROVE  Ahead(fresh, pos, x[1]) + x[2] \in Int /\ Ahead(fresh, pos, x[1]) + x[2] >= 1
    OBVIOUS
  <2>1. PICK id \in DOMAIN fresh : \E j \in DOMAIN fresh[id] : x = <<id, j>>
    BY SlotsMembers
  <2>2. PICK j \in DOMAIN fresh[id] : x = <<id, j>>
    BY <2>1
  <2>3. x[1] = id /\ x[2] = j /\ j \in Int /\ j >= 1
    BY <1>3, <2>2 DEF VectorsOfEntries
  <2>4. Ahead(fresh, pos, id) \in Nat
    BY <1>3, AheadIsCount
  <2> QED  BY <2>3, <2>4
<1>9. Cardinality(drained) = k
  <2>1. \A id \in DOMAIN fresh : \E n \in Nat : DOMAIN fresh[id] = 1 .. n
    BY <1>3 DEF VectorsOfEntries
  <2>2. k \in 0 .. CountItems(fresh)
    BY <1>4
  <2> HIDE DEF k
  <2> QED  BY <1>3, <2>1, <2>2, DrainedCount
<1>10. staying = Slots(fresh) \ drained
  <2> HIDE DEF N, k
  <2> QED  BY <1>4, <1>8
<1>11. IsFiniteSet(staying) /\ Cardinality(staying) = N - k
  <2> DEFINE slots == Slots(fresh)
  <2>1. slots \cap drained = drained
    OBVIOUS
  <2>2. IsFiniteSet(slots) /\ Cardinality(slots) = N /\ staying = slots \ drained
    BY <1>3, <1>10
  <2> HIDE DEF staying, drained, N, k, slots
  <2>3. /\ IsFiniteSet(slots \ drained)
        /\ Cardinality(slots \ drained) = Cardinality(slots) - Cardinality(slots \cap drained)
    BY <2>2, FS_Difference
  <2> QED  BY <1>9, <2>1, <2>2, <2>3
<1>12. IsFiniteSet(HeldEntries') /\ Cardinality(HeldEntries') = N - k
  <2>1. item \in Bijection(staying, HeldEntries')
    <3>1. \A x \in staying : item[x] = FreshItem(fresh, x) /\ x \in Slots(fresh)
      OBVIOUS
    <3>2. \A x \in staying : item[x] \in HeldEntries'
      BY <1>6
    <3>3. \A h \in HeldEntries' : \E x \in staying : item[x] = h
      BY <1>6
    <3>4. \A x, y \in staying : item[x] = item[y] => x = y
      BY <1>1, <1>3, <3>1, FreshItemsDiffer
    <3>5. item \in [staying -> HeldEntries']
      <4>1. item = [x \in staying |-> item[x]]
        OBVIOUS
      <4> HIDE DEF item, staying
      <4> QED  BY <3>2, <4>1
    <3> HIDE DEF item, staying
    <3> QED  BY <3>3, <3>4, <3>5 DEF Bijection, Injection, IsInjective, Surjection
  <2> HIDE DEF staying, N, k, item
  <2>2. ExistsBijection(staying, HeldEntries')
    BY <2>1 DEF ExistsBijection
  <2> QED  BY <1>11, <2>2, FS_Bijection
<1> HIDE DEF N, k, live, staying, drained, item
<1>13. Cardinality(HeldEntries') <= MaxLogEntries
  BY <1>3, <1>4, <1>12
<1>14. ASSUME HeldEntries' # live
       PROVE  \E h \in live \ HeldEntries' :
                 Cardinality(HeldEntries' \cup Store!Group(live, h.group)) > MaxLogEntries
  <2>1. PICK h \in live : h \notin HeldEntries'
    BY <1>7, <1>14
  <2>2. N > MaxLogEntries
    <3> SUFFICES ASSUME ~ (N > MaxLogEntries) PROVE FALSE
      OBVIOUS
    <3>1. k = 0
      BY <1>4
    <3>2. PICK x \in Slots(fresh) : h = FreshItem(fresh, x)
      BY <1>5, <2>1
    <3>3. Ahead(fresh, pos, x[1]) + x[2] > k
      BY <1>8, <3>1
    <3> QED  BY <1>6, <2>1, <3>2, <3>3
  <2>3. Cardinality(HeldEntries') = MaxLogEntries
    BY <1>3, <1>4, <1>12, <2>2
  <2> DEFINE more == HeldEntries' \cup {h}
             most == HeldEntries' \cup Store!Group(live, h.group)
  <2>4. IsFiniteSet(more) /\ Cardinality(more) = MaxLogEntries + 1
    BY <1>12, <2>1, <2>3, FS_AddElement
  <2>5. more \subseteq most /\ most \subseteq live
    BY <1>7, <2>1 DEF Store!Group
  <2>6. IsFiniteSet(live)
    <3> DEFINE every == [x \in Slots(fresh) |-> FreshItem(fresh, x)]
    <3>1. every \in Surjection(Slots(fresh), live)
      <4>1. \A x \in Slots(fresh) : every[x] \in live
        BY <1>5
      <4>2. \A g \in live : \E x \in Slots(fresh) : every[x] = g
        BY <1>5
      <4>3. every = [x \in Slots(fresh) |-> every[x]]
        OBVIOUS
      <4> HIDE DEF every
      <4> QED  BY <4>1, <4>2, <4>3 DEF Surjection
    <3> HIDE DEF every
    <3> QED  BY <1>3, <3>1, FS_Surjection
  <2> HIDE DEF more, most
  <2>7. IsFiniteSet(most)
    BY <2>5, <2>6, FS_Subset
  <2>8. Cardinality(more) <= Cardinality(most) /\ Cardinality(most) \in Nat
    BY <2>5, <2>7, FS_Subset, FS_CardinalityType
  <2>9. Cardinality(most) > MaxLogEntries
    BY <1>3, <2>4, <2>8
  <2> QED  BY <2>1, <2>9 DEF most
<1> QED  BY <1>7, <1>13, <1>14 DEF Store!Evict, live

(* Every step of the log store is a step of the abstract store: entries leave
   only because they expired, because the store was over max_log_entries and
   then no more than needed, by the reset of their own service, or by a
   clear, and an accepted entry is never confused with one already held.   *)
THEOREM LogStoreImplementsSignalStore == Spec => ImplementsSignalStore
<1>1. Init => Store!Init
  <2> SUFFICES ASSUME Init PROVE HeldEntries = {}
    BY DEF Store!Init
  <2>1. DOMAIN streams = {}
    BY DEF Init, NoEntries
  <2> QED  BY <2>1 DEF HeldEntries
<1>2. EntriesInv /\ [Next]_vars => [Store!Next]_HeldEntries
  <2> SUFFICES ASSUME EntriesInv, [Next]_vars PROVE Store!Next \/ UNCHANGED HeldEntries
    OBVIOUS
  <2>0. CASE Draw
    BY <2>0 DEF Draw, HeldEntries
  <2>1. CASE Ingest
    BY <2>1, IngestAccepts DEF Store!Next
  <2>2. CASE \E cutoff \in Cutoffs : RunEviction(cutoff)
    BY <2>2, RunEvictionEvictsItems DEF Store!Next
  <2>3. CASE \E service \in Services : ClearService(service)
    BY <2>3, ClearServiceForgets DEF Store!Next
  <2>4. CASE Clear
    <3>1. DOMAIN streams' = {}
      BY <2>4 DEF Clear, NoEntries
    <3>2. HeldEntries' = {}
      BY <3>1 DEF HeldEntries
    <3> QED  BY <3>2 DEF Store!Next, Store!ForgetAll
  <2>5. CASE RestoreFromSnapshot
    BY <2>5 DEF RestoreFromSnapshot, HeldEntries
  <2>6. CASE UNCHANGED vars
    BY <2>6 DEF vars, HeldEntries
  <2> QED  BY <2>0, <2>1, <2>2, <2>3, <2>4, <2>5, <2>6 DEF Next
<1>3. Spec => []EntriesInv
  BY EntriesInvariant
<1> QED  BY <1>1, <1>2, <1>3, PTL DEF Spec, ImplementsSignalStore, Store!Spec

=============================================================================
