--------------------------- MODULE TraceSearchProofs ---------------------------
(***************************************************************************)
(* The trace store and the searches over it.  The store's indexes and      *)
(* counts are exact in every reachable state, it evicts the oldest traces, *)
(* and it implements the abstract store of SignalStore, for any spans,     *)
(* times, services and limits.  A selector finds exactly the spans that    *)
(* satisfy it, whatever the indexes narrow, and searches keep the newest   *)
(* traces.                                                                 *)
(***************************************************************************)
EXTENDS TraceSearch, ItemSeqsProofs

(* The keys of one span. *)
KeysOf(of, span) ==
    CASE of = "service" -> {span.service}
      [] of = "name" -> {span.name}
      [] of = "status" -> {span.status}
      [] of = "attr" -> StringAttrs(span)

Indexes == {"service", "name", "status", "attr"}

(* The keys of the spans of a trace, by position. *)
LEMMA KeysInAre ==
    ASSUME NEW of \in Indexes, NEW spans, NEW key
    PROVE  key \in KeysIn(of, spans) <=> \E i \in DOMAIN spans : key \in KeysOf(of, spans[i])
<1>1. CASE of = "service"
  BY <1>1 DEF KeysIn, KeysOf, ServicesIn, SpansIn
<1>2. CASE of = "name"
  BY <1>2 DEF KeysIn, KeysOf, NamesIn, SpansIn
<1>3. CASE of = "status"
  BY <1>3 DEF KeysIn, KeysOf, StatusesIn, SpansIn
<1>4. CASE of = "attr"
  <2>1. KeysIn(of, spans) = AttrsIn(spans)
    BY <1>4 DEF KeysIn
  <2>2. \A s : KeysOf(of, s) = StringAttrs(s)
    BY <1>4 DEF KeysOf
  <2>3. key \in AttrsIn(spans) <=> \E i \in DOMAIN spans : key \in StringAttrs(spans[i])
    BY DEF AttrsIn, SpansIn
  <2> QED  BY <2>1, <2>2, <2>3
<1> QED  BY <1>1, <1>2, <1>3, <1>4 DEF Indexes

(* The keys of a trace when spans are added to it, and when some are taken. *)
LEMMA KeysOfJoined ==
    ASSUME NEW of \in Indexes, NEW T, NEW a \in Seq(T), NEW b \in Seq(T)
    PROVE  KeysIn(of, a \o b) = KeysIn(of, a) \cup KeysIn(of, b)
<1> DEFINE s == a \o b
           m == Len(a)
           n == Len(b)
<1>1. /\ m \in Nat /\ n \in Nat /\ DOMAIN a = 1 .. m /\ DOMAIN b = 1 .. n /\ DOMAIN s = 1 .. m + n
      /\ \A i \in 1 .. m + n : s[i] = IF i <= m THEN a[i] ELSE b[i - m]
  <2>1. /\ s \in Seq(T) /\ Len(s) = m + n
        /\ \A i \in 1 .. Len(s) : s[i] = IF i <= Len(a) THEN a[i] ELSE b[i - Len(a)]
    BY ConcatProperties, Zenon
  <2> HIDE DEF s
  <2> QED  BY <2>1
<1> HIDE DEF s, m, n
<1>2. ASSUME NEW i \in 1 .. m PROVE i \in 1 .. m + n /\ s[i] = a[i]
  BY <1>1
<1>3. ASSUME NEW i \in 1 .. n PROVE \E j \in 1 .. m + n : s[j] = b[i]
  <2> DEFINE j == i + m
  <2>1. j \in 1 .. m + n /\ ~ (j <= m) /\ j - m = i
    BY <1>1
  <2> HIDE DEF j
  <2> QED  BY <1>1, <2>1
<1>4. ASSUME NEW i \in 1 .. m + n
      PROVE  (\E j \in 1 .. m : s[i] = a[j]) \/ (\E j \in 1 .. n : s[i] = b[j])
  <2>1. CASE i <= m
    BY <1>1, <2>1
  <2>2. CASE ~ (i <= m)
    <3>1. i - m \in 1 .. n
      BY <1>1, <2>2
    <3> QED  BY <1>1, <2>2, <3>1
  <2> QED  BY <2>1, <2>2
<1>5. ASSUME NEW key
      PROVE  key \in KeysIn(of, s) <=> key \in KeysIn(of, a) \/ key \in KeysIn(of, b)
  <2>1. /\ key \in KeysIn(of, s) <=> \E i \in 1 .. m + n : key \in KeysOf(of, s[i])
        /\ key \in KeysIn(of, a) <=> \E i \in 1 .. m : key \in KeysOf(of, a[i])
        /\ key \in KeysIn(of, b) <=> \E i \in 1 .. n : key \in KeysOf(of, b[i])
    BY <1>1, KeysInAre
  <2> QED  BY <1>2, <1>3, <1>4, <2>1
<1> QED  BY <1>5 DEF s

LEMMA KeysOfFewer ==
    ASSUME NEW of \in Indexes, NEW a, NEW b, \A i \in DOMAIN b : \E j \in DOMAIN a : b[i] = a[j]
    PROVE  KeysIn(of, b) \subseteq KeysIn(of, a)
<1> SUFFICES ASSUME NEW key \in KeysIn(of, b) PROVE key \in KeysIn(of, a)
  OBVIOUS
<1>1. PICK i \in DOMAIN b : key \in KeysOf(of, b[i])
  BY KeysInAre
<1> QED  BY <1>1, KeysInAre

LEMMA KeysOfNone == ASSUME NEW of \in Indexes PROVE KeysIn(of, << >>) = {}
<1>1. \A key : key \notin KeysIn(of, << >>)
  BY KeysInAre
<1> QED  BY <1>1

-----------------------------------------------------------------------------
(* An index is exact for a map of traces: what IndexExact says of `traces`. *)
ExactFor(index, of, held) ==
    index = [key \in UNION {KeysIn(of, held[t]) : t \in DOMAIN held} |->
                {t \in DOMAIN held : key \in KeysIn(of, held[t])}]

LEMMA ExactForMeans ==
    ASSUME NEW index, NEW of, NEW held, ExactFor(index, of, held)
    PROVE  /\ \A key : key \in DOMAIN index <=> \E t \in DOMAIN held : key \in KeysIn(of, held[t])
           /\ \A key \in DOMAIN index : index[key] = {t \in DOMAIN held : key \in KeysIn(of, held[t])}
BY DEF ExactFor

(* ingest_spans adds to every index exactly what the new spans bring. *)
LEMMA AddKeepsExact ==
    ASSUME NEW of \in Indexes, NEW index, NEW held, ExactFor(index, of, held),
           NEW arrived, NEW grown, DOMAIN grown = DOMAIN held \cup DOMAIN arrived,
           \A t \in DOMAIN grown :
              KeysIn(of, grown[t]) = (IF t \in DOMAIN held THEN KeysIn(of, held[t]) ELSE {})
                                        \cup (IF t \in DOMAIN arrived THEN KeysIn(of, arrived[t]) ELSE {})
    PROVE  ExactFor(AddToIndex(index, of, arrived), of, grown)
<1> DEFINE D == DOMAIN index \cup UNION {KeysIn(of, arrived[t]) : t \in DOMAIN arrived}
           value(key) == Get(index, key) \cup {t \in DOMAIN arrived : key \in KeysIn(of, arrived[t])}
<1>1. AddToIndex(index, of, arrived) = [key \in D |-> value(key)]
  BY DEF AddToIndex
<1>2. /\ \A key : key \in DOMAIN index <=> \E t \in DOMAIN held : key \in KeysIn(of, held[t])
      /\ \A key \in DOMAIN index : index[key] = {t \in DOMAIN held : key \in KeysIn(of, held[t])}
  BY ExactForMeans
<1>3. \A key : Get(index, key) = {t \in DOMAIN held : key \in KeysIn(of, held[t])}
  BY <1>2 DEF Get
<1>4. \A t \in DOMAIN grown : \A key :
         key \in KeysIn(of, grown[t]) <=> \/ t \in DOMAIN held /\ key \in KeysIn(of, held[t])
                                          \/ t \in DOMAIN arrived /\ key \in KeysIn(of, arrived[t])
  OBVIOUS
<1>5. \A key : key \in D <=> \E t \in DOMAIN grown : key \in KeysIn(of, grown[t])
  BY <1>2, <1>4
<1>6. \A key \in D : value(key) = {t \in DOMAIN grown : key \in KeysIn(of, grown[t])}
  BY <1>3, <1>4
<1> HIDE DEF D, value
<1> QED  BY <1>1, <1>5, <1>6 DEF ExactFor

(* `kept` has some of the spans of some of the traces of `held`. *)
FewerSpans(held, kept) ==
    /\ DOMAIN kept \subseteq DOMAIN held
    /\ \A t \in DOMAIN kept : \A i \in DOMAIN kept[t] : \E j \in DOMAIN held[t] : kept[t][i] = held[t][j]

(* reconcile_trace_indexes leaves an exact index, although it looks only at
   the keys that the traces with lost spans had.                           *)
LEMMA ReconcileKeepsExact ==
    ASSUME NEW of \in Indexes, NEW index, ExactFor(index, of, traces),
           NEW kept, FewerSpans(traces, kept)
    PROVE  ExactFor(Reconcile(index, of, kept), of, kept)
<1> DEFINE left(key) == index[key] \ {t \in DOMAIN traces : key \in LostKeys(of, kept, t)}
           D == {k \in DOMAIN index : left(k) # {} \/ left(k) = index[k]}
<1>1. Reconcile(index, of, kept) = [key \in D |-> left(key)]
  BY DEF Reconcile
<1>2. /\ \A key : key \in DOMAIN index <=> \E t \in DOMAIN traces : key \in KeysIn(of, traces[t])
      /\ \A key \in DOMAIN index : index[key] = {t \in DOMAIN traces : key \in KeysIn(of, traces[t])}
  BY ExactForMeans
<1>3. \A t \in DOMAIN kept : t \in DOMAIN traces /\ KeysIn(of, kept[t]) \subseteq KeysIn(of, traces[t])
  BY KeysOfFewer DEF FewerSpans
<1>4. \A t \in DOMAIN traces : \A key : key \in LostKeys(of, kept, t) <=>
         key \in KeysIn(of, traces[t]) /\ ~ (t \in DOMAIN kept /\ key \in KeysIn(of, kept[t]))
  BY KeysOfNone DEF LostKeys, Remaining
<1>5. \A key \in DOMAIN index : left(key) = {t \in DOMAIN kept : key \in KeysIn(of, kept[t])}
  BY <1>2, <1>3, <1>4
<1>6. \A key \in DOMAIN index : index[key] # {}
  BY <1>2
<1>7. \A key : key \in D <=> \E t \in DOMAIN kept : key \in KeysIn(of, kept[t])
  <2> SUFFICES ASSUME NEW key
               PROVE  key \in D <=> \E t \in DOMAIN kept : key \in KeysIn(of, kept[t])
    OBVIOUS
  <2>1. (\E t \in DOMAIN kept : key \in KeysIn(of, kept[t])) => key \in DOMAIN index
    BY <1>2, <1>3
  <2>2. key \in D <=> key \in DOMAIN index /\ left(key) # {}
    BY <1>6
  <2> HIDE DEF left, D
  <2> QED  BY <1>5, <2>1, <2>2
<1>8. \A key \in D : key \in DOMAIN index
  OBVIOUS
<1> HIDE DEF D, left
<1>9. \A key \in D : left(key) = {t \in DOMAIN kept : key \in KeysIn(of, kept[t])}
  BY <1>5, <1>8
<1>10. D = UNION {KeysIn(of, kept[t]) : t \in DOMAIN kept}
  BY <1>7
<1> QED  BY <1>1, <1>9, <1>10 DEF ExactFor

LEMMA RebuildIsExact == ASSUME NEW held PROVE ExactFor(RebuildAttrIndex(held), "attr", held)
<1>1. \A spans : KeysIn("attr", spans) = AttrsIn(spans)
  BY DEF KeysIn
<1> QED  BY <1>1 DEF ExactFor, RebuildAttrIndex

-----------------------------------------------------------------------------
(* The spans in the store: shapes with a stamp. *)
Span == {Stamped(shape, seq) : shape \in SpanShapes, seq \in Nat}

LEMMA SpanFields ==
    ASSUME NEW shape \in SpanShapes, NEW seq \in Nat, NEW s, s = Stamped(shape, seq)
    PROVE  /\ s \in Span /\ s.seq = seq /\ s.trace = shape.trace /\ s.ts = shape.ts
           /\ s.ts \in Int
<1>1. {"trace", "ts"} \subseteq DOMAIN shape /\ shape.ts \in Int
  BY TraceConstants
<1>2. s.seq = seq
  BY DEF Stamped
<1>3. s.trace = shape.trace
  BY <1>1 DEF Stamped
<1>4. s.ts = shape.ts
  BY <1>1 DEF Stamped
<1> QED  BY <1>1, <1>2, <1>3, <1>4 DEF Span

LEMMA SpansAreTimed == \A s \in Span : s.ts \in Int /\ s.seq \in Nat
<1> SUFFICES ASSUME NEW s \in Span PROVE s.ts \in Int /\ s.seq \in Nat
  OBVIOUS
<1>1. PICK shape \in SpanShapes, seq \in Nat : s = Stamped(shape, seq)
  BY DEF Span
<1> QED  BY <1>1, SpanFields

UniqueStamps ==
    \A t, u \in DOMAIN traces :
        \A i \in 1 .. Len(traces[t]), j \in 1 .. Len(traces[u]) :
            traces[t][i].seq = traces[u][j].seq => t = u /\ i = j

(* What makes the properties of the trace store inductive: a trace holds
   its own spans, and a stamp tells a span from every other.               *)
SpansInv ==
    /\ IsFiniteSet(DOMAIN traces)
    /\ \A t \in DOMAIN traces :
          /\ traces[t] \in Seq(Span)
          /\ \A i \in 1 .. Len(traces[t]) :
                traces[t][i].trace = t /\ traces[t][i].seq < ingest_seq
    /\ UniqueStamps
    /\ ingest_seq \in Nat

TraceInv == SpansInv /\ IndexesExact

LEMMA TraceVectors ==
    ASSUME SpansInv
    PROVE  /\ \A t \in DOMAIN traces : /\ traces[t] \in Seq(Span) /\ Len(traces[t]) \in Nat
                                       /\ DOMAIN traces[t] = 1 .. Len(traces[t])
           /\ IsFiniteSet(Slots(traces)) /\ CountItems(traces) \in Nat
<1>1. \A t \in DOMAIN traces : /\ traces[t] \in Seq(Span) /\ Len(traces[t]) \in Nat
                               /\ DOMAIN traces[t] = 1 .. Len(traces[t])
  BY DEF SpansInv
<1>2. IsFiniteSet(Slots(traces))
  <2>1. \A t \in DOMAIN traces : \E n \in Nat : DOMAIN traces[t] = 1 .. n
    BY <1>1
  <2> QED  BY <2>1, SlotsFinite DEF SpansInv
<1> QED  BY <1>1, <1>2, FS_CardinalityType DEF CountItems

LEMMA TraceInvInit == Init => TraceInv
<1> SUFFICES ASSUME Init PROVE TraceInv
  OBVIOUS
<1>1. /\ DOMAIN traces = {} /\ ingest_seq = 0 /\ total_spans = 0
      /\ service_index = NoIndex /\ name_index = NoIndex
      /\ status_index = NoIndex /\ attr_index = NoIndex
  BY DEF Init, NoTraces
<1>2. Slots(traces) = {}
  BY <1>1 DEF Slots
<1>3. total_spans = CountItems(traces)
  BY <1>1, <1>2, FS_EmptySet DEF CountItems
<1>4. \A of : IndexExact(NoIndex, of)
  BY <1>1 DEF IndexExact, NoIndex
<1>5. SpansInv
  BY <1>1, FS_EmptySet DEF SpansInv, UniqueStamps
<1>6. IndexesExact
  BY <1>1, <1>3, <1>4 DEF IndexesExact
<1> QED  BY <1>5, <1>6 DEF TraceInv

-----------------------------------------------------------------------------
(* The spans of one trace in a batch: each is a span of the batch, stamped
   with the number of its place.                                           *)
ComesFrom(batch, t, from, s) ==
    /\ \A i \in 1 .. Len(s) : /\ from[i] \in 1 .. Len(batch) /\ batch[from[i]].trace = t
                              /\ s[i] = Stamped(batch[from[i]], ingest_seq + from[i] - 1)
    /\ \A i, j \in 1 .. Len(s) : from[i] = from[j] => i = j

LEMMA BatchFields ==
    ASSUME NEW batch \in Batches
    PROVE  /\ Len(batch) \in Nat /\ DOMAIN batch = 1 .. Len(batch)
           /\ \A i \in 1 .. Len(batch) : batch[i] \in SpanShapes
<1>1. PICK k \in 1 .. MaxBatch : batch \in [1 .. k -> SpanShapes]
  BY DEF Batches
<1>2. k \in Nat /\ Len(batch) = k /\ DOMAIN batch = 1 .. k
  BY <1>1, TraceConstants
<1> QED  BY <1>1, <1>2

LEMMA SpansOfTraceCome ==
    ASSUME NEW batch \in Batches, ingest_seq \in Nat, NEW t \in {batch[i].trace : i \in DOMAIN batch},
           NEW s, s = SpansOfTrace(batch, t)
    PROVE  /\ s \in Seq(Span) /\ Len(s) \in Nat /\ Len(s) >= 1
           /\ \E from : ComesFrom(batch, t, from, s)
<1> DEFINE n == Len(batch)
           keep == {i \in DOMAIN batch : batch[i].trace = t}
           k == Cardinality(keep)
           stamped == [i \in DOMAIN batch |-> Stamped(batch[i], ingest_seq + i - 1)]
<1>1. n \in Nat /\ DOMAIN batch = 1 .. n /\ \A i \in 1 .. n : batch[i] \in SpanShapes
  BY BatchFields
<1>2. s = ItemsAt(stamped, keep) /\ keep \in SUBSET (1 .. n)
  BY <1>1 DEF SpansOfTrace
<1>3. \A i \in 1 .. n : stamped[i] = Stamped(batch[i], ingest_seq + i - 1) /\ stamped[i] \in Span
  <2> SUFFICES ASSUME NEW i \in 1 .. n
               PROVE  /\ stamped[i] = Stamped(batch[i], ingest_seq + i - 1)
                      /\ Stamped(batch[i], ingest_seq + i - 1) \in Span
    OBVIOUS
  <2>1. ingest_seq + i - 1 \in Nat /\ batch[i] \in SpanShapes
    BY <1>1
  <2> QED  BY <1>1, <2>1, SpanFields
<1>4. \A i \in keep : i \in 1 .. n /\ batch[i].trace = t
  BY <1>1
<1>5. keep # {}
  OBVIOUS
<1> HIDE DEF stamped, keep, n
<1>6. IsFiniteSet(keep) /\ k \in Nat /\ \E from : Selects(from, stamped, keep, s)
  BY <1>1, <1>2, ItemsAtKept
<1>7. PICK from : Selects(from, stamped, keep, s)
  BY <1>6
<1>8. /\ \A r \in 1 .. k : from[r] \in keep
      /\ \A r, q \in 1 .. k : from[r] = from[q] => r = q
      /\ s = [r \in 1 .. k |-> stamped[from[r]]]
  BY <1>7 DEF Selects, Bijection, Injection, IsInjective, Surjection
<1>9. k # 0
  BY <1>5, <1>6, FS_EmptySet
<1> HIDE DEF k
<1>10. \A r \in 1 .. k : stamped[from[r]] \in Span /\ from[r] \in 1 .. n
  BY <1>3, <1>4, <1>8
<1>11. s \in Seq(Span) /\ Len(s) = k
  BY <1>6, <1>8, <1>10
<1>12. ComesFrom(batch, t, from, s)
  <2>1. \A i \in 1 .. k : /\ from[i] \in 1 .. Len(batch) /\ batch[from[i]].trace = t
                          /\ s[i] = Stamped(batch[from[i]], ingest_seq + from[i] - 1)
    BY <1>3, <1>4, <1>8, <1>10 DEF n
  <2> QED  BY <1>8, <1>11, <2>1 DEF ComesFrom
<1> QED  BY <1>6, <1>9, <1>11, <1>12

(* What ingest_spans makes of the traces. *)
Arrive(arrived) ==
    /\ DOMAIN traces' = DOMAIN traces \cup DOMAIN arrived
    /\ \A t \in DOMAIN traces' :
          /\ traces'[t] \in Seq(Span)
          /\ Len(traces'[t]) = LenAt(traces, t) + LenAt(arrived, t)
          /\ \A i \in 1 .. Len(traces'[t]) :
                \/ t \in DOMAIN traces /\ i \in 1 .. Len(traces[t]) /\ traces'[t][i] = traces[t][i]
                \/ /\ t \in DOMAIN arrived /\ i - LenAt(traces, t) \in 1 .. Len(arrived[t])
                   /\ traces'[t][i] = arrived[t][i - LenAt(traces, t)]

LEMMA IngestSpansArrive ==
    ASSUME SpansInv, NEW arrived, \A t \in DOMAIN arrived : arrived[t] \in Seq(Span),
           IngestSpans(arrived)
    PROVE  Arrive(arrived)
<1> DEFINE old(t) == IF t \in DOMAIN traces THEN traces[t] ELSE << >>
           new(t) == IF t \in DOMAIN arrived THEN arrived[t] ELSE << >>
<1>1. traces' = [t \in DOMAIN traces \cup DOMAIN arrived |-> old(t) \o new(t)]
  BY DEF IngestSpans
<1>2. \A t : old(t) \in Seq(Span) /\ Len(old(t)) = LenAt(traces, t)
  BY DEF SpansInv, LenAt
<1>3. \A t : new(t) \in Seq(Span) /\ Len(new(t)) = LenAt(arrived, t)
  BY DEF LenAt
<1>4. \A t : (t \in DOMAIN traces => old(t) = traces[t]) /\ (t \notin DOMAIN traces => LenAt(traces, t) = 0)
  BY DEF LenAt
<1>5. \A t : (t \in DOMAIN arrived => new(t) = arrived[t]) /\ (t \notin DOMAIN arrived => LenAt(arrived, t) = 0)
  BY DEF LenAt
<1> HIDE DEF old, new
<1>6. DOMAIN traces' = DOMAIN traces \cup DOMAIN arrived
  BY <1>1
<1>7. ASSUME NEW t \in DOMAIN traces'
      PROVE  /\ traces'[t] \in Seq(Span)
             /\ Len(traces'[t]) = LenAt(traces, t) + LenAt(arrived, t)
             /\ \A i \in 1 .. Len(traces'[t]) :
                   \/ t \in DOMAIN traces /\ i \in 1 .. Len(traces[t]) /\ traces'[t][i] = traces[t][i]
                   \/ /\ t \in DOMAIN arrived /\ i - LenAt(traces, t) \in 1 .. Len(arrived[t])
                      /\ traces'[t][i] = arrived[t][i - LenAt(traces, t)]
  <2> DEFINE a == old(t)
             b == new(t)
             s == a \o b
  <2>1. traces'[t] = s
    BY <1>1
  <2>2. a \in Seq(Span) /\ b \in Seq(Span) /\ Len(a) = LenAt(traces, t) /\ Len(b) = LenAt(arrived, t)
    BY <1>2, <1>3
  <2>3. /\ t \in DOMAIN traces => a = traces[t]
        /\ t \notin DOMAIN traces => Len(a) = 0
        /\ t \in DOMAIN arrived => b = arrived[t]
        /\ t \notin DOMAIN arrived => Len(b) = 0
    BY <1>4, <1>5, <2>2
  <2> HIDE DEF a, b
  <2>4. /\ s \in Seq(Span) /\ Len(s) = Len(a) + Len(b)
        /\ \A i \in 1 .. Len(s) : s[i] = IF i <= Len(a) THEN a[i] ELSE b[i - Len(a)]
    BY <2>2, ConcatProperties, Zenon
  <2> HIDE DEF s
  <2>5. Len(a) \in Nat /\ Len(b) \in Nat
    BY <2>2
  <2>6. ASSUME NEW i \in 1 .. Len(s)
        PROVE  \/ t \in DOMAIN traces /\ i \in 1 .. Len(traces[t]) /\ s[i] = traces[t][i]
               \/ /\ t \in DOMAIN arrived /\ i - LenAt(traces, t) \in 1 .. Len(arrived[t])
                  /\ s[i] = arrived[t][i - LenAt(traces, t)]
    <3>1. i \in Int /\ 1 <= i /\ i <= Len(a) + Len(b)
      BY <2>4, <2>5
    <3>2. CASE i <= Len(a)
      BY <2>3, <2>4, <2>5, <3>1, <3>2
    <3>3. CASE ~ (i <= Len(a))
      <4>1. i - Len(a) \in 1 .. Len(b) /\ Len(b) # 0
        BY <2>5, <3>1, <3>3
      <4>2. s[i] = b[i - Len(a)]
        BY <2>4, <3>3
      <4> QED  BY <2>2, <2>3, <4>1, <4>2
    <3> QED  BY <3>2, <3>3
  <2> QED  BY <2>1, <2>2, <2>4, <2>6
<1> QED  BY <1>6, <1>7 DEF Arrive
(* The stamp of a span of the batch tells its place in the batch. *)
LEMMA StampOfNew ==
    ASSUME NEW batch \in Batches, ingest_seq \in Nat, NEW t, NEW from, NEW s,
           ComesFrom(batch, t, from, s), NEW k \in 1 .. Len(s)
    PROVE  /\ from[k] \in 1 .. Len(batch) /\ batch[from[k]].trace = t /\ s[k].trace = t
           /\ s[k].seq = ingest_seq + from[k] - 1 /\ s[k].seq \in Nat
           /\ s[k].seq >= ingest_seq /\ s[k].seq < ingest_seq + Len(batch)
<1> DEFINE p == from[k]
           seq == ingest_seq + p - 1
<1>1. p \in 1 .. Len(batch) /\ batch[p].trace = t /\ s[k] = Stamped(batch[p], seq)
  BY DEF ComesFrom
<1>2. Len(batch) \in Nat /\ batch[p] \in SpanShapes
  BY <1>1, BatchFields
<1>3. seq \in Nat /\ seq >= ingest_seq /\ seq < ingest_seq + Len(batch)
  BY <1>1, <1>2
<1> HIDE DEF seq
<1>4. s[k].seq = seq /\ s[k].trace = batch[p].trace
  BY <1>1, <1>2, <1>3, SpanFields
<1> QED  BY <1>1, <1>3, <1>4 DEF seq

(* The batch as ingest_traces groups it. *)
Grouped(batch, arrived) ==
    /\ DOMAIN arrived = {batch[i].trace : i \in DOMAIN batch}
    /\ \A t \in DOMAIN arrived :
          /\ arrived[t] \in Seq(Span) /\ Len(arrived[t]) >= 1
          /\ \E from : ComesFrom(batch, t, from, arrived[t])

Incoming(batch, arrived) ==
    /\ IngestSpans(arrived) /\ ingest_seq' = ingest_seq + Len(batch)
    /\ Grouped(batch, arrived) /\ Arrive(arrived)

LEMMA IngestGroups ==
    ASSUME SpansInv, Ingest
    PROVE  \E batch \in Batches : \E arrived : Incoming(batch, arrived)
<1>1. PICK batch \in Batches :
         /\ ingest_seq' = ingest_seq + Len(batch)
         /\ IngestSpans([t \in {batch[i].trace : i \in DOMAIN batch} |-> SpansOfTrace(batch, t)])
  BY DEF Ingest
<1> DEFINE T == {batch[i].trace : i \in DOMAIN batch}
           arrived == [t \in T |-> SpansOfTrace(batch, t)]
<1>2. DOMAIN arrived = T
  OBVIOUS
<1>3. ASSUME NEW t \in T
      PROVE  /\ arrived[t] \in Seq(Span) /\ Len(arrived[t]) >= 1
             /\ \E from : ComesFrom(batch, t, from, arrived[t])
  <2> DEFINE s == SpansOfTrace(batch, t)
  <2>1. arrived[t] = s
    OBVIOUS
  <2>2. s = SpansOfTrace(batch, t) /\ ingest_seq \in Nat
    BY DEF SpansInv
  <2> HIDE DEF s, arrived
  <2>3. s \in Seq(Span) /\ Len(s) >= 1 /\ \E from : ComesFrom(batch, t, from, s)
    BY <2>2, SpansOfTraceCome
  <2> QED  BY <2>1, <2>3
<1>4. IngestSpans(arrived)
  BY <1>1
<1> HIDE DEF arrived
<1>5. Grouped(batch, arrived)
  BY <1>2, <1>3 DEF Grouped
<1>6. Arrive(arrived)
  BY <1>4, <1>5, IngestSpansArrive DEF Grouped
<1> QED  BY <1>1, <1>4, <1>5, <1>6 DEF Incoming

(* A span after an ingest is an old one or one of the batch. *)
LEMMA SpanAfterIngest ==
    ASSUME SpansInv, NEW batch \in Batches, NEW arrived, Incoming(batch, arrived),
           NEW t \in DOMAIN traces', NEW i \in 1 .. Len(traces'[t])
    PROVE  \/ /\ t \in DOMAIN traces /\ i \in 1 .. Len(traces[t])
              /\ traces'[t][i] = traces[t][i]
              /\ traces'[t][i].trace = t /\ traces'[t][i].seq < ingest_seq
           \/ /\ t \in DOMAIN arrived /\ i - LenAt(traces, t) \in 1 .. Len(arrived[t])
              /\ traces'[t][i] = arrived[t][i - LenAt(traces, t)]
              /\ traces'[t][i].trace = t /\ traces'[t][i].seq >= ingest_seq
              /\ traces'[t][i].seq < ingest_seq'
<1>1. CASE t \in DOMAIN traces /\ i \in 1 .. Len(traces[t]) /\ traces'[t][i] = traces[t][i]
  BY <1>1 DEF SpansInv
<1>2. CASE /\ t \in DOMAIN arrived /\ i - LenAt(traces, t) \in 1 .. Len(arrived[t])
           /\ traces'[t][i] = arrived[t][i - LenAt(traces, t)]
  <2> DEFINE k == i - LenAt(traces, t)
             s == arrived[t]
  <2>1. PICK from : ComesFrom(batch, t, from, s)
    BY <1>2 DEF Incoming, Grouped
  <2>2. k \in 1 .. Len(s) /\ traces'[t][i] = s[k] /\ ingest_seq \in Nat
    BY <1>2 DEF SpansInv
  <2> HIDE DEF k, s
  <2>3. s[k].trace = t /\ s[k].seq >= ingest_seq /\ s[k].seq < ingest_seq + Len(batch)
    BY <2>1, <2>2, StampOfNew
  <2> QED  BY <1>2, <2>2, <2>3 DEF Incoming
<1> QED  BY <1>1, <1>2 DEF Incoming, Arrive

LEMMA IngestKeepsStamps ==
    ASSUME SpansInv, NEW batch \in Batches, NEW arrived, Incoming(batch, arrived)
    PROVE  UniqueStamps'
<1> SUFFICES ASSUME NEW t \in DOMAIN traces', NEW u \in DOMAIN traces',
                    NEW i \in 1 .. Len(traces'[t]), NEW j \in 1 .. Len(traces'[u]),
                    traces'[t][i].seq = traces'[u][j].seq
             PROVE  t = u /\ i = j
  BY DEF UniqueStamps
<1> DEFINE Old(v, k) == /\ v \in DOMAIN traces /\ k \in 1 .. Len(traces[v])
                        /\ traces'[v][k] = traces[v][k]
           place(v, k) == k - LenAt(traces, v)
           New(v, k) == /\ v \in DOMAIN arrived /\ place(v, k) \in 1 .. Len(arrived[v])
                        /\ traces'[v][k] = arrived[v][place(v, k)]
<1>1. ingest_seq \in Nat
  BY DEF SpansInv
<1>2. traces'[t][i].seq \in Int
  <2>1. traces'[t][i] \in Span
    BY DEF Incoming, Arrive
  <2> QED  BY <2>1, SpansAreTimed
<1>3. \/ Old(t, i) /\ traces'[t][i].seq < ingest_seq
      \/ New(t, i) /\ traces'[t][i].seq >= ingest_seq
  BY SpanAfterIngest
<1>4. \/ Old(u, j) /\ traces'[u][j].seq < ingest_seq
      \/ New(u, j) /\ traces'[u][j].seq >= ingest_seq
  BY SpanAfterIngest
<1> HIDE DEF place
<1>5. CASE Old(t, i) /\ Old(u, j)
  BY <1>5 DEF SpansInv, UniqueStamps
<1>6. CASE New(t, i) /\ New(u, j)
  <2>1. PICK from : ComesFrom(batch, t, from, arrived[t])
    BY <1>6 DEF Incoming, Grouped
  <2>2. PICK other : ComesFrom(batch, u, other, arrived[u])
    BY <1>6 DEF Incoming, Grouped
  <2> DEFINE p == from[place(t, i)]
             q == other[place(u, j)]
  <2>3. p \in 1 .. Len(batch) /\ batch[p].trace = t /\ traces'[t][i].seq = ingest_seq + p - 1
    <3> DEFINE k == place(t, i)
               s == arrived[t]
    <3>1. k \in 1 .. Len(s) /\ traces'[t][i] = s[k] /\ ComesFrom(batch, t, from, s)
      BY <1>6, <2>1
    <3> HIDE DEF k, s
    <3>2. /\ from[k] \in 1 .. Len(batch) /\ batch[from[k]].trace = t
          /\ s[k].seq = ingest_seq + from[k] - 1
      BY <1>1, <3>1, StampOfNew
    <3> QED  BY <3>1, <3>2 DEF k
  <2>4. q \in 1 .. Len(batch) /\ batch[q].trace = u /\ traces'[u][j].seq = ingest_seq + q - 1
    <3> DEFINE k == place(u, j)
               s == arrived[u]
    <3>1. k \in 1 .. Len(s) /\ traces'[u][j] = s[k] /\ ComesFrom(batch, u, other, s)
      BY <1>6, <2>2
    <3> HIDE DEF k, s
    <3>2. /\ other[k] \in 1 .. Len(batch) /\ batch[other[k]].trace = u
          /\ s[k].seq = ingest_seq + other[k] - 1
      BY <1>1, <3>1, StampOfNew
    <3> QED  BY <3>1, <3>2 DEF k
  <2>5. Len(batch) \in Nat
    BY BatchFields
  <2> HIDE DEF p, q
  <2>6. p = q /\ t = u
    <3>1. ingest_seq + p - 1 = ingest_seq + q - 1
      BY <2>3, <2>4
    <3>2. p \in Int /\ q \in Int
      BY <2>3, <2>4, <2>5
    <3>3. p = q
      BY <1>1, <3>1, <3>2
    <3> QED  BY <2>3, <2>4, <3>3
  <2>7. traces'[u][j].seq = ingest_seq + from[place(u, j)] - 1 /\ from[place(u, j)] \in 1 .. Len(batch)
    <3> DEFINE k == place(u, j)
               s == arrived[u]
    <3>1. k \in 1 .. Len(s) /\ traces'[u][j] = s[k] /\ ComesFrom(batch, u, from, s)
      BY <1>6, <2>1, <2>6
    <3> HIDE DEF k, s
    <3>2. /\ from[k] \in 1 .. Len(batch) /\ batch[from[k]].trace = u
          /\ s[k].seq = ingest_seq + from[k] - 1
      BY <1>1, <3>1, StampOfNew
    <3> QED  BY <3>1, <3>2 DEF k
  <2>8. p = from[place(u, j)]
    <3>1. ingest_seq + p - 1 = ingest_seq + from[place(u, j)] - 1
      BY <2>3, <2>7
    <3>2. p \in Int /\ from[place(u, j)] \in Int
      BY <2>3, <2>5, <2>7
    <3> QED  BY <1>1, <3>1, <3>2
  <2>9. place(t, i) = place(t, j)
    BY <1>6, <2>1, <2>6, <2>8 DEF ComesFrom, p
  <2>10. /\ LenAt(traces, t) \in Nat /\ i \in Int /\ j \in Int
    BY <2>6 DEF SpansInv, LenAt, Incoming, Arrive
  <2> QED  BY <2>6, <2>9, <2>10 DEF place
<1> HIDE DEF Old, New
<1> QED  BY <1>1, <1>2, <1>3, <1>4, <1>5, <1>6
LEMMA ArrivedFinite ==
    ASSUME NEW batch \in Batches, NEW arrived, Grouped(batch, arrived)
    PROVE  IsFiniteSet(DOMAIN arrived) /\ IsFiniteSet(Slots(arrived)) /\ AreVectors(arrived)
<1> DEFINE T == {batch[i].trace : i \in DOMAIN batch}
           trace == [i \in 1 .. Len(batch) |-> batch[i].trace]
<1>1. Len(batch) \in Nat /\ DOMAIN batch = 1 .. Len(batch)
  BY BatchFields
<1>2. trace \in Surjection(1 .. Len(batch), T)
  BY <1>1 DEF Surjection
<1> HIDE DEF trace, T
<1>3. IsFiniteSet(T)
  BY <1>1, <1>2, IntervalCount, FS_Surjection
<1>4. IsFiniteSet(DOMAIN arrived)
  BY <1>3 DEF Grouped, T
<1>5. AreVectors(arrived)
  BY DEF Grouped, AreVectors
<1>6. IsFiniteSet(Slots(arrived))
  <2>1. \A t \in DOMAIN arrived : \E n \in Nat : DOMAIN arrived[t] = 1 .. n
    BY <1>5 DEF AreVectors
  <2> QED  BY <1>4, <2>1, SlotsFinite
<1> QED  BY <1>4, <1>5, <1>6

LEMMA IngestKeepsSpans ==
    ASSUME SpansInv, NEW batch \in Batches, NEW arrived, Incoming(batch, arrived)
    PROVE  SpansInv'
<1>1. IsFiniteSet(DOMAIN traces')
  <2>1. IsFiniteSet(DOMAIN arrived) /\ IsFiniteSet(DOMAIN traces)
    BY ArrivedFinite DEF Incoming, SpansInv
  <2>2. IsFiniteSet(DOMAIN traces \cup DOMAIN arrived)
    BY <2>1, FS_Union
  <2>3. DOMAIN traces' = DOMAIN traces \cup DOMAIN arrived
    BY DEF Incoming, Arrive
  <2> QED  BY <2>2, <2>3
<1>2. \A t \in DOMAIN traces' : traces'[t] \in Seq(Span)
  BY DEF Incoming, Arrive
<1>3. ingest_seq' \in Nat /\ ingest_seq \in Nat /\ ingest_seq' >= ingest_seq
  <2>1. Len(batch) \in Nat
    BY BatchFields
  <2> QED  BY <2>1 DEF Incoming, SpansInv
<1>4. ASSUME NEW t \in DOMAIN traces', NEW i \in 1 .. Len(traces'[t])
      PROVE  traces'[t][i].trace = t /\ traces'[t][i].seq < ingest_seq'
  <2>1. traces'[t][i].seq \in Int
    <3>1. traces'[t][i] \in Span
      BY <1>2
    <3> QED  BY <3>1, SpansAreTimed
  <2>2. /\ traces'[t][i].trace = t
        /\ traces'[t][i].seq < ingest_seq \/ traces'[t][i].seq < ingest_seq'
    BY SpanAfterIngest
  <2> QED  BY <1>3, <2>1, <2>2
<1>5. UniqueStamps'
  BY IngestKeepsStamps
<1> QED  BY <1>1, <1>2, <1>3, <1>4, <1>5 DEF SpansInv

(* The keys of a trace after an ingest are those it had and those it got. *)
LEMMA KeysArrive ==
    ASSUME SpansInv, NEW batch \in Batches, NEW arrived, Incoming(batch, arrived),
           NEW of \in Indexes, NEW t \in DOMAIN traces'
    PROVE  KeysIn(of, traces'[t]) =
              (IF t \in DOMAIN traces THEN KeysIn(of, traces[t]) ELSE {})
                 \cup (IF t \in DOMAIN arrived THEN KeysIn(of, arrived[t]) ELSE {})
<1> DEFINE a == IF t \in DOMAIN traces THEN traces[t] ELSE << >>
           b == IF t \in DOMAIN arrived THEN arrived[t] ELSE << >>
<1>1. traces'[t] = a \o b
  BY DEF Incoming, IngestSpans
<1>2. a \in Seq(Span) /\ b \in Seq(Span)
  BY DEF SpansInv, Incoming, Grouped
<1>3. KeysIn(of, a) = IF t \in DOMAIN traces THEN KeysIn(of, traces[t]) ELSE {}
  BY KeysOfNone
<1>4. KeysIn(of, b) = IF t \in DOMAIN arrived THEN KeysIn(of, arrived[t]) ELSE {}
  BY KeysOfNone
<1> HIDE DEF a, b
<1>5. KeysIn(of, a \o b) = KeysIn(of, a) \cup KeysIn(of, b)
  BY <1>2, KeysOfJoined
<1> QED  BY <1>1, <1>3, <1>4, <1>5

LEMMA IngestKeepsIndex ==
    ASSUME SpansInv, NEW batch \in Batches, NEW arrived, Incoming(batch, arrived),
           NEW of \in Indexes, NEW index, ExactFor(index, of, traces)
    PROVE  ExactFor(AddToIndex(index, of, arrived), of, traces')
<1> DEFINE grown == traces'
<1>1. DOMAIN grown = DOMAIN traces \cup DOMAIN arrived
  BY DEF Incoming, Arrive
<1>2. \A t \in DOMAIN grown : KeysIn(of, grown[t]) =
              (IF t \in DOMAIN traces THEN KeysIn(of, traces[t]) ELSE {})
                 \cup (IF t \in DOMAIN arrived THEN KeysIn(of, arrived[t]) ELSE {})
  BY KeysArrive
<1> HIDE DEF grown
<1>3. ExactFor(AddToIndex(index, of, arrived), of, grown)
  BY <1>1, <1>2, AddKeepsExact
<1> QED  BY <1>3 DEF grown

LEMMA IngestKeepsTraceInv == TraceInv /\ Ingest => TraceInv'
<1> SUFFICES ASSUME TraceInv, Ingest PROVE TraceInv'
  OBVIOUS
<1>1. SpansInv /\ IndexesExact
  BY DEF TraceInv
<1>2. PICK batch \in Batches : \E arrived : Incoming(batch, arrived)
  BY <1>1, IngestGroups
<1>3. PICK arrived : Incoming(batch, arrived)
  BY <1>2
<1>4. SpansInv'
  BY <1>1, <1>3, IngestKeepsSpans
<1>5. /\ ExactFor(service_index, "service", traces) /\ ExactFor(name_index, "name", traces)
      /\ ExactFor(status_index, "status", traces) /\ ExactFor(attr_index, "attr", traces)
  BY <1>1 DEF IndexesExact, IndexExact, ExactFor
<1>6. "service" \in Indexes /\ "name" \in Indexes /\ "status" \in Indexes /\ "attr" \in Indexes
  BY DEF Indexes
<1>7. /\ ExactFor(service_index', "service", traces') /\ ExactFor(name_index', "name", traces')
      /\ ExactFor(status_index', "status", traces') /\ ExactFor(attr_index', "attr", traces')
  <2>1. /\ service_index' = AddToIndex(service_index, "service", arrived)
        /\ name_index' = AddToIndex(name_index, "name", arrived)
        /\ status_index' = AddToIndex(status_index, "status", arrived)
        /\ attr_index' = AddToIndex(attr_index, "attr", arrived)
    BY <1>3 DEF Incoming, IngestSpans
  <2> QED  BY <1>1, <1>3, <1>5, <1>6, <2>1, IngestKeepsIndex
<1>8. \A t \in DOMAIN traces' : traces'[t] # << >>
  <2> SUFFICES ASSUME NEW t \in DOMAIN traces', Len(traces'[t]) = 0 PROVE FALSE
    OBVIOUS
  <2>1. LenAt(traces, t) + LenAt(arrived, t) = 0 /\ (t \in DOMAIN traces \/ t \in DOMAIN arrived)
    BY <1>3 DEF Incoming, Arrive
  <2>2. LenAt(traces, t) \in Nat /\ (t \in DOMAIN traces => LenAt(traces, t) # 0)
    BY <1>1 DEF SpansInv, IndexesExact, LenAt
  <2>3. LenAt(arrived, t) \in Nat /\ (t \in DOMAIN arrived => LenAt(arrived, t) # 0)
    BY <1>3 DEF Incoming, Grouped, LenAt
  <2> QED  BY <2>1, <2>2, <2>3
<1>9. total_spans' = CountItems(traces')
  <2>1. AreVectors(traces) /\ IsFiniteSet(Slots(traces)) /\ CountItems(traces) \in Nat
    BY <1>1, TraceVectors DEF AreVectors
  <2>2. AreVectors(arrived) /\ IsFiniteSet(Slots(arrived))
    BY <1>3, ArrivedFinite DEF Incoming
  <2> DEFINE grown == traces'
  <2>3. Joins(traces, arrived, grown)
    BY <1>3 DEF Incoming, Arrive, Joins
  <2> HIDE DEF grown
  <2>4. CountItems(grown) = CountItems(traces) + CountItems(arrived)
    BY <2>1, <2>2, <2>3, AllGrow
  <2>5. total_spans' = total_spans + CountItems(arrived) /\ total_spans = CountItems(traces)
    BY <1>1, <1>3 DEF Incoming, IngestSpans, IndexesExact
  <2> QED  BY <2>4, <2>5 DEF grown
<1>10. IndexesExact'
  BY <1>7, <1>8, <1>9 DEF IndexesExact, IndexExact, ExactFor
<1> QED  BY <1>4, <1>10 DEF TraceInv
-----------------------------------------------------------------------------
(* `out` has some of the items of s, each at most once. *)
PicksFrom(s, from, out) ==
    /\ \A i \in 1 .. Len(out) : from[i] \in 1 .. Len(s) /\ out[i] = s[from[i]]
    /\ \A i, j \in 1 .. Len(out) : from[i] = from[j] => i = j

(* What an eviction or a reset leaves: some of the spans of some traces, and
   no trace without a span.                                                *)
Fewer(held, kept) ==
    /\ DOMAIN kept \subseteq DOMAIN held
    /\ \A t \in DOMAIN kept :
          /\ kept[t] \in Seq(Span) /\ kept[t] # << >> /\ Len(kept[t]) <= Len(held[t])
          /\ \E from : PicksFrom(held[t], from, kept[t])

LEMMA RetainPicks ==
    ASSUME NEW s \in Seq(Span), NEW keep \in SUBSET DOMAIN s, NEW out, out = ItemsAt(s, keep)
    PROVE  /\ out \in Seq(Span) /\ Len(out) <= Len(s)
           /\ \E from : PicksFrom(s, from, out)
           /\ SpansIn(out) = {s[i] : i \in keep}
<1> DEFINE k == Cardinality(keep)
<1>1. /\ out \in Seq(Span) /\ Len(out) <= Len(s)
      /\ {out[r] : r \in DOMAIN out} = {s[i] : i \in keep}
  <2>1. /\ ItemsAt(s, keep) \in Seq(Span)
        /\ Len(ItemsAt(s, keep)) <= Len(s)
        /\ {ItemsAt(s, keep)[r] : r \in DOMAIN ItemsAt(s, keep)} = {s[i] : i \in keep}
    BY ONLY s \in Seq(Span), keep \in SUBSET DOMAIN s, ItemsAtElements
  <2> QED  BY <2>1
<1>2. Len(s) \in Nat /\ keep \in SUBSET (1 .. Len(s))
  OBVIOUS
<1>3. k \in Nat /\ \E from : Selects(from, s, keep, out)
  BY <1>2, ItemsAtKept
<1>4. PICK from : Selects(from, s, keep, out)
  BY <1>3
<1>5. /\ \A r \in 1 .. k : from[r] \in keep
      /\ \A r, q \in 1 .. k : from[r] = from[q] => r = q
      /\ out = [r \in 1 .. k |-> s[from[r]]]
  BY <1>4 DEF Selects, Bijection, Injection, IsInjective, Surjection
<1> HIDE DEF k
<1>6. Len(out) = k
  BY <1>1, <1>3, <1>5
<1>7. PicksFrom(s, from, out)
  BY <1>2, <1>5, <1>6 DEF PicksFrom
<1> QED  BY <1>1, <1>7 DEF SpansIn

LEMMA AllPicked ==
    ASSUME NEW s \in Seq(Span)
    PROVE  Len(s) <= Len(s) /\ \E from : PicksFrom(s, from, s)
<1> DEFINE from == [i \in 1 .. Len(s) |-> i]
<1>1. PicksFrom(s, from, s)
  BY DEF PicksFrom
<1> QED  BY <1>1

LEMMA FewerIsFewerSpans ==
    ASSUME SpansInv, NEW kept, Fewer(traces, kept)
    PROVE  /\ FewerSpans(traces, kept)
           /\ IsFiniteSet(DOMAIN kept) /\ IsFiniteSet(Slots(kept))
           /\ CountItems(kept) \in Nat /\ CountItems(traces) \in Nat
           /\ CountItems(kept) <= CountItems(traces)
<1>1. \A t \in DOMAIN kept : /\ t \in DOMAIN traces
                             /\ traces[t] \in Seq(Span) /\ kept[t] \in Seq(Span)
                             /\ Len(kept[t]) <= Len(traces[t])
  BY DEF Fewer, SpansInv
<1>2. FewerSpans(traces, kept)
  <2> SUFFICES ASSUME NEW t \in DOMAIN kept, NEW i \in DOMAIN kept[t]
               PROVE  \E j \in DOMAIN traces[t] : kept[t][i] = traces[t][j]
    BY DEF FewerSpans, Fewer
  <2>1. PICK from : PicksFrom(traces[t], from, kept[t])
    BY DEF Fewer
  <2>2. i \in 1 .. Len(kept[t]) /\ DOMAIN traces[t] = 1 .. Len(traces[t])
    BY <1>1
  <2> QED  BY <2>1, <2>2 DEF PicksFrom
<1>3. \A t \in DOMAIN kept : DOMAIN kept[t] \subseteq DOMAIN traces[t]
  <2> SUFFICES ASSUME NEW t \in DOMAIN kept PROVE DOMAIN kept[t] \subseteq DOMAIN traces[t]
    OBVIOUS
  <2>1. /\ DOMAIN kept[t] = 1 .. Len(kept[t]) /\ DOMAIN traces[t] = 1 .. Len(traces[t])
        /\ Len(kept[t]) \in Nat /\ Len(traces[t]) \in Nat /\ Len(kept[t]) <= Len(traces[t])
    BY <1>1
  <2> QED  BY <2>1
<1>4. IsFiniteSet(DOMAIN kept)
  BY FS_Subset DEF Fewer, SpansInv
<1>5. IsFiniteSet(Slots(traces))
  BY TraceVectors
<1>6. DOMAIN kept \subseteq DOMAIN traces
  BY DEF Fewer
<1> QED  BY <1>2, <1>3, <1>4, <1>5, <1>6, FewerSlots

(* No two positions of `held` have spans with the same stamp. *)
Distinct(held) ==
    \A t, u \in DOMAIN held :
        \A i \in 1 .. Len(held[t]), j \in 1 .. Len(held[u]) :
            held[t][i].seq = held[u][j].seq => t = u /\ i = j

LEMMA FewerStayDistinct ==
    ASSUME SpansInv, NEW kept, Fewer(traces, kept) PROVE Distinct(kept)
<1>1. ASSUME NEW t \in DOMAIN kept, NEW u \in DOMAIN kept,
             NEW i \in 1 .. Len(kept[t]), NEW j \in 1 .. Len(kept[u]),
             kept[t][i].seq = kept[u][j].seq
      PROVE  t = u /\ i = j
  <2>1. PICK from : PicksFrom(traces[t], from, kept[t])
    BY DEF Fewer
  <2>2. PICK other : PicksFrom(traces[u], other, kept[u])
    BY DEF Fewer
  <2>3. /\ t \in DOMAIN traces /\ from[i] \in 1 .. Len(traces[t]) /\ kept[t][i] = traces[t][from[i]]
        /\ u \in DOMAIN traces /\ other[j] \in 1 .. Len(traces[u]) /\ kept[u][j] = traces[u][other[j]]
    BY <2>1, <2>2 DEF PicksFrom, Fewer
  <2>4. traces[t][from[i]].seq = traces[u][other[j]].seq
    BY <1>1, <2>3
  <2>5. UniqueStamps
    BY DEF SpansInv
  <2>6. t = u
    BY <2>3, <2>4, <2>5 DEF UniqueStamps
  <2>7. from[j] \in 1 .. Len(traces[t]) /\ kept[t][j] = traces[t][from[j]]
    BY <2>1, <2>6 DEF PicksFrom
  <2>8. from[i] = from[j]
    BY <1>1, <2>3, <2>5, <2>6, <2>7 DEF UniqueStamps
  <2> QED  BY <2>1, <2>6, <2>8 DEF PicksFrom
<1> QED  BY <1>1 DEF Distinct

LEMMA ShrinkKeepsSpans ==
    ASSUME SpansInv, NEW kept, Fewer(traces, kept), traces' = kept, UNCHANGED ingest_seq
    PROVE  SpansInv'
<1>1. ASSUME NEW t \in DOMAIN kept, NEW i \in 1 .. Len(kept[t])
      PROVE  kept[t][i].trace = t /\ kept[t][i].seq < ingest_seq
  <2>1. PICK from : PicksFrom(traces[t], from, kept[t])
    BY DEF Fewer
  <2>2. t \in DOMAIN traces /\ from[i] \in 1 .. Len(traces[t]) /\ kept[t][i] = traces[t][from[i]]
    BY <2>1 DEF PicksFrom, Fewer
  <2> QED  BY <2>2 DEF SpansInv
<1>3. IsFiniteSet(DOMAIN kept) /\ \A t \in DOMAIN kept : kept[t] \in Seq(Span)
  BY FewerIsFewerSpans DEF Fewer
<1>4. UniqueStamps'
  BY FewerStayDistinct DEF UniqueStamps, Distinct
<1>5. ingest_seq' \in Nat
  BY DEF SpansInv
<1> QED  BY <1>1, <1>3, <1>4, <1>5 DEF SpansInv

LEMMA ShrinkKeepsTraceInv ==
    ASSUME TraceInv, NEW kept, Fewer(traces, kept), ShrinkTo(kept),
           total_spans' = CountItems(kept), UNCHANGED ingest_seq
    PROVE  TraceInv'
<1>1. SpansInv /\ IndexesExact
  BY DEF TraceInv
<1>2. traces' = kept
  BY DEF ShrinkTo
<1>3. SpansInv'
  BY <1>1, <1>2, ShrinkKeepsSpans
<1>4. FewerSpans(traces, kept)
  BY <1>1, FewerIsFewerSpans
<1>5. /\ ExactFor(service_index, "service", traces) /\ ExactFor(name_index, "name", traces)
      /\ ExactFor(status_index, "status", traces)
  BY <1>1 DEF IndexesExact, IndexExact, ExactFor
<1>6. "service" \in Indexes /\ "name" \in Indexes /\ "status" \in Indexes
  BY DEF Indexes
<1>7. /\ ExactFor(service_index', "service", kept) /\ ExactFor(name_index', "name", kept)
      /\ ExactFor(status_index', "status", kept)
  <2>1. /\ service_index' = Reconcile(service_index, "service", kept)
        /\ name_index' = Reconcile(name_index, "name", kept)
        /\ status_index' = Reconcile(status_index, "status", kept)
    BY DEF ShrinkTo
  <2> QED  BY <1>4, <1>5, <1>6, <2>1, ReconcileKeepsExact
<1>8. ExactFor(attr_index', "attr", kept)
  BY RebuildIsExact DEF ShrinkTo
<1>9. (\A t \in DOMAIN kept : kept[t] # << >>) /\ total_spans' = CountItems(kept)
  BY DEF Fewer
<1>10. IndexesExact'
  <2>1. /\ ExactFor(service_index', "service", traces') /\ ExactFor(name_index', "name", traces')
        /\ ExactFor(status_index', "status", traces') /\ ExactFor(attr_index', "attr", traces')
    BY <1>2, <1>7, <1>8
  <2>2. (\A t \in DOMAIN traces' : traces'[t] # << >>) /\ total_spans' = CountItems(traces')
    BY <1>2, <1>9
  <2> QED  BY <2>1, <2>2 DEF IndexesExact, IndexExact, ExactFor
<1> QED  BY <1>3, <1>10 DEF TraceInv
-----------------------------------------------------------------------------
(* `retain` on every trace, of the spans at the positions of `keep`. *)
Retained(left, keep) ==
    /\ DOMAIN left = DOMAIN traces
    /\ \A t \in DOMAIN traces : /\ left[t] \in Seq(Span) /\ Len(left[t]) <= Len(traces[t])
                                /\ \E from : PicksFrom(traces[t], from, left[t])
                                /\ SpansIn(left[t]) = {traces[t][i] : i \in keep[t]}

(* The traces that still have a span. *)
NonEmpty(left) == [t \in {u \in DOMAIN traces : left[u] # << >>} |-> left[t]]

LEMMA RetainedIsFewer ==
    ASSUME NEW left, NEW keep, Retained(left, keep), NEW kept, kept = NonEmpty(left)
    PROVE  /\ Fewer(traces, kept)
           /\ \A t \in DOMAIN kept : kept[t] = left[t]
           /\ \A t \in DOMAIN traces : t \in DOMAIN kept <=> left[t] # << >>
BY DEF Retained, NonEmpty, Fewer

Fresh(cutoff, fresh) ==
    /\ Fewer(traces, fresh)
    /\ \A t \in DOMAIN fresh :
          SpansIn(fresh[t]) = {s \in SpansIn(traces[t]) : s.ts >= cutoff}
    /\ \A t \in DOMAIN traces \ DOMAIN fresh : \A s \in SpansIn(traces[t]) : ~ (s.ts >= cutoff)

LEMMA NoSpans == SpansIn(<< >>) = {}
BY DEF SpansIn

LEMMA EvictBeforeLeaves ==
    ASSUME SpansInv, NEW cutoff, NEW fresh, fresh = EvictBefore(cutoff)
    PROVE  Fresh(cutoff, fresh)
<1> DEFINE keep == [t \in DOMAIN traces |-> {i \in DOMAIN traces[t] : traces[t][i].ts >= cutoff}]
           live == [t \in DOMAIN traces |-> ItemsAt(traces[t], keep[t])]
<1>1. fresh = NonEmpty(live)
  <2>1. live = [t \in DOMAIN traces |->
                  ItemsAt(traces[t], {i \in DOMAIN traces[t] : traces[t][i].ts >= cutoff})]
    OBVIOUS
  <2> HIDE DEF live
  <2> QED  BY <2>1 DEF EvictBefore, NonEmpty
<1>2. ASSUME NEW t \in DOMAIN traces
      PROVE  /\ live[t] = ItemsAt(traces[t], keep[t]) /\ keep[t] \in SUBSET DOMAIN traces[t]
             /\ {traces[t][i] : i \in keep[t]} = {s \in SpansIn(traces[t]) : s.ts >= cutoff}
  BY DEF SpansIn
<1>3. DOMAIN live = DOMAIN traces
  OBVIOUS
<1> HIDE DEF keep, live
<1>4. Retained(live, keep)
  BY <1>2, <1>3, RetainPicks DEF SpansInv, Retained
<1>5. /\ Fewer(traces, fresh)
      /\ \A t \in DOMAIN fresh : fresh[t] = live[t]
      /\ \A t \in DOMAIN traces : t \in DOMAIN fresh <=> live[t] # << >>
  BY <1>1, <1>4, RetainedIsFewer
<1>6. \A t \in DOMAIN traces : SpansIn(live[t]) = {s \in SpansIn(traces[t]) : s.ts >= cutoff}
  BY <1>2, <1>4 DEF Retained
<1>7. \A t \in DOMAIN fresh : t \in DOMAIN traces
  BY <1>5 DEF Fewer
<1>8. ASSUME NEW t \in DOMAIN traces \ DOMAIN fresh, NEW s \in SpansIn(traces[t])
      PROVE  ~ (s.ts >= cutoff)
  <2>1. live[t] = << >>
    BY <1>5
  <2>2. {x \in SpansIn(traces[t]) : x.ts >= cutoff} = {}
    BY <1>6, <2>1, NoSpans
  <2> QED  BY <2>2
<1> QED  BY <1>5, <1>6, <1>7, <1>8 DEF Fresh

(* One eviction tick.  Its second half keeps whole traces: those that come
   in the order `pos` only when enough spans stand ahead of them.          *)
Evicts(cutoff, fresh, pos, kept) ==
    /\ Fresh(cutoff, fresh) /\ pos \in EvictionOrders(fresh)
    /\ DOMAIN kept = {t \in DOMAIN fresh : ~ (CountItems(fresh) - Ahead(fresh, pos, t) > MaxSpans)}
    /\ \A t \in DOMAIN kept : kept[t] = fresh[t]
    /\ Fewer(traces, kept) /\ ShrinkTo(kept) /\ total_spans' = CountItems(kept)
    /\ UNCHANGED <<interner, ingest_seq>>

LEMMA SubtractCount ==
    ASSUME NEW a \in Nat, NEW b \in Nat, b <= a PROVE SaturatingSub(a, a - b) = b
BY DEF SaturatingSub

LEMMA RunEvictionEvicts ==
    ASSUME TraceInv, NEW cutoff, RunEviction(cutoff)
    PROVE  \E fresh, pos, kept : Evicts(cutoff, fresh, pos, kept)
<1> DEFINE fresh == EvictBefore(cutoff)
           total == TotalAfterExpiry(fresh)
<1>1. SpansInv /\ IndexesExact
  BY DEF TraceInv
<1>2. PICK pos \in EvictionOrders(fresh) :
         /\ ShrinkTo(EvictToMax(fresh, total, pos))
         /\ total_spans' = SaturatingSub(total, CountItems(fresh) - CountItems(EvictToMax(fresh, total, pos)))
         /\ UNCHANGED <<interner, ingest_seq>>
  BY DEF RunEviction
<1>3. Fresh(cutoff, fresh)
  BY <1>1, EvictBeforeLeaves
<1> DEFINE kept == EvictToMax(fresh, total, pos)
<1>4. /\ total = SaturatingSub(total_spans, CountItems(traces) - CountItems(fresh))
      /\ total_spans = CountItems(traces)
  BY <1>1 DEF TotalAfterExpiry, IndexesExact
<1> HIDE DEF fresh
<1>5. /\ CountItems(fresh) \in Nat /\ CountItems(traces) \in Nat /\ IsFiniteSet(Slots(fresh))
      /\ CountItems(fresh) <= CountItems(traces)
  BY <1>1, <1>3, FewerIsFewerSpans DEF Fresh
<1>6. total = CountItems(fresh)
  BY <1>4, <1>5, SubtractCount
<1>7. kept = [t \in {u \in DOMAIN fresh : ~ (total - Ahead(fresh, pos, u) > MaxSpans)} |-> fresh[t]]
  BY DEF EvictToMax, OverMax, Ahead
<1> HIDE DEF total, kept
<1>8. /\ DOMAIN kept = {t \in DOMAIN fresh : ~ (CountItems(fresh) - Ahead(fresh, pos, t) > MaxSpans)}
      /\ \A t \in DOMAIN kept : kept[t] = fresh[t] /\ t \in DOMAIN fresh
  BY <1>6, <1>7
<1>9. Fewer(traces, kept)
  BY <1>3, <1>8 DEF Fresh, Fewer
<1>10. CountItems(kept) \in Nat /\ CountItems(kept) <= CountItems(fresh)
  BY <1>5, <1>8, FewerSlots
<1>11. total_spans' = CountItems(kept)
  BY <1>2, <1>5, <1>6, <1>10, SubtractCount DEF kept
<1>12. Evicts(cutoff, fresh, pos, kept)
  BY <1>2, <1>3, <1>8, <1>9, <1>11 DEF Evicts, kept
<1> QED  BY <1>12

LEMMA RunEvictionKeepsTraceInv ==
    ASSUME TraceInv, NEW cutoff, RunEviction(cutoff) PROVE TraceInv'
<1>1. PICK fresh, pos, kept : Evicts(cutoff, fresh, pos, kept)
  BY RunEvictionEvicts
<1> QED  BY <1>1, ShrinkKeepsTraceInv DEF Evicts
-----------------------------------------------------------------------------
(* What clear_service leaves of every trace: the spans of other services.  It
   looks only at the traces service_index lists, and those are all that have
   a span of the service.                                                  *)
Resets(service, kept) ==
    /\ Fewer(traces, kept)
    /\ \A t \in DOMAIN kept :
          SpansIn(kept[t]) = {s \in SpansIn(traces[t]) : s.service # service}
    /\ \A t \in DOMAIN traces \ DOMAIN kept : \A s \in SpansIn(traces[t]) : s.service = service

LEMMA WithoutServiceResets ==
    ASSUME TraceInv, NEW service \in DOMAIN service_index,
           NEW kept, kept = WithoutService(service)
    PROVE  Resets(service, kept)
<1>1. SpansInv /\ ExactFor(service_index, "service", traces)
  BY DEF TraceInv, IndexesExact, IndexExact, ExactFor
<1> DEFINE keep == [t \in DOMAIN traces |-> {i \in DOMAIN traces[t] : traces[t][i].service # service}]
           left == SpansOfOthers(service)
<1>2. kept = NonEmpty(left)
  BY DEF WithoutService, NonEmpty
<1>3. \A t \in DOMAIN traces : t \in service_index[service] <=> service \in KeysIn("service", traces[t])
  BY <1>1, ExactForMeans
<1>4. \A t \in DOMAIN traces : service \in KeysIn("service", traces[t])
                                  <=> \E i \in DOMAIN traces[t] : traces[t][i].service = service
  BY DEF KeysIn, ServicesIn, SpansIn
<1>5. \A t \in DOMAIN traces :
         /\ keep[t] = {i \in DOMAIN traces[t] : traces[t][i].service # service}
         /\ keep[t] \in SUBSET DOMAIN traces[t]
         /\ {traces[t][i] : i \in keep[t]} = {s \in SpansIn(traces[t]) : s.service # service}
  BY DEF SpansIn
<1>6. /\ DOMAIN left = DOMAIN traces
      /\ \A t \in DOMAIN traces : left[t] = IF t \in service_index[service]
                                            THEN ItemsAt(traces[t], keep[t]) ELSE traces[t]
  BY DEF SpansOfOthers
<1> HIDE DEF keep, left
<1>7. ASSUME NEW t \in DOMAIN traces
      PROVE  /\ left[t] \in Seq(Span) /\ Len(left[t]) <= Len(traces[t])
             /\ \E from : PicksFrom(traces[t], from, left[t])
             /\ SpansIn(left[t]) = {traces[t][i] : i \in keep[t]}
  <2>1. traces[t] \in Seq(Span)
    BY <1>1 DEF SpansInv
  <2>2. CASE t \in service_index[service]
    <3>1. left[t] = ItemsAt(traces[t], keep[t])
      BY <1>6, <2>2
    <3> QED  BY <1>5, <2>1, <3>1, RetainPicks
  <2>3. CASE t \notin service_index[service]
    <3>1. left[t] = traces[t]
      BY <1>6, <2>3
    <3>2. keep[t] = DOMAIN traces[t]
      BY <1>3, <1>4, <1>5, <2>3
    <3>3. SpansIn(left[t]) = {traces[t][i] : i \in keep[t]}
      BY <3>1, <3>2 DEF SpansIn
    <3> QED  BY <2>1, <3>1, <3>3, AllPicked
  <2> QED  BY <2>2, <2>3
<1>8. Retained(left, keep)
  BY <1>6, <1>7 DEF Retained
<1>9. /\ Fewer(traces, kept)
      /\ \A t \in DOMAIN kept : kept[t] = left[t]
      /\ \A t \in DOMAIN traces : t \in DOMAIN kept <=> left[t] # << >>
  BY <1>2, <1>8, RetainedIsFewer
<1>10. \A t \in DOMAIN traces : SpansIn(left[t]) = {s \in SpansIn(traces[t]) : s.service # service}
  BY <1>5, <1>7
<1>11. \A t \in DOMAIN kept : t \in DOMAIN traces
  BY <1>9 DEF Fewer
<1>12. ASSUME NEW t \in DOMAIN traces \ DOMAIN kept, NEW s \in SpansIn(traces[t])
       PROVE  s.service = service
  <2>1. left[t] = << >>
    BY <1>9
  <2>2. {x \in SpansIn(traces[t]) : x.service # service} = {}
    BY <1>10, <2>1, NoSpans
  <2> QED  BY <2>2
<1> QED  BY <1>9, <1>10, <1>11, <1>12 DEF Resets

LEMMA ClearServiceKeepsTraceInv ==
    ASSUME TraceInv, NEW service, ClearService(service) PROVE TraceInv'
<1> DEFINE kept == WithoutService(service)
<1>1. /\ service \in DOMAIN service_index /\ ShrinkTo(kept) /\ UNCHANGED ingest_seq
      /\ total_spans' = SaturatingSub(total_spans, CountItems(traces) - CountItems(kept))
  BY DEF ClearService
<1>2. Fewer(traces, kept)
  BY <1>1, WithoutServiceResets DEF Resets
<1> HIDE DEF kept
<1>3. SpansInv /\ total_spans = CountItems(traces)
  BY DEF TraceInv, IndexesExact
<1>4. CountItems(kept) \in Nat /\ CountItems(traces) \in Nat /\ CountItems(kept) <= CountItems(traces)
  BY <1>2, <1>3, FewerIsFewerSpans
<1>5. total_spans' = CountItems(kept)
  BY <1>1, <1>3, <1>4, SubtractCount
<1> QED  BY <1>1, <1>2, <1>5, ShrinkKeepsTraceInv

LEMMA ClearKeepsTraceInv == TraceInv /\ Clear => TraceInv'
<1> SUFFICES ASSUME TraceInv, Clear PROVE TraceInv'
  OBVIOUS
<1>1. /\ DOMAIN traces' = {} /\ ingest_seq' \in Nat /\ total_spans' = 0
      /\ service_index' = NoIndex /\ name_index' = NoIndex
      /\ status_index' = NoIndex /\ attr_index' = NoIndex
  BY DEF Clear, NoTraces, TraceInv, SpansInv
<1>2. Slots(traces') = {}
  BY <1>1 DEF Slots
<1>3. total_spans' = CountItems(traces')
  BY <1>1, <1>2, FS_EmptySet DEF CountItems
<1>4. SpansInv'
  BY <1>1, FS_EmptySet DEF SpansInv, UniqueStamps
<1>5. \A of : NoIndex = [key \in UNION {KeysIn(of, traces'[t]) : t \in DOMAIN traces'} |->
                           {t \in DOMAIN traces' : key \in KeysIn(of, traces'[t])}]
  BY <1>1 DEF NoIndex
<1>6. IndexesExact'
  BY <1>1, <1>3, <1>5 DEF IndexesExact, IndexExact
<1> QED  BY <1>4, <1>6 DEF TraceInv

LEMMA SameTracesKeepTraceInv == TraceInv /\ UNCHANGED vars => TraceInv'
BY DEF TraceInv, SpansInv, UniqueStamps, IndexesExact, IndexExact, vars

(* The invariant that carries the properties of the trace store holds in
   every state ingest_traces, the eviction ticks and the resets reach.     *)
THEOREM TraceInvariant == Spec => []TraceInv
<1>1. TraceInv /\ [Next]_vars => TraceInv'
  <2> SUFFICES ASSUME TraceInv, [Next]_vars PROVE TraceInv'
    OBVIOUS
  <2>1. CASE Ingest
    BY <2>1, IngestKeepsTraceInv
  <2>2. CASE \E cutoff \in Cutoffs : RunEviction(cutoff)
    BY <2>2, RunEvictionKeepsTraceInv
  <2>3. CASE \E service \in Services : ClearService(service)
    BY <2>3, ClearServiceKeepsTraceInv
  <2>4. CASE Clear
    BY <2>4, ClearKeepsTraceInv
  <2>5. CASE UNCHANGED vars
    BY <2>5, SameTracesKeepTraceInv
  <2> QED  BY <2>1, <2>2, <2>3, <2>4, <2>5 DEF Next
<1> QED  BY <1>1, TraceInvInit, PTL DEF Spec

(* Whatever spans come in, expire or are reset, service_index, name_index,
   status_index and attr_index list exactly the traces that have each key,
   no trace is empty, and total_spans is the number of spans.              *)
THEOREM TraceIndexesAlwaysExact == Spec => []IndexesExact
<1>1. TraceInv => IndexesExact
  BY DEF TraceInv
<1> QED  BY <1>1, TraceInvariant, PTL
-----------------------------------------------------------------------------
(* The store as the abstract store of spans. *)
SpanItem(s) == [seq |-> s.seq, ts |-> s.ts, group |-> s.trace, services |-> {s.service}]

ItemsOf(held) == {SpanItem(s) : s \in UNION {SpansIn(held[t]) : t \in DOMAIN held}}

LEMMA ItemsOfAre ==
    ASSUME NEW held, NEW h
    PROVE  h \in ItemsOf(held) <=> \E t \in DOMAIN held : \E i \in DOMAIN held[t] : h = SpanItem(held[t][i])
BY DEF ItemsOf, SpansIn

LEMMA HeldSpansAre == HeldSpans = ItemsOf(traces) /\ HeldSpans' = ItemsOf(traces')
BY DEF HeldSpans, ItemsOf, SpanItem

(* Spans that belong to their traces and are told apart by their stamps. *)
OwnSpans(held) ==
    /\ Distinct(held) /\ AreVectors(held) /\ IsFiniteSet(Slots(held)) /\ IsFiniteSet(DOMAIN held)
    /\ \A t \in DOMAIN held : held[t] \in Seq(Span) /\ held[t] # << >>
    /\ \A t \in DOMAIN held : \A i \in 1 .. Len(held[t]) : held[t][i].trace = t

LEMMA FewerOwnSpans ==
    ASSUME SpansInv, NEW kept, Fewer(traces, kept) PROVE OwnSpans(kept)
<1>1. Distinct(kept) /\ IsFiniteSet(Slots(kept)) /\ IsFiniteSet(DOMAIN kept)
  BY FewerStayDistinct, FewerIsFewerSpans
<1>2. \A t \in DOMAIN kept : kept[t] \in Seq(Span) /\ kept[t] # << >> /\ t \in DOMAIN traces
  BY DEF Fewer
<1>3. AreVectors(kept)
  BY <1>2 DEF AreVectors
<1>4. ASSUME NEW t \in DOMAIN kept, NEW i \in 1 .. Len(kept[t]) PROVE kept[t][i].trace = t
  <2>1. PICK from : PicksFrom(traces[t], from, kept[t])
    BY DEF Fewer
  <2>2. from[i] \in 1 .. Len(traces[t]) /\ kept[t][i] = traces[t][from[i]]
    BY <2>1 DEF PicksFrom
  <2> QED  BY <1>2, <2>2 DEF SpansInv
<1> QED  BY <1>1, <1>2, <1>3, <1>4 DEF OwnSpans

(* There are as many abstract items as spans. *)
LEMMA ItemsCount ==
    ASSUME NEW held, OwnSpans(held)
    PROVE  IsFiniteSet(ItemsOf(held)) /\ Cardinality(ItemsOf(held)) = CountItems(held)
<1> DEFINE item == [x \in Slots(held) |-> SpanItem(held[x[1]][x[2]])]
<1>1. \A t \in DOMAIN held : \A i \in DOMAIN held[t] :
         <<t, i>> \in Slots(held) /\ item[<<t, i>>] = SpanItem(held[t][i])
  BY PairInSlots
<1>2. item = [x \in Slots(held) |-> item[x]]
  OBVIOUS
<1> HIDE DEF item
<1>3. \A x \in Slots(held) : item[x] \in ItemsOf(held)
  <2> SUFFICES ASSUME NEW t \in DOMAIN held, NEW i \in DOMAIN held[t]
               PROVE  item[<<t, i>>] \in ItemsOf(held)
    BY SlotsMembers
  <2> QED  BY <1>1, ItemsOfAre
<1>4. \A h \in ItemsOf(held) : \E x \in Slots(held) : item[x] = h
  <2> SUFFICES ASSUME NEW h \in ItemsOf(held) PROVE \E x \in Slots(held) : item[x] = h
    OBVIOUS
  <2>1. PICK t \in DOMAIN held : \E i \in DOMAIN held[t] : h = SpanItem(held[t][i])
    BY ItemsOfAre
  <2>2. PICK i \in DOMAIN held[t] : h = SpanItem(held[t][i])
    BY <2>1
  <2> QED  BY <1>1, <2>2
<1>5. \A x, y \in Slots(held) : item[x] = item[y] => x = y
  <2> SUFFICES ASSUME NEW x \in Slots(held), NEW y \in Slots(held), item[x] = item[y]
               PROVE  x = y
    OBVIOUS
  <2>1. PICK t \in DOMAIN held : \E i \in DOMAIN held[t] : x = <<t, i>>
    BY SlotsMembers
  <2>2. PICK i \in DOMAIN held[t] : x = <<t, i>>
    BY <2>1
  <2>3. PICK u \in DOMAIN held : \E j \in DOMAIN held[u] : y = <<u, j>>
    BY SlotsMembers
  <2>4. PICK j \in DOMAIN held[u] : y = <<u, j>>
    BY <2>3
  <2>5. SpanItem(held[t][i]) = SpanItem(held[u][j])
    BY <1>1, <2>2, <2>4
  <2>6. held[t][i].seq = held[u][j].seq
    BY <2>5 DEF SpanItem
  <2>7. i \in 1 .. Len(held[t]) /\ j \in 1 .. Len(held[u])
    BY DEF OwnSpans, AreVectors
  <2>8. t = u /\ i = j
    BY <2>6, <2>7 DEF OwnSpans, Distinct
  <2> QED  BY <2>2, <2>4, <2>8
<1>6. item \in Bijection(Slots(held), ItemsOf(held))
  <2>1. item \in [Slots(held) -> ItemsOf(held)]
    BY <1>2, <1>3
  <2> QED  BY <1>4, <1>5, <2>1 DEF Bijection, Injection, IsInjective, Surjection
<1>7. ExistsBijection(Slots(held), ItemsOf(held))
  BY <1>6 DEF ExistsBijection
<1>8. IsFiniteSet(Slots(held))
  BY DEF OwnSpans
<1> QED  BY <1>7, <1>8, FS_Bijection DEF CountItems

LEMMA IngestAccepts == TraceInv /\ Ingest => Store!Accept
<1> SUFFICES ASSUME TraceInv, Ingest PROVE Store!Accept
  OBVIOUS
<1>1. SpansInv /\ ingest_seq \in Nat
  BY DEF TraceInv, SpansInv
<1>2. PICK batch \in Batches : \E arrived : Incoming(batch, arrived)
  BY <1>1, IngestGroups
<1>3. PICK arrived : Incoming(batch, arrived)
  BY <1>2
<1>4. \A t \in DOMAIN traces' : DOMAIN traces'[t] = 1 .. Len(traces'[t]) /\ traces'[t] \in Seq(Span)
  BY <1>3 DEF Incoming, Arrive
<1>5. HeldSpans \subseteq HeldSpans'
  <2> SUFFICES ASSUME NEW t \in DOMAIN traces, NEW i \in DOMAIN traces[t]
               PROVE  SpanItem(traces[t][i]) \in ItemsOf(traces')
    BY HeldSpansAre, ItemsOfAre
  <2>1. i \in 1 .. Len(traces[t]) /\ Len(traces[t]) \in Nat /\ LenAt(traces, t) = Len(traces[t])
    BY <1>1, TraceVectors DEF LenAt
  <2>2. LenAt(arrived, t) \in Nat
    BY <1>3 DEF Incoming, Grouped, LenAt
  <2>3. t \in DOMAIN traces' /\ Len(traces'[t]) = LenAt(traces, t) + LenAt(arrived, t)
    BY <1>3 DEF Incoming, Arrive
  <2>4. i \in 1 .. Len(traces'[t])
    BY <2>1, <2>2, <2>3
  <2>5. ~ (i - LenAt(traces, t) >= 1)
    BY <2>1
  <2>6. \/ traces'[t][i] = traces[t][i]
        \/ t \in DOMAIN arrived /\ i - LenAt(traces, t) \in 1 .. Len(arrived[t])
    BY <1>3, <2>3, <2>4 DEF Incoming, Arrive
  <2>7. traces'[t][i] = traces[t][i]
    <3>1. t \in DOMAIN arrived => Len(arrived[t]) \in Nat
      BY <1>3 DEF Incoming, Grouped
    <3> QED  BY <2>5, <2>6, <3>1
  <2> QED  BY <1>4, <2>3, <2>4, <2>7, ItemsOfAre
<1>6. \A h \in HeldSpans : h.seq \in Int /\ h.seq < ingest_seq
  <2> SUFFICES ASSUME NEW t \in DOMAIN traces, NEW i \in DOMAIN traces[t]
               PROVE  traces[t][i].seq \in Int /\ traces[t][i].seq < ingest_seq
    BY HeldSpansAre, ItemsOfAre DEF SpanItem
  <2>1. i \in 1 .. Len(traces[t]) /\ traces[t] \in Seq(Span)
    BY <1>1, TraceVectors
  <2>2. traces[t][i] \in Span
    BY <2>1
  <2> QED  BY <1>1, <2>1, <2>2, SpansAreTimed DEF SpansInv
<1>7. ASSUME NEW h \in HeldSpans', h \notin HeldSpans PROVE h.seq \in Int /\ h.seq >= ingest_seq
  <2>1. PICK t \in DOMAIN traces' : \E i \in DOMAIN traces'[t] : h = SpanItem(traces'[t][i])
    BY HeldSpansAre, ItemsOfAre
  <2>2. PICK i \in DOMAIN traces'[t] : h = SpanItem(traces'[t][i])
    BY <2>1
  <2>3. i \in 1 .. Len(traces'[t]) /\ traces'[t][i] \in Span
    BY <1>4
  <2>4. traces'[t][i].seq \in Int
    BY <2>3, SpansAreTimed
  <2>5. ~ (t \in DOMAIN traces /\ i \in 1 .. Len(traces[t]) /\ traces'[t][i] = traces[t][i])
    <3> SUFFICES ASSUME t \in DOMAIN traces, i \in 1 .. Len(traces[t]), traces'[t][i] = traces[t][i]
                 PROVE  FALSE
      OBVIOUS
    <3>1. i \in DOMAIN traces[t]
      BY <1>1, TraceVectors
    <3>2. h \in HeldSpans
      BY <2>2, <3>1, HeldSpansAre, ItemsOfAre
    <3> QED  BY <1>7, <3>2
  <2>6. traces'[t][i].seq >= ingest_seq
    BY <1>1, <1>3, <2>3, <2>5, SpanAfterIngest
  <2> QED  BY <2>2, <2>4, <2>6 DEF SpanItem
<1>8. \A h \in HeldSpans' \ HeldSpans, g \in HeldSpans : h.seq # g.seq
  BY <1>1, <1>6, <1>7
<1> QED  BY <1>5, <1>8 DEF Store!Accept

LEMMA ClearServiceForgets ==
    ASSUME TraceInv, NEW service, ClearService(service)
    PROVE  Store!ForgetService(service)
<1> DEFINE kept == WithoutService(service)
<1>1. service \in DOMAIN service_index /\ traces' = kept
  BY DEF ClearService, ShrinkTo
<1>2. Resets(service, kept)
  BY <1>1, WithoutServiceResets
<1> HIDE DEF kept
<1>3. ASSUME NEW h PROVE h \in ItemsOf(kept) <=> h \in ItemsOf(traces) /\ service \notin h.services
  <2>1. h \in ItemsOf(kept) <=> \E t \in DOMAIN kept : \E s \in SpansIn(kept[t]) : h = SpanItem(s)
    BY DEF ItemsOf
  <2>2. h \in ItemsOf(traces) <=> \E t \in DOMAIN traces : \E s \in SpansIn(traces[t]) : h = SpanItem(s)
    BY DEF ItemsOf
  <2>3. \A s : SpanItem(s).services = {s.service}
    BY DEF SpanItem
  <2>4. DOMAIN kept \subseteq DOMAIN traces
    BY <1>2 DEF Resets, Fewer
  <2>5. \A t \in DOMAIN kept : \A s : s \in SpansIn(kept[t]) <=> s \in SpansIn(traces[t]) /\ s.service # service
    BY <1>2 DEF Resets
  <2>6. \A t \in DOMAIN traces : \A s \in SpansIn(traces[t]) : s.service # service => t \in DOMAIN kept
    BY <1>2 DEF Resets
  <2> QED  BY <2>1, <2>2, <2>3, <2>4, <2>5, <2>6
<1>4. HeldSpans = ItemsOf(traces) /\ HeldSpans' = ItemsOf(kept)
  BY <1>1, HeldSpansAre
<1> QED  BY <1>3, <1>4 DEF Store!ForgetService
-----------------------------------------------------------------------------
(* The unexpired items are those of the spans evict_before leaves. *)
LEMMA UnexpiredItems ==
    ASSUME NEW cutoff, NEW fresh, Fresh(cutoff, fresh)
    PROVE  Store!Unexpired(HeldSpans, cutoff) = ItemsOf(fresh)
<1>1. ASSUME NEW h PROVE h \in ItemsOf(fresh) <=> h \in ItemsOf(traces) /\ h.ts >= cutoff
  <2>1. h \in ItemsOf(fresh) <=> \E t \in DOMAIN fresh : \E s \in SpansIn(fresh[t]) : h = SpanItem(s)
    BY DEF ItemsOf
  <2>2. h \in ItemsOf(traces) <=> \E t \in DOMAIN traces : \E s \in SpansIn(traces[t]) : h = SpanItem(s)
    BY DEF ItemsOf
  <2>3. \A s : SpanItem(s).ts = s.ts
    BY DEF SpanItem
  <2>4. DOMAIN fresh \subseteq DOMAIN traces
    BY DEF Fresh, Fewer
  <2>5. \A t \in DOMAIN fresh : \A s : s \in SpansIn(fresh[t]) <=> s \in SpansIn(traces[t]) /\ s.ts >= cutoff
    BY DEF Fresh
  <2>6. \A t \in DOMAIN traces : \A s \in SpansIn(traces[t]) : s.ts >= cutoff => t \in DOMAIN fresh
    BY DEF Fresh
  <2> QED  BY <2>1, <2>2, <2>3, <2>4, <2>5, <2>6
<1> QED  BY <1>1, HeldSpansAre DEF Store!Unexpired

(* The items of one trace are a group. *)
LEMMA ItemsOfTrace ==
    ASSUME NEW held, OwnSpans(held), NEW t \in DOMAIN held
    PROVE  /\ \A s \in SpansIn(held[t]) : SpanItem(s) \in ItemsOf(held) /\ SpanItem(s).group = t
           /\ \A h \in ItemsOf(held) : h.group = t => \E s \in SpansIn(held[t]) : h = SpanItem(s)
<1>1. \A u \in DOMAIN held : \A s \in SpansIn(held[u]) : SpanItem(s).group = u
  BY DEF OwnSpans, AreVectors, SpansIn, SpanItem
<1>2. \A h : h \in ItemsOf(held) <=> \E u \in DOMAIN held : \E s \in SpansIn(held[u]) : h = SpanItem(s)
  BY DEF ItemsOf
<1> QED  BY <1>1, <1>2

(* A line of the traces that puts an earlier start first. *)
Ordered(fresh, pos) ==
    /\ \A t \in DOMAIN fresh : pos[t] \in Int
    /\ \A t, u \in DOMAIN fresh : pos[t] = pos[u] => t = u
    /\ \A t, u \in DOMAIN fresh : EarliestStart(fresh[t]) < EarliestStart(fresh[u]) => pos[t] < pos[u]

LEMMA EvictionOrdersOrder ==
    ASSUME NEW fresh, IsFiniteSet(DOMAIN fresh), NEW pos \in EvictionOrders(fresh)
    PROVE  Ordered(fresh, pos)
<1>1. Cardinality(DOMAIN fresh) \in Nat
  BY FS_CardinalityType
<1>2. \A t \in DOMAIN fresh : pos[t] \in 1 .. Cardinality(DOMAIN fresh)
  BY DEF EvictionOrders, Bijection, Injection
<1>3. \A t \in DOMAIN fresh : pos[t] \in Int
  BY <1>1, <1>2
<1>4. \A t, u \in DOMAIN fresh : pos[t] = pos[u] => t = u
  BY DEF EvictionOrders, Bijection, Injection, IsInjective
<1> QED  BY <1>3, <1>4 DEF EvictionOrders, Ordered

(* The traces from `t` on, in that order. *)
From(fresh, pos, t) == [u \in {v \in DOMAIN fresh : pos[t] <= pos[v]} |-> fresh[u]]

StandsBehind(fresh, pos, t, behind) ==
    /\ DOMAIN behind = {u \in DOMAIN fresh : pos[t] <= pos[u]}
    /\ \A u \in DOMAIN behind : behind[u] = fresh[u]
    /\ Ahead(fresh, pos, t) \in Nat /\ CountItems(fresh) \in Nat /\ CountItems(behind) \in Nat
    /\ CountItems(behind) = CountItems(fresh) - Ahead(fresh, pos, t)

LEMMA FromTrace ==
    ASSUME NEW fresh, IsFiniteSet(Slots(fresh)), NEW pos, Ordered(fresh, pos), NEW t \in DOMAIN fresh
    PROVE  StandsBehind(fresh, pos, t, From(fresh, pos, t))
<1> DEFINE behind == From(fresh, pos, t)
<1>1. /\ DOMAIN behind = {u \in DOMAIN fresh : pos[t] <= pos[u]}
      /\ \A u \in DOMAIN behind : behind[u] = fresh[u]
  BY DEF From
<1>2. \A a \in DOMAIN fresh : pos[a] \in Int
  BY DEF Ordered
<1> HIDE DEF behind
<1>3. /\ Ahead(fresh, pos, t) \in Nat /\ CountItems(behind) \in Nat /\ CountItems(fresh) \in Nat
      /\ CountItems(fresh) = Ahead(fresh, pos, t) + CountItems(behind)
  BY <1>1, <1>2, AheadAndBehind
<1>4. CountItems(behind) = CountItems(fresh) - Ahead(fresh, pos, t)
  BY <1>3
<1> QED  BY <1>1, <1>3, <1>4 DEF behind, StandsBehind

Whole(fresh, kept) ==
    DOMAIN kept \subseteq DOMAIN fresh /\ \A t \in DOMAIN kept : kept[t] = fresh[t]

LEMMA WholeOwnSpans ==
    ASSUME NEW fresh, OwnSpans(fresh), NEW kept, Whole(fresh, kept)
    PROVE  OwnSpans(kept) /\ ItemsOf(kept) \subseteq ItemsOf(fresh)
<1>1. /\ DOMAIN kept \subseteq DOMAIN fresh
      /\ \A t \in DOMAIN kept : kept[t] = fresh[t] /\ t \in DOMAIN fresh
  BY DEF Whole
<1>2. IsFiniteSet(Slots(kept)) /\ IsFiniteSet(DOMAIN kept)
  <2>1. IsFiniteSet(Slots(fresh)) /\ IsFiniteSet(DOMAIN fresh)
    BY DEF OwnSpans
  <2>2. \A t \in DOMAIN kept : DOMAIN kept[t] \subseteq DOMAIN fresh[t]
    BY <1>1
  <2> QED  BY <1>1, <2>1, <2>2, FewerSlots, FS_Subset
<1>3. Distinct(kept)
  BY <1>1 DEF OwnSpans, Distinct
<1>4. ItemsOf(kept) \subseteq ItemsOf(fresh)
  BY <1>1 DEF ItemsOf
<1> QED  BY <1>1, <1>2, <1>3, <1>4 DEF OwnSpans, AreVectors
(* An eviction tick, as a choice among the traces with unexpired spans. *)
Chooses(fresh, pos, kept) ==
    /\ OwnSpans(fresh) /\ Ordered(fresh, pos) /\ Whole(fresh, kept)
    /\ \A t \in DOMAIN fresh :
          t \in DOMAIN kept <=> ~ (CountItems(fresh) - Ahead(fresh, pos, t) > MaxSpans)

LEMMA RunEvictionChooses ==
    ASSUME TraceInv, NEW cutoff, RunEviction(cutoff)
    PROVE  \E fresh, pos, kept :
              /\ Chooses(fresh, pos, kept)
              /\ Store!Unexpired(HeldSpans, cutoff) = ItemsOf(fresh) /\ HeldSpans' = ItemsOf(kept)
<1>1. PICK fresh, pos, kept : Evicts(cutoff, fresh, pos, kept)
  BY RunEvictionEvicts
<1>2. SpansInv
  BY DEF TraceInv
<1>3. OwnSpans(fresh)
  BY <1>1, <1>2, FewerOwnSpans DEF Evicts, Fresh
<1>4. Ordered(fresh, pos)
  BY <1>1, <1>3, EvictionOrdersOrder DEF Evicts, OwnSpans
<1>5. Whole(fresh, kept)
  BY <1>1 DEF Evicts, Whole
<1>6. Chooses(fresh, pos, kept)
  BY <1>1, <1>3, <1>4, <1>5 DEF Chooses, Evicts
<1>7. Store!Unexpired(HeldSpans, cutoff) = ItemsOf(fresh)
  BY <1>1, UnexpiredItems DEF Evicts
<1>8. HeldSpans' = ItemsOf(kept)
  BY <1>1, HeldSpansAre DEF Evicts, ShrinkTo
<1> QED  BY <1>6, <1>7, <1>8

(* What is kept fits: it stands from the first trace kept on. *)
LEMMA KeptFits ==
    ASSUME NEW fresh, NEW pos, NEW kept, Chooses(fresh, pos, kept)
    PROVE  Cardinality(ItemsOf(kept)) <= MaxSpans
<1>1. /\ OwnSpans(fresh) /\ Ordered(fresh, pos) /\ Whole(fresh, kept) /\ OwnSpans(kept)
      /\ IsFiniteSet(Slots(fresh)) /\ IsFiniteSet(Slots(kept)) /\ IsFiniteSet(DOMAIN kept)
  BY WholeOwnSpans DEF Chooses, OwnSpans
<1>2. Cardinality(ItemsOf(kept)) = CountItems(kept) /\ MaxSpans \in Nat
  BY <1>1, ItemsCount, TraceConstants
<1>3. CASE DOMAIN kept = {}
  <2>1. Slots(kept) = {}
    BY <1>3 DEF Slots
  <2>2. CountItems(kept) = 0
    BY <2>1, FS_EmptySet DEF CountItems
  <2> QED  BY <1>2, <2>2
<1>4. CASE DOMAIN kept # {}
  <2>1. \A t \in DOMAIN kept : t \in DOMAIN fresh /\ pos[t] \in Int /\ kept[t] = fresh[t]
    BY <1>1 DEF Whole, Ordered
  <2>2. PICK t \in DOMAIN kept : \A u \in DOMAIN kept : pos[t] <= pos[u]
    BY <1>1, <1>4, <2>1, FirstAndLast
  <2> DEFINE behind == From(fresh, pos, t)
  <2>3. /\ DOMAIN behind = {u \in DOMAIN fresh : pos[t] <= pos[u]}
        /\ \A u \in DOMAIN behind : behind[u] = fresh[u]
        /\ Ahead(fresh, pos, t) \in Nat /\ CountItems(fresh) \in Nat /\ CountItems(behind) \in Nat
        /\ CountItems(behind) = CountItems(fresh) - Ahead(fresh, pos, t)
    BY <1>1, <2>1, FromTrace DEF StandsBehind
  <2> HIDE DEF behind
  <2>4. /\ DOMAIN kept \subseteq DOMAIN behind
        /\ \A u \in DOMAIN kept : DOMAIN kept[u] \subseteq DOMAIN behind[u]
    BY <2>1, <2>2, <2>3
  <2>5. IsFiniteSet(Slots(behind))
    <3>1. /\ DOMAIN behind \subseteq DOMAIN fresh
          /\ \A u \in DOMAIN behind : DOMAIN behind[u] \subseteq DOMAIN fresh[u]
      BY <2>3
    <3> QED  BY <1>1, <3>1, FewerSlots
  <2>6. CountItems(kept) <= CountItems(behind) /\ CountItems(kept) \in Nat
    BY <2>4, <2>5, FewerSlots
  <2>7. ~ (CountItems(fresh) - Ahead(fresh, pos, t) > MaxSpans)
    BY <2>1 DEF Chooses
  <2> QED  BY <1>2, <2>3, <2>6, <2>7
<1> QED  BY <1>3, <1>4

(* No more goes than must: with the last trace that went, the store would not
   fit.                                                                    *)
LEMMA NoMoreThanMust ==
    ASSUME NEW fresh, NEW pos, NEW kept, Chooses(fresh, pos, kept), ItemsOf(kept) # ItemsOf(fresh)
    PROVE  \E h \in ItemsOf(fresh) \ ItemsOf(kept) :
              Cardinality(ItemsOf(kept) \cup Store!Group(ItemsOf(fresh), h.group)) > MaxSpans
<1>1. /\ OwnSpans(fresh) /\ Ordered(fresh, pos) /\ Whole(fresh, kept) /\ OwnSpans(kept)
      /\ IsFiniteSet(Slots(fresh)) /\ IsFiniteSet(DOMAIN fresh)
      /\ ItemsOf(kept) \subseteq ItemsOf(fresh)
  BY WholeOwnSpans DEF Chooses, OwnSpans
<1> DEFINE gone == DOMAIN fresh \ DOMAIN kept
<1>2. gone # {} /\ IsFiniteSet(gone) /\ \A t \in gone : t \in DOMAIN fresh /\ pos[t] \in Int
  <2>1. gone # {}
    <3> SUFFICES ASSUME DOMAIN fresh \subseteq DOMAIN kept PROVE ItemsOf(fresh) \subseteq ItemsOf(kept)
      BY <1>1
    <3> QED  BY <1>1 DEF Whole, ItemsOf
  <2>2. IsFiniteSet(gone)
    BY <1>1, FS_Subset
  <2> QED  BY <1>1, <2>1, <2>2 DEF Ordered
<1>3. PICK t \in gone : \A u \in gone : pos[u] <= pos[t]
  <2> HIDE DEF gone
  <2> QED  BY <1>2, FirstAndLast
<1>4. t \in DOMAIN fresh /\ t \notin DOMAIN kept
  OBVIOUS
<1> HIDE DEF gone
<1> DEFINE behind == From(fresh, pos, t)
<1>5. /\ DOMAIN behind = {u \in DOMAIN fresh : pos[t] <= pos[u]}
      /\ \A u \in DOMAIN behind : behind[u] = fresh[u]
      /\ Ahead(fresh, pos, t) \in Nat /\ CountItems(fresh) \in Nat /\ CountItems(behind) \in Nat
      /\ CountItems(behind) = CountItems(fresh) - Ahead(fresh, pos, t)
  BY <1>1, <1>4, FromTrace DEF StandsBehind
<1> HIDE DEF behind
<1>6. CountItems(behind) > MaxSpans
  BY <1>4, <1>5 DEF Chooses
<1>7. Whole(fresh, behind)
  BY <1>5 DEF Whole
<1>8. IsFiniteSet(ItemsOf(behind)) /\ Cardinality(ItemsOf(behind)) = CountItems(behind)
  BY <1>1, <1>7, WholeOwnSpans, ItemsCount
<1>9. PICK s \in SpansIn(fresh[t]) : TRUE
  <2>1. fresh[t] \in Seq(Span) /\ fresh[t] # << >>
    BY <1>1, <1>4 DEF OwnSpans
  <2>2. 1 \in DOMAIN fresh[t]
    BY <2>1
  <2> QED  BY <2>2 DEF SpansIn
<1> DEFINE h == SpanItem(s)
<1>10. h \in ItemsOf(fresh) /\ h.group = t
  BY <1>1, <1>4, <1>9, ItemsOfTrace
<1>11. h \notin ItemsOf(kept)
  <2>1. \A g \in ItemsOf(kept) : g.group \in DOMAIN kept
    <3> SUFFICES ASSUME NEW u \in DOMAIN kept, NEW x \in SpansIn(kept[u]) PROVE SpanItem(x).group = u
      BY DEF ItemsOf
    <3> QED  BY <1>1, ItemsOfTrace
  <2> QED  BY <1>4, <1>10, <2>1
<1> DEFINE most == ItemsOf(kept) \cup Store!Group(ItemsOf(fresh), h.group)
<1>12. ItemsOf(behind) \subseteq most
  <2> SUFFICES ASSUME NEW u \in DOMAIN behind, NEW x \in SpansIn(behind[u]) PROVE SpanItem(x) \in most
    BY DEF ItemsOf
  <2>1. u \in DOMAIN fresh /\ pos[t] <= pos[u] /\ x \in SpansIn(fresh[u])
    BY <1>5
  <2>2. CASE u = t
    BY <1>1, <1>4, <1>10, <2>1, <2>2, ItemsOfTrace DEF Store!Group
  <2>3. CASE u # t
    <3>1. CASE u \in DOMAIN kept
      <4>1. SpanItem(x) \in ItemsOf(kept)
        BY <1>1, <2>1, <3>1, ItemsOfTrace DEF Whole
      <4> QED  BY <4>1
    <3>2. CASE u \notin DOMAIN kept
      <4>1. pos[u] <= pos[t] /\ pos[u] \in Int /\ pos[t] \in Int
        BY <1>2, <1>3, <2>1, <3>2 DEF gone
      <4>2. pos[u] = pos[t]
        BY <2>1, <4>1
      <4> QED  BY <1>1, <1>4, <2>1, <2>3, <4>2 DEF Ordered
    <3> QED  BY <3>1, <3>2
  <2> QED  BY <2>2, <2>3
<1>13. most \subseteq ItemsOf(fresh) /\ IsFiniteSet(ItemsOf(fresh))
  BY <1>1, ItemsCount DEF Store!Group
<1> HIDE DEF most
<1>14. Cardinality(most) >= Cardinality(ItemsOf(behind)) /\ Cardinality(most) \in Nat
  <2>1. IsFiniteSet(most)
    BY <1>13, FS_Subset
  <2> QED  BY <1>12, <2>1, FS_Subset, FS_CardinalityType
<1>15. Cardinality(most) > MaxSpans
  BY <1>5, <1>6, <1>8, <1>14, TraceConstants
<1> QED  BY <1>10, <1>11, <1>15 DEF most
LEMMA RunEvictionEvictsItems ==
    ASSUME TraceInv, NEW cutoff, RunEviction(cutoff)
    PROVE  Store!Evict(cutoff)
<1>1. PICK fresh, pos, kept :
         /\ Chooses(fresh, pos, kept)
         /\ Store!Unexpired(HeldSpans, cutoff) = ItemsOf(fresh) /\ HeldSpans' = ItemsOf(kept)
  BY RunEvictionChooses
<1>2. ItemsOf(kept) \subseteq ItemsOf(fresh)
  BY <1>1, WholeOwnSpans DEF Chooses
<1>3. Cardinality(ItemsOf(kept)) <= MaxSpans
  BY <1>1, KeptFits
<1>4. ItemsOf(kept) # ItemsOf(fresh) =>
         \E h \in ItemsOf(fresh) \ ItemsOf(kept) :
            Cardinality(ItemsOf(kept) \cup Store!Group(ItemsOf(fresh), h.group)) > MaxSpans
  BY <1>1, NoMoreThanMust
<1> QED  BY <1>1, <1>2, <1>3, <1>4 DEF Store!Evict

(* Every step of the trace store is a step of the abstract store: spans leave
   only because they expired, because the store was over max_spans and then
   by whole traces and no more than needed, by the reset of their own
   service, or by a clear, and an accepted span is never confused with one
   already held.                                                           *)
THEOREM TraceStoreImplementsSignalStore == Spec => ImplementsSignalStore
<1>1. Init => Store!Init
  <2> SUFFICES ASSUME Init PROVE HeldSpans = {}
    BY DEF Store!Init
  <2>1. DOMAIN traces = {}
    BY DEF Init, NoTraces
  <2> QED  BY <2>1 DEF HeldSpans
<1>2. TraceInv /\ [Next]_vars => [Store!Next]_HeldSpans
  <2> SUFFICES ASSUME TraceInv, [Next]_vars PROVE Store!Next \/ UNCHANGED HeldSpans
    OBVIOUS
  <2>1. CASE Ingest
    BY <2>1, IngestAccepts DEF Store!Next
  <2>2. CASE \E cutoff \in Cutoffs : RunEviction(cutoff)
    BY <2>2, RunEvictionEvictsItems DEF Store!Next
  <2>3. CASE \E service \in Services : ClearService(service)
    BY <2>3, ClearServiceForgets DEF Store!Next
  <2>4. CASE Clear
    <3>1. DOMAIN traces' = {}
      BY <2>4 DEF Clear, NoTraces
    <3>2. HeldSpans' = {}
      BY <3>1 DEF HeldSpans
    <3> QED  BY <3>2 DEF Store!Next, Store!ForgetAll
  <2>5. CASE UNCHANGED vars
    BY <2>5 DEF vars, HeldSpans
  <2> QED  BY <2>1, <2>2, <2>3, <2>4, <2>5 DEF Next
<1>3. Spec => []TraceInv
  BY TraceInvariant
<1> QED  BY <1>1, <1>2, <1>3, PTL DEF Spec, ImplementsSignalStore, Store!Spec

-----------------------------------------------------------------------------
(* The start of a trace is the time of one of its spans, and no span of the
   trace is earlier.                                                       *)
LEMMA EarliestStartIsFirst ==
    ASSUME NEW spans \in Seq(Span), spans # << >>
    PROVE  /\ EarliestStart(spans) \in Int
           /\ \E s \in SpansIn(spans) : s.ts = EarliestStart(spans)
           /\ \A s \in SpansIn(spans) : EarliestStart(spans) <= s.ts
<1> DEFINE places == 1 .. Len(spans)
           time == [i \in places |-> spans[i].ts]
           times == {s.ts : s \in SpansIn(spans)}
<1>1. /\ Len(spans) \in Nat /\ DOMAIN spans = places /\ places # {}
      /\ \A i \in places : spans[i] \in Span
  OBVIOUS
<1>2. \A i \in places : time[i] = spans[i].ts /\ spans[i].ts \in Int
  BY <1>1, SpansAreTimed
<1>3. IsFiniteSet(places)
  BY <1>1, IntervalCount
<1>4. PICK first \in places : \A i \in places : time[first] <= time[i]
  <2> HIDE DEF places, time
  <2> QED  BY <1>1, <1>2, <1>3, FirstAndLast
<1>5. \A s : s \in SpansIn(spans) <=> \E i \in places : s = spans[i]
  BY <1>1 DEF SpansIn
<1> HIDE DEF places, time
<1>6. spans[first].ts \in times /\ \A s \in SpansIn(spans) : spans[first].ts <= s.ts
  BY <1>2, <1>4, <1>5
<1>7. /\ EarliestStart(spans) \in times
      /\ \A s \in SpansIn(spans) : EarliestStart(spans) <= s.ts
  <2>1. \E ts \in times : \A s \in SpansIn(spans) : ts <= s.ts
    BY <1>6
  <2>2. EarliestStart(spans) = CHOOSE ts \in times : \A s \in SpansIn(spans) : ts <= s.ts
    BY DEF EarliestStart
  <2> HIDE DEF times
  <2> QED  BY <2>1, <2>2
<1>8. PICK s \in SpansIn(spans) : s.ts = EarliestStart(spans)
  BY <1>7
<1>9. s.ts \in Int
  BY <1>2, <1>5
<1> QED  BY <1>7, <1>8, <1>9

(* A trace that stays does not start before one that goes. *)
LEMMA OldestGo ==
    ASSUME NEW fresh, NEW pos, NEW kept, Chooses(fresh, pos, kept),
           NEW t \in DOMAIN fresh, t \notin DOMAIN kept, NEW u \in DOMAIN kept
    PROVE  EarliestStart(fresh[t]) <= EarliestStart(fresh[u])
<1>1. /\ OwnSpans(fresh) /\ Ordered(fresh, pos) /\ u \in DOMAIN fresh /\ IsFiniteSet(Slots(fresh))
      /\ \A v \in DOMAIN fresh : pos[v] \in Int
  BY DEF Chooses, Whole, OwnSpans, Ordered
<1>2. EarliestStart(fresh[t]) \in Int /\ EarliestStart(fresh[u]) \in Int
  BY <1>1, EarliestStartIsFirst DEF OwnSpans
<1> SUFFICES ASSUME EarliestStart(fresh[u]) < EarliestStart(fresh[t]) PROVE FALSE
  BY <1>2
<1>3. pos[u] < pos[t]
  BY <1>1 DEF Ordered
<1> DEFINE behindT == From(fresh, pos, t)
           behindU == From(fresh, pos, u)
<1>4. StandsBehind(fresh, pos, t, behindT) /\ StandsBehind(fresh, pos, u, behindU)
  BY <1>1, FromTrace
<1> HIDE DEF behindT, behindU
<1>5. /\ DOMAIN behindT \subseteq DOMAIN behindU
      /\ \A v \in DOMAIN behindT : DOMAIN behindT[v] \subseteq DOMAIN behindU[v]
  <2>1. \A v \in DOMAIN fresh : pos[t] <= pos[v] => pos[u] <= pos[v]
    BY <1>1, <1>3
  <2>2. DOMAIN behindT \subseteq DOMAIN behindU
    BY <1>4, <2>1 DEF StandsBehind
  <2>3. \A v \in DOMAIN behindT : behindT[v] = behindU[v]
    BY <1>4, <2>2 DEF StandsBehind
  <2> QED  BY <2>2, <2>3
<1>6. IsFiniteSet(Slots(behindU))
  <2>1. DOMAIN behindU \subseteq DOMAIN fresh /\ \A v \in DOMAIN behindU : DOMAIN behindU[v] \subseteq DOMAIN fresh[v]
    BY <1>4 DEF StandsBehind
  <2> QED  BY <1>1, <2>1, FewerSlots
<1>7. CountItems(behindT) <= CountItems(behindU)
  BY <1>5, <1>6, FewerSlots
<1>8. CountItems(behindT) > MaxSpans /\ ~ (CountItems(behindU) > MaxSpans)
  BY <1>1, <1>4 DEF StandsBehind, Chooses
<1>9. CountItems(behindT) \in Nat /\ CountItems(behindU) \in Nat /\ MaxSpans \in Nat
  BY <1>4, TraceConstants DEF StandsBehind
<1> QED  BY <1>7, <1>8, <1>9

LEMMA EvictionTakesOldest ==
    ASSUME TraceInv, NEW cutoff, RunEviction(cutoff),
           NEW live, live = Store!Unexpired(HeldSpans, cutoff),
           NEW gone \in live, gone \notin HeldSpans', NEW stays \in HeldSpans'
    PROVE  /\ gone.group # stays.group
           /\ \E first \in Store!Group(live, gone.group) : first.ts <= stays.ts
<1>1. PICK fresh, pos, kept :
         /\ Chooses(fresh, pos, kept)
         /\ Store!Unexpired(HeldSpans, cutoff) = ItemsOf(fresh) /\ HeldSpans' = ItemsOf(kept)
  BY RunEvictionChooses
<1>2. /\ OwnSpans(fresh) /\ Whole(fresh, kept) /\ OwnSpans(kept)
  BY <1>1, WholeOwnSpans DEF Chooses
<1>3. PICK t \in DOMAIN fresh : \E s \in SpansIn(fresh[t]) : gone = SpanItem(s)
  BY <1>1 DEF ItemsOf
<1>4. PICK u \in DOMAIN kept : \E s \in SpansIn(kept[u]) : stays = SpanItem(s)
  BY <1>1 DEF ItemsOf
<1>5. PICK s \in SpansIn(kept[u]) : stays = SpanItem(s)
  BY <1>4
<1>6. gone.group = t /\ stays.group = u
  BY <1>2, <1>3, <1>4, ItemsOfTrace
<1>7. t \notin DOMAIN kept
  <2> SUFFICES ASSUME t \in DOMAIN kept PROVE gone \in ItemsOf(kept)
    BY <1>1
  <2>1. kept[t] = fresh[t]
    BY <1>2 DEF Whole
  <2> QED  BY <1>2, <1>3, <2>1, ItemsOfTrace
<1>8. EarliestStart(fresh[t]) <= EarliestStart(fresh[u])
  BY <1>1, <1>7, OldestGo
<1>9. u \in DOMAIN fresh /\ s \in SpansIn(fresh[u])
  BY <1>2, <1>5 DEF Whole
<1>10. /\ EarliestStart(fresh[u]) \in Int /\ EarliestStart(fresh[u]) <= s.ts
       /\ EarliestStart(fresh[t]) \in Int
       /\ \E x \in SpansIn(fresh[t]) : x.ts = EarliestStart(fresh[t])
  BY <1>2, <1>9, EarliestStartIsFirst DEF OwnSpans
<1>11. PICK x \in SpansIn(fresh[t]) : x.ts = EarliestStart(fresh[t])
  BY <1>10
<1> DEFINE first == SpanItem(x)
<1>12. first \in Store!Group(live, gone.group)
  <2>1. first \in ItemsOf(fresh) /\ first.group = t
    BY <1>2, <1>11, ItemsOfTrace
  <2> QED  BY <1>1, <1>6, <2>1 DEF Store!Group
<1>13. first.ts = x.ts /\ stays.ts = s.ts
  BY <1>5 DEF SpanItem
<1>14. s.ts \in Int
  <2>1. fresh[u] \in Seq(Span)
    BY <1>2, <1>9 DEF OwnSpans
  <2>2. s \in Span
    BY <1>9, <2>1 DEF SpansIn
  <2> QED  BY <2>2, SpansAreTimed
<1>15. first.ts <= stays.ts
  BY <1>8, <1>10, <1>11, <1>13, <1>14
<1> QED  BY <1>6, <1>7, <1>12, <1>15

(* evict_to_max evicts the oldest traces: in every eviction tick a trace over
   capacity goes as a whole, and no trace that stays has an older span.    *)
THEOREM CapacityAlwaysTakesOldest == Spec => CapacityTakesOldestTraces
<1>1. ASSUME TraceInv, NEW cutoff \in Cutoffs, RunEviction(cutoff)
      PROVE  LET live == Store!Unexpired(HeldSpans, cutoff)
             IN  \A gone \in live \ HeldSpans', kept \in HeldSpans' :
                    /\ gone.group # kept.group
                    /\ \E first \in Store!Group(live, gone.group) : first.ts <= kept.ts
  BY <1>1, EvictionTakesOldest
<1> DEFINE Oldest == \A cutoff \in Cutoffs : RunEviction(cutoff) =>
                        LET live == Store!Unexpired(HeldSpans, cutoff)
                        IN  \A gone \in live \ HeldSpans', kept \in HeldSpans' :
                               /\ gone.group # kept.group
                               /\ \E first \in Store!Group(live, gone.group) : first.ts <= kept.ts
<1>2. TraceInv => Oldest
  BY <1>1
<1>3. CapacityTakesOldestTraces <=> [][Oldest]_vars
  BY DEF CapacityTakesOldestTraces
<1> HIDE DEF Oldest
<1> QED  BY <1>2, <1>3, TraceInvariant, PTL

-----------------------------------------------------------------------------
(* Searches. *)

SpanFieldNames == {"id", "parent", "service", "name", "status", "attrs"}

(* A stored span has what its shape has. *)
LEMMA SpanShape ==
    ASSUME NEW shape \in SpanShapes, NEW seq \in Nat, NEW s, s = Stamped(shape, seq)
    PROVE  /\ s.id = shape.id /\ s.parent = shape.parent /\ s.service = shape.service
           /\ s.name = shape.name /\ s.status = shape.status /\ s.attrs = shape.attrs
           /\ InternedBy(s) = InternedBy(shape)
<1>1. SpanFieldNames \subseteq DOMAIN shape
  BY ShapeConstants DEF SpanFieldNames
<1>2. \A f \in SpanFieldNames : s[f] = shape[f]
  <2>1. \A f \in SpanFieldNames : f \in DOMAIN shape \cup {"seq"} /\ f # "seq"
    BY <1>1 DEF SpanFieldNames
  <2> QED  BY <2>1 DEF Stamped
<1>3. /\ s.id = shape.id /\ s.parent = shape.parent /\ s.service = shape.service
      /\ s.name = shape.name /\ s.status = shape.status /\ s.attrs = shape.attrs
  BY <1>2 DEF SpanFieldNames
<1>4. InternedBy(s) = InternedBy(shape)
  BY <1>3 DEF InternedBy, StringAttrs
<1> QED  BY <1>3, <1>4

(* What ShapeConstants says of stored spans. *)
LEMMA SpanAttributes ==
    ASSUME NEW s \in Span
    PROVE  /\ s.id # NoParent
           /\ Len(s.attrs) \in Nat /\ DOMAIN s.attrs = 1 .. Len(s.attrs)
           /\ \A i \in DOMAIN s.attrs : s.attrs[i].key # ServiceKey
           /\ \A i \in FirstAt(s.attrs, <<"resource">> \o ServiceKey) :
                 s.attrs[i].value.type = "String" /\ s.attrs[i].value.text = s.service
<1>1. PICK shape \in SpanShapes, seq \in Nat : s = Stamped(shape, seq)
  BY DEF Span
<1>2. s.id = shape.id /\ s.service = shape.service /\ s.attrs = shape.attrs
  BY <1>1, SpanShape
<1>3. /\ shape.id # NoParent
      /\ shape.attrs \in Seq(Range(shape.attrs))
      /\ \A i \in DOMAIN shape.attrs : shape.attrs[i].key # ServiceKey
      /\ \A i \in FirstAt(shape.attrs, <<"resource">> \o ServiceKey) :
            shape.attrs[i].value.type = "String" /\ shape.attrs[i].value.text = shape.service
  BY ShapeConstants
<1>4. Len(shape.attrs) \in Nat /\ DOMAIN shape.attrs = 1 .. Len(shape.attrs)
  BY <1>3
<1> QED  BY <1>2, <1>3, <1>4

-----------------------------------------------------------------------------
(* The interner knows the texts of every stored span. *)
InternerCovers ==
    \A t \in DOMAIN traces : \A i \in 1 .. Len(traces[t]) : InternedBy(traces[t][i]) \subseteq interner

LEMMA IngestKeepsInterned ==
    ASSUME TraceInv, InternerCovers, Ingest
    PROVE  InternerCovers'
<1>1. PICK batch \in Batches :
         /\ ingest_seq' = ingest_seq + Len(batch)
         /\ interner' = interner \cup UNION {InternedBy(batch[i]) : i \in DOMAIN batch}
         /\ IngestSpans([t \in {batch[i].trace : i \in DOMAIN batch} |-> SpansOfTrace(batch, t)])
  BY DEF Ingest
<1> DEFINE T == {batch[i].trace : i \in DOMAIN batch}
           arrived == [t \in T |-> SpansOfTrace(batch, t)]
<1>2. SpansInv /\ ingest_seq \in Nat
  BY DEF TraceInv, SpansInv
<1>3. ASSUME NEW t \in T
      PROVE  /\ arrived[t] \in Seq(Span)
             /\ \A k \in 1 .. Len(arrived[t]) : InternedBy(arrived[t][k]) \subseteq interner'
  <2> DEFINE s == SpansOfTrace(batch, t)
  <2>1. arrived[t] = s
    OBVIOUS
  <2>2. s = SpansOfTrace(batch, t)
    OBVIOUS
  <2> HIDE DEF s, arrived
  <2>3. s \in Seq(Span) /\ \E from : ComesFrom(batch, t, from, s)
    BY <1>2, <2>2, SpansOfTraceCome
  <2>4. PICK from : ComesFrom(batch, t, from, s)
    BY <2>3
  <2>5. ASSUME NEW k \in 1 .. Len(s) PROVE InternedBy(s[k]) \subseteq interner'
    <3>1. from[k] \in 1 .. Len(batch) /\ s[k] = Stamped(batch[from[k]], ingest_seq + from[k] - 1)
      BY <2>4 DEF ComesFrom
    <3>2. from[k] \in DOMAIN batch /\ batch[from[k]] \in SpanShapes /\ ingest_seq + from[k] - 1 \in Nat
      BY <1>2, <3>1, BatchFields
    <3>3. InternedBy(s[k]) = InternedBy(batch[from[k]])
      BY <3>1, <3>2, SpanShape
    <3> QED  BY <1>1, <3>2, <3>3
  <2> QED  BY <2>1, <2>3, <2>5
<1>4. Arrive(arrived)
  <2>1. IngestSpans(arrived) /\ DOMAIN arrived = T
    BY <1>1
  <2> HIDE DEF arrived
  <2> QED  BY <1>2, <1>3, <2>1, IngestSpansArrive
<1>5. DOMAIN arrived = T
  OBVIOUS
<1> HIDE DEF arrived, T
<1>6. ASSUME NEW t \in DOMAIN traces', NEW i \in 1 .. Len(traces'[t])
      PROVE  InternedBy(traces'[t][i]) \subseteq interner'
  <2>1. CASE t \in DOMAIN traces /\ i \in 1 .. Len(traces[t]) /\ traces'[t][i] = traces[t][i]
    BY <1>1, <2>1 DEF InternerCovers
  <2>2. CASE /\ t \in DOMAIN arrived /\ i - LenAt(traces, t) \in 1 .. Len(arrived[t])
             /\ traces'[t][i] = arrived[t][i - LenAt(traces, t)]
    BY <1>3, <1>5, <2>2
  <2> QED  BY <1>4, <2>1, <2>2 DEF Arrive
<1> QED  BY <1>6 DEF InternerCovers

(* An eviction or a reset leaves spans whose texts are interned. *)
LEMMA ShrinkKeepsInterned ==
    ASSUME InternerCovers, NEW kept, Fewer(traces, kept), traces' = kept, UNCHANGED interner
    PROVE  InternerCovers'
<1> SUFFICES ASSUME NEW t \in DOMAIN kept, NEW i \in 1 .. Len(kept[t])
             PROVE  InternedBy(kept[t][i]) \subseteq interner
  BY DEF InternerCovers
<1>1. PICK from : PicksFrom(traces[t], from, kept[t])
  BY DEF Fewer
<1>2. t \in DOMAIN traces /\ from[i] \in 1 .. Len(traces[t]) /\ kept[t][i] = traces[t][from[i]]
  BY <1>1 DEF PicksFrom, Fewer
<1> QED  BY <1>2 DEF InternerCovers

LEMMA InternedAlways == Spec => [](TraceInv /\ InternerCovers)
<1>1. Init => InternerCovers
  BY DEF Init, NoTraces, InternerCovers
<1>2. TraceInv /\ InternerCovers /\ [Next]_vars => InternerCovers'
  <2> SUFFICES ASSUME TraceInv, InternerCovers, [Next]_vars PROVE InternerCovers'
    OBVIOUS
  <2>1. CASE Ingest
    BY <2>1, IngestKeepsInterned
  <2>2. ASSUME NEW cutoff \in Cutoffs, RunEviction(cutoff) PROVE InternerCovers'
    <3>1. PICK fresh, pos, kept : Evicts(cutoff, fresh, pos, kept)
      BY <2>2, RunEvictionEvicts
    <3> QED  BY <3>1, ShrinkKeepsInterned DEF Evicts, ShrinkTo
  <2>3. ASSUME NEW service \in Services, ClearService(service) PROVE InternerCovers'
    <3> DEFINE kept == WithoutService(service)
    <3>1. service \in DOMAIN service_index /\ ShrinkTo(kept) /\ UNCHANGED interner
      BY <2>3 DEF ClearService
    <3>2. Fewer(traces, kept)
      BY <3>1, WithoutServiceResets DEF Resets
    <3> HIDE DEF kept
    <3> QED  BY <3>1, <3>2, ShrinkKeepsInterned DEF ShrinkTo
  <2>4. CASE Clear
    BY <2>4 DEF Clear, NoTraces, InternerCovers
  <2>5. CASE UNCHANGED vars
    BY <2>5 DEF vars, InternerCovers
  <2> QED  BY <2>1, <2>2, <2>3, <2>4, <2>5 DEF Next
<1> QED  BY <1>1, <1>2, TraceInvariant, PTL DEF Spec
-----------------------------------------------------------------------------
(* span_matches_conditions: the running groups of the pass from left to
   right, over the results m of the conditions.                            *)
Passes(n, ops, m, group) ==
    group = [i \in 0 .. n |-> IF i = 0 THEN m[1] ELSE AfterOperator(group[i - 1], ops[i], m[i + 1])]

(* The conditions k + 1 .. i + 1 hold, and no || is between them. *)
Together(ops, m, k, i) ==
    /\ \A l \in k + 1 .. i : ops[l] = "And"
    /\ \A l \in k .. i : m[l + 1]

GroupHolds(ops, m, i) == \E k \in 0 .. i : (k = 0 \/ ops[k] = "Or") /\ Together(ops, m, k, i)

LEMMA PassExists ==
    ASSUME NEW n \in Nat, NEW ops, NEW m \in [1 .. n + 1 -> BOOLEAN]
    PROVE  \E group : Passes(n, ops, m, group)
<1> DEFINE value(i, before) == AfterOperator(before, ops[i], m[i + 1])
           step == [p \in (1 .. n) \X BOOLEAN |-> value(p[1], p[2])]
<1>1. m[1] \in BOOLEAN /\ \A i \in 1 .. n : m[i + 1] \in BOOLEAN
  OBVIOUS
<1>2. \A i \in 1 .. n, before \in BOOLEAN : value(i, before) \in BOOLEAN
  BY <1>1 DEF AfterOperator
<1>3. /\ step \in [(1 .. n) \X BOOLEAN -> BOOLEAN]
      /\ \A i \in 1 .. n, before \in BOOLEAN : step[<<i, before>>] = value(i, before)
  <2> HIDE DEF value
  <2> QED  BY <1>2
<1> HIDE DEF step
<1>4. PICK f : f \in [0 .. n -> BOOLEAN] /\ f[0] = m[1] /\ \A i \in 1 .. n : f[i] = step[<<i, f[i - 1]>>]
  <2>1. \E f : Stepwise(n, BOOLEAN, m[1], step, f)
    BY <1>1, <1>3, StepwiseExists
  <2> QED  BY <2>1 DEF Stepwise
<1>5. \A i \in 1 .. n : f[i - 1] \in BOOLEAN
  BY <1>4
<1>6. \A i \in 1 .. n : f[i] = value(i, f[i - 1])
  BY <1>3, <1>4, <1>5
<1>7. \A i \in 0 .. n : f[i] = IF i = 0 THEN m[1] ELSE value(i, f[i - 1])
  <2> HIDE DEF value
  <2> QED  BY <1>4, <1>6
<1>8. f = [i \in 0 .. n |-> IF i = 0 THEN m[1] ELSE value(i, f[i - 1])]
  <2> HIDE DEF value
  <2> QED  BY <1>4, <1>7
<1> QED  BY <1>8 DEF Passes

LEMMA GroupsAre ==
    ASSUME NEW n \in Nat, NEW ops \in [1 .. n -> {"And", "Or"}], NEW m \in [1 .. n + 1 -> BOOLEAN],
           NEW group, Passes(n, ops, m, group)
    PROVE  \A i \in 0 .. n : group[i] <=> GroupHolds(ops, m, i)
<1> DEFINE Good == {i \in 0 .. n : group[i] <=> GroupHolds(ops, m, i)}
<1>1. /\ group[0] = m[1]
      /\ \A i \in 1 .. n : group[i] = AfterOperator(group[i - 1], ops[i], m[i + 1])
  BY DEF Passes
<1>2. 0 \in Good
  <2>1. GroupHolds(ops, m, 0) <=> m[1]
    BY DEF GroupHolds, Together
  <2> QED  BY <1>1, <2>1
<1>3. ASSUME NEW i \in 0 .. n, i \in Good, i < n PROVE i + 1 \in Good
  <2>1. i + 1 \in 1 .. n /\ (i + 1) - 1 = i /\ i \in Nat
    BY <1>3
  <2>2. group[i + 1] = AfterOperator(group[i], ops[i + 1], m[i + 2])
    BY <1>1, <2>1
  <2>3. ASSUME NEW k \in 0 .. i
        PROVE  Together(ops, m, k, i + 1) <=> Together(ops, m, k, i) /\ ops[i + 1] = "And" /\ m[i + 2]
    <3>1. \A l : l \in k + 1 .. i + 1 <=> l \in k + 1 .. i \/ l = i + 1
      BY <2>1
    <3>2. \A l : l \in k .. i + 1 <=> l \in k .. i \/ l = i + 1
      BY <2>1
    <3>3. (i + 1) + 1 = i + 2
      BY <2>1
    <3> QED  BY <3>1, <3>2, <3>3 DEF Together
  <2>4. Together(ops, m, i + 1, i + 1) <=> m[i + 2]
    BY <2>1 DEF Together
  <2>5. \A k : k \in 0 .. i + 1 <=> k \in 0 .. i \/ k = i + 1
    BY <2>1
  <2>6. CASE ops[i + 1] = "And"
    <3>1. group[i + 1] <=> group[i] /\ m[i + 2]
      BY <2>2, <2>6 DEF AfterOperator
    <3>2. GroupHolds(ops, m, i + 1) <=> GroupHolds(ops, m, i) /\ m[i + 2]
      BY <2>1, <2>3, <2>5, <2>6 DEF GroupHolds
    <3> QED  BY <1>3, <2>1, <3>1, <3>2
  <2>7. CASE ops[i + 1] = "Or"
    <3>1. group[i + 1] <=> m[i + 2]
      BY <2>2, <2>7 DEF AfterOperator
    <3>2. GroupHolds(ops, m, i + 1) <=> m[i + 2]
      BY <2>1, <2>3, <2>4, <2>5, <2>7 DEF GroupHolds
    <3> QED  BY <1>3, <2>1, <3>1, <3>2
  <2> QED  BY <2>1, <2>6, <2>7
<1> HIDE DEF Good
<1>4. \A i \in 0 .. n : i \in Good
  BY <1>2, <1>3, CountUp
<1> QED  BY <1>4 DEF Good
(* One pass from left to right finds what the groups between the || say. *)
LEMMA MatchesAreSatisfied ==
    ASSUME NEW span, NEW selector, Parsed(selector)
    PROVE  MatchesSelector(span, selector) <=> Satisfies(span, selector)
<1>1. CASE selector.conditions = << >>
  BY <1>1 DEF MatchesSelector, Satisfies
<1>2. CASE selector.conditions # << >>
  <2> DEFINE cs == selector.conditions
             ops == selector.ops
             n == Len(ops)
             m == [l \in 1 .. n + 1 |-> MatchesCondition(span, cs[l])]
             body(g) == [i \in 0 .. Len(ops) |->
                            IF i = 0 THEN MatchesCondition(span, cs[1])
                            ELSE AfterOperator(g[i - 1], ops[i], MatchesCondition(span, cs[i + 1]))]
             group == CHOOSE g : g = body(g)
  <2>1. n \in Nat /\ Len(cs) = n + 1 /\ DOMAIN cs = 1 .. n + 1 /\ ops \in [1 .. n -> {"And", "Or"}]
    BY <1>2 DEF Parsed
  <2>2. m \in [1 .. n + 1 -> BOOLEAN] /\ \A l \in 1 .. n + 1 : m[l] = MatchesCondition(span, cs[l])
    <3>1. \A l : MatchesCondition(span, cs[l]) \in BOOLEAN
      BY DEF MatchesCondition
    <3> QED  BY <3>1
  <2>3. MatchesSelector(span, selector) <=>
           (\E i \in 1 .. n : ops[i] = "Or" /\ group[i - 1]) \/ group[n]
    BY <1>2 DEF MatchesSelector
  <2>4. Satisfies(span, selector) <=>
           \E i, j \in 1 .. n + 1 :
              /\ i <= j /\ (i = 1 \/ ops[i - 1] = "Or") /\ (j = n + 1 \/ ops[j] = "Or")
              /\ \A k \in i .. j - 1 : ops[k] = "And"
              /\ \A k \in i .. j : m[k]
    <3>1. \A i, j \in 1 .. n + 1 : \A k \in i .. j : k \in 1 .. n + 1
      BY <2>1
    <3> HIDE DEF m, n, cs
    <3>2. \A i, j \in 1 .. n + 1 : (\A k \in i .. j : m[k]) <=> \A k \in i .. j : MatchesCondition(span, cs[k])
      BY <2>2, <3>1
    <3> QED  BY <1>2, <2>1, <3>2 DEF Satisfies, cs, n
  <2>5. \A g : body(g) = [i \in 0 .. n |-> IF i = 0 THEN m[1] ELSE AfterOperator(g[i - 1], ops[i], m[i + 1])]
    <3> SUFFICES ASSUME NEW g
                 PROVE  body(g) = [i \in 0 .. n |-> IF i = 0 THEN m[1]
                                                    ELSE AfterOperator(g[i - 1], ops[i], m[i + 1])]
      OBVIOUS
    <3>1. m[1] = MatchesCondition(span, cs[1])
      BY <2>1, <2>2
    <3>2. \A i \in 0 .. n : i # 0 => m[i + 1] = MatchesCondition(span, cs[i + 1])
      BY <2>1, <2>2
    <3> HIDE DEF m, cs
    <3> QED  BY <3>1, <3>2
  <2> HIDE DEF body
  <2>6. \A g : g = body(g) <=> Passes(n, ops, m, g)
    BY <2>5 DEF Passes
  <2> HIDE DEF m, n
  <2>7. Passes(n, ops, m, group)
    <3>1. \E g : Passes(n, ops, m, g)
      BY <2>1, <2>2, PassExists
    <3>2. \E g : g = body(g)
      BY <2>6, <3>1
    <3>3. group = body(group)
      BY <3>2
    <3> QED  BY <2>6, <3>3
  <2> HIDE DEF group
  <2>8. \A e \in 0 .. n : group[e] <=> GroupHolds(ops, m, e)
    BY <2>1, <2>2, <2>7, GroupsAre
  <2>9. MatchesSelector(span, selector) <=>
           \E e \in 0 .. n : (e = n \/ ops[e + 1] = "Or") /\ GroupHolds(ops, m, e)
    <3>1. ASSUME NEW i \in 1 .. n, ops[i] = "Or", group[i - 1]
          PROVE  \E e \in 0 .. n : (e = n \/ ops[e + 1] = "Or") /\ GroupHolds(ops, m, e)
      <4>1. i - 1 \in 0 .. n /\ (i - 1) + 1 = i
        BY <2>1
      <4>2. ops[(i - 1) + 1] = "Or" /\ GroupHolds(ops, m, i - 1)
        BY <2>8, <3>1, <4>1
      <4> QED  BY <4>1, <4>2
    <3>2. ASSUME group[n]
          PROVE  \E e \in 0 .. n : (e = n \/ ops[e + 1] = "Or") /\ GroupHolds(ops, m, e)
      BY <2>1, <2>8, <3>2
    <3>3. ASSUME NEW e \in 0 .. n, e = n \/ ops[e + 1] = "Or", GroupHolds(ops, m, e)
          PROVE  (\E i \in 1 .. n : ops[i] = "Or" /\ group[i - 1]) \/ group[n]
      <4>1. CASE e = n
        BY <2>1, <2>8, <3>3, <4>1
      <4>2. CASE e # n
        <5>1. e + 1 \in 1 .. n /\ (e + 1) - 1 = e
          BY <2>1, <4>2
        <5>2. group[(e + 1) - 1] /\ ops[e + 1] = "Or"
          BY <2>8, <3>3, <4>2, <5>1
        <5> QED  BY <5>1, <5>2
      <4> QED  BY <4>1, <4>2
    <3> QED  BY <2>3, <3>1, <3>2, <3>3
  <2> HIDE DEF ops
  <2>10. Satisfies(span, selector) <=>
            \E e \in 0 .. n : (e = n \/ ops[e + 1] = "Or") /\ GroupHolds(ops, m, e)
    <3>1. ASSUME NEW k \in 0 .. n, NEW e \in 0 .. n
          PROVE  Together(ops, m, k, e) <=> /\ \A l \in k + 1 .. e : ops[l] = "And"
                                            /\ \A l \in k + 1 .. e + 1 : m[l]
      <4>1. (\A l \in k .. e : m[l + 1]) => \A l \in k + 1 .. e + 1 : m[l]
        <5> SUFFICES ASSUME \A l \in k .. e : m[l + 1], NEW l \in k + 1 .. e + 1 PROVE m[l]
          OBVIOUS
        <5>1. l - 1 \in k .. e /\ (l - 1) + 1 = l
          BY <2>1
        <5>2. m[(l - 1) + 1]
          BY <5>1
        <5> QED  BY <5>1, <5>2
      <4>2. \A l \in k .. e : l + 1 \in k + 1 .. e + 1
        BY <2>1
      <4> QED  BY <4>1, <4>2 DEF Together
    <3>2. ASSUME NEW i \in 1 .. n + 1, NEW j \in 1 .. n + 1, i <= j, i = 1 \/ ops[i - 1] = "Or",
                 j = n + 1 \/ ops[j] = "Or", \A k \in i .. j - 1 : ops[k] = "And", \A k \in i .. j : m[k]
          PROVE  \E e \in 0 .. n : (e = n \/ ops[e + 1] = "Or") /\ GroupHolds(ops, m, e)
      <4> DEFINE e == j - 1
                 k == i - 1
      <4>1. k \in 0 .. n /\ e \in 0 .. n /\ e + 1 = j /\ k + 1 = i /\ k \in 0 .. e
        BY <2>1, <3>2
      <4>2. (k = 0 \/ ops[k] = "Or") /\ (e = n \/ ops[e + 1] = "Or")
        BY <2>1, <3>2
      <4> HIDE DEF e
      <4>3. (\A l \in k + 1 .. e : ops[l] = "And") /\ \A l \in k + 1 .. e + 1 : m[l]
        BY <2>1, <3>2, <4>1 DEF e
      <4> HIDE DEF k
      <4>4. Together(ops, m, k, e)
        BY <3>1, <4>1, <4>3
      <4> QED  BY <4>1, <4>2, <4>4 DEF GroupHolds
    <3>3. ASSUME NEW e \in 0 .. n, e = n \/ ops[e + 1] = "Or", GroupHolds(ops, m, e)
          PROVE  \E i, j \in 1 .. n + 1 :
                    /\ i <= j /\ (i = 1 \/ ops[i - 1] = "Or") /\ (j = n + 1 \/ ops[j] = "Or")
                    /\ \A k \in i .. j - 1 : ops[k] = "And"
                    /\ \A k \in i .. j : m[k]
      <4>1. PICK k \in 0 .. e : (k = 0 \/ ops[k] = "Or") /\ Together(ops, m, k, e)
        BY <3>3 DEF GroupHolds
      <4> DEFINE i == k + 1
                 j == e + 1
      <4>2. k \in 0 .. n /\ i \in 1 .. n + 1 /\ j \in 1 .. n + 1 /\ i <= j /\ i - 1 = k /\ j - 1 = e
        BY <2>1
      <4>3. (\A l \in i .. e : ops[l] = "And") /\ \A l \in i .. j : m[l]
        BY <3>1, <4>1, <4>2
      <4>4. (i = 1 \/ ops[i - 1] = "Or") /\ (j = n + 1 \/ ops[j] = "Or")
        BY <2>1, <3>3, <4>1
      <4> HIDE DEF i, j
      <4> QED  BY <4>2, <4>3, <4>4
    <3> QED  BY <2>4, <3>2, <3>3
  <2> QED  BY <2>9, <2>10
<1> QED  BY <1>1, <1>2
-----------------------------------------------------------------------------
(* The trace of a stored span is listed under its keys. *)
LEMMA SpanIsIndexed ==
    ASSUME TraceInv, NEW t \in DOMAIN traces, NEW k \in DOMAIN traces[t],
           NEW of \in Indexes, NEW index, IndexExact(index, of), NEW key \in KeysOf(of, traces[t][k])
    PROVE  key \in DOMAIN index /\ t \in index[key]
<1>1. key \in KeysIn(of, traces[t])
  BY KeysInAre
<1>2. ExactFor(index, of, traces)
  BY DEF IndexExact, ExactFor
<1> QED  BY <1>1, <1>2, ExactForMeans

(* The attribute that decides, when a condition with = holds. *)
LEMMA DecidingAttribute ==
    ASSUME NEW s \in Span, NEW c, c.op = "Eq", AttributeMatches(s, c), c.value.type = "String"
    PROVE  \E i \in DOMAIN s.attrs :
              /\ s.attrs[i].key \in CandidateKeys(c.scope, c.name)
              /\ \A j \in DOMAIN s.attrs : s.attrs[j].key \in CandidateKeys(c.scope, c.name) => i <= j
              /\ s.attrs[i].value.type = "String" /\ s.attrs[i].value.text = c.value.text
<1> DEFINE keyed == {i \in DOMAIN s.attrs : s.attrs[i].key \in CandidateKeys(c.scope, c.name)}
           first == CHOOSE i \in keyed : \A j \in keyed : i <= j
<1>1. Len(s.attrs) \in Nat /\ DOMAIN s.attrs = 1 .. Len(s.attrs)
  BY SpanAttributes
<1>2. keyed # {} /\ CompareValue(s.attrs[first].value, "Eq", c.value)
  BY DEF AttributeMatches
<1>3. \E i \in keyed : \A j \in keyed : i <= j
  <2>1. keyed \subseteq 1 .. Len(s.attrs)
    BY <1>1
  <2>2. IsFiniteSet(keyed)
    BY <1>1, <2>1, IntervalCount, FS_Subset
  <2>3. keyed \in SUBSET Int
    BY <1>1, <2>1
  <2> HIDE DEF keyed
  <2> QED  BY <1>2, <2>2, <2>3, SmallestOfFinite
<1>4. first \in keyed /\ \A j \in keyed : first <= j
  <2> HIDE DEF keyed
  <2> QED  BY <1>3
<1>5. s.attrs[first].value.type = "String" /\ s.attrs[first].value.text = c.value.text
  <2> HIDE DEF first
  <2> QED  BY <1>2 DEF CompareValue, CompareText
<1> HIDE DEF first
<1> QED  BY <1>4, <1>5

(* No list that a condition is looked up in lacks a trace with a span that
   satisfies the condition.                                                *)
LEMMA ListsHaveWhatMatches ==
    ASSUME TraceInv, InternerCovers, NEW t \in DOMAIN traces, NEW k \in DOMAIN traces[t],
           NEW c, MatchesCondition(traces[t][k], c), NEW list \in IndexableTraces(c)
    PROVE  t \in list
<1> DEFINE s == traces[t][k]
<1>1. /\ DOMAIN traces[t] = 1 .. Len(traces[t]) /\ s \in Span /\ InternedBy(s) \subseteq interner
      /\ IndexExact(service_index, "service") /\ IndexExact(name_index, "name")
      /\ IndexExact(status_index, "status") /\ IndexExact(attr_index, "attr")
  <2>1. SpansInv /\ IndexesExact
    BY DEF TraceInv
  <2>2. traces[t] \in Seq(Span) /\ DOMAIN traces[t] = 1 .. Len(traces[t])
    BY <2>1, TraceVectors
  <2> QED  BY <2>1, <2>2 DEF IndexesExact, InternerCovers
<1>2. c.op = "Eq"
  BY DEF IndexableTraces, Indexable
<1>3. {"service", "name", "status", "attr"} = Indexes
  BY DEF Indexes
<1>4. CASE c.on = "Name"
  <2>1. list = name_index[c.value.text]
    BY <1>2, <1>4 DEF IndexableTraces, Indexable, Listed
  <2>2. c.value.text = s.name
    BY <1>2, <1>4 DEF MatchesCondition, CompareText
  <2>3. s.name \in KeysOf("name", s)
    BY DEF KeysOf
  <2> QED  BY <1>1, <1>3, <2>1, <2>2, <2>3, SpanIsIndexed
<1>5. CASE c.on = "Status"
  <2>1. list = status_index[c.value.text]
    BY <1>2, <1>5 DEF IndexableTraces, Indexable, Listed
  <2>2. c.value.text = s.status
    BY <1>2, <1>5 DEF MatchesCondition, CompareEnum
  <2>3. s.status \in KeysOf("status", s)
    BY DEF KeysOf
  <2> QED  BY <1>1, <1>3, <2>1, <2>2, <2>3, SpanIsIndexed
<1>6. CASE c.on = "Attribute"
  <2>1. c.value.type = "String" /\ list \in IndexedAttribute(c)
    BY <1>2, <1>6 DEF IndexableTraces, Indexable
  <2>2. AttributeMatches(s, c)
    BY <1>6 DEF MatchesCondition
  <2>3. PICK i \in DOMAIN s.attrs :
            /\ s.attrs[i].key \in CandidateKeys(c.scope, c.name)
            /\ \A j \in DOMAIN s.attrs : s.attrs[j].key \in CandidateKeys(c.scope, c.name) => i <= j
            /\ s.attrs[i].value.type = "String" /\ s.attrs[i].value.text = c.value.text
    <3> HIDE DEF s
    <3> QED  BY <1>1, <1>2, <2>1, <2>2, DecidingAttribute
  <2>4. CASE c.scope = "resource" /\ c.name = ServiceKey
    <3>1. list = service_index[c.value.text]
      BY <2>1, <2>4 DEF IndexedAttribute, Listed
    <3>2. /\ Len(s.attrs) \in Nat /\ DOMAIN s.attrs = 1 .. Len(s.attrs)
          /\ \A j \in DOMAIN s.attrs : s.attrs[j].key # ServiceKey
          /\ \A j \in FirstAt(s.attrs, <<"resource">> \o ServiceKey) : s.attrs[j].value.text = s.service
      BY <1>1, SpanAttributes
    <3>3. CandidateKeys(c.scope, c.name) = {<<"resource">> \o ServiceKey, ServiceKey}
      BY <2>4 DEF CandidateKeys
    <3>4. i \in FirstAt(s.attrs, <<"resource">> \o ServiceKey)
      <4> HIDE DEF s
      <4>1. s.attrs[i].key = <<"resource">> \o ServiceKey
        BY <2>3, <3>2, <3>3
      <4>2. ASSUME NEW j \in 1 .. i - 1, s.attrs[j].key = <<"resource">> \o ServiceKey PROVE FALSE
        <5>1. j \in DOMAIN s.attrs /\ ~ (i <= j)
          BY <3>2
        <5> QED  BY <2>3, <3>3, <4>2, <5>1
      <4> QED  BY <4>1, <4>2 DEF FirstAt
    <3>5. c.value.text = s.service
      BY <2>3, <3>2, <3>4
    <3>6. s.service \in KeysOf("service", s)
      BY DEF KeysOf
    <3> QED  BY <1>1, <1>3, <3>1, <3>5, <3>6, SpanIsIndexed
  <2>5. CASE ~ (c.scope = "resource" /\ c.name = ServiceKey)
    <3> DEFINE keys == CandidateKeys(c.scope, c.name) \cap interner
               key == s.attrs[i].key
               pair == <<key, c.value.text>>
    <3>1. list = UNION {Get(attr_index, <<x, c.value.text>>) : x \in keys}
      BY <2>1, <2>5 DEF IndexedAttribute
    <3>2. key \in keys
      <4>1. key \in InternedBy(s)
        BY DEF InternedBy
      <4> QED  BY <1>1, <2>3, <4>1
    <3>3. pair \in KeysOf("attr", s)
      <4>1. pair \in StringAttrs(s)
        BY <2>3 DEF StringAttrs
      <4> QED  BY <4>1 DEF KeysOf
    <3> HIDE DEF pair
    <3>4. pair \in DOMAIN attr_index /\ t \in attr_index[pair]
      BY <1>1, <1>3, <3>3, SpanIsIndexed
    <3>5. t \in Get(attr_index, pair)
      BY <3>4 DEF Get
    <3>6. t \in Get(attr_index, <<key, c.value.text>>)
      BY <3>5 DEF pair
    <3> HIDE DEF key, keys
    <3> QED  BY <3>1, <3>2, <3>6
  <2> QED  BY <2>4, <2>5
<1>7. c.on \in {"Name", "Status", "Attribute"}
  BY <1>2 DEF IndexableTraces, Indexable
<1> QED  BY <1>4, <1>5, <1>6, <1>7

(* Without an || a span satisfies every condition. *)
LEMMA AllConditionsHold ==
    ASSUME NEW span, NEW selector, Parsed(selector), Satisfies(span, selector),
           \A i \in DOMAIN selector.ops : selector.ops[i] # "Or"
    PROVE  \A i \in DOMAIN selector.conditions : MatchesCondition(span, selector.conditions[i])
<1> DEFINE cs == selector.conditions
           ops == selector.ops
<1>1. CASE cs = << >>
  BY <1>1
<1>2. CASE cs # << >>
  <2>1. Len(ops) \in Nat /\ DOMAIN ops = 1 .. Len(ops) /\ DOMAIN cs = 1 .. Len(ops) + 1 /\ Len(cs) = Len(ops) + 1
    BY <1>2 DEF Parsed
  <2>2. PICK i \in DOMAIN cs, j \in DOMAIN cs :
           /\ i = 1 \/ ops[i - 1] = "Or"
           /\ j = Len(cs) \/ ops[j] = "Or"
           /\ \A k \in i .. j : MatchesCondition(span, cs[k])
    BY <1>2 DEF Satisfies
  <2>3. i = 1 /\ j = Len(cs)
    <3> HIDE DEF cs, ops
    <3>1. i # 1 => i - 1 \in 1 .. Len(ops)
      BY <2>1
    <3>2. j # Len(cs) => j \in 1 .. Len(ops)
      BY <2>1
    <3> QED  BY <2>1, <2>2, <3>1, <3>2 DEF ops
  <2> QED  BY <2>1, <2>2, <2>3
<1> QED  BY <1>1, <1>2

(* Narrowing hides no span that satisfies the selector. *)
LEMMA NarrowingIsSafe ==
    ASSUME TraceInv, InternerCovers, NEW selector, Parsed(selector),
           NEW t \in DOMAIN traces, NEW k \in DOMAIN traces[t], Satisfies(traces[t][k], selector)
    PROVE  t \in CandidateTraceIds(selector)
<1> DEFINE lists == UNION {IndexableTraces(selector.conditions[i]) : i \in DOMAIN selector.conditions}
           anyOr == \E i \in DOMAIN selector.ops : selector.ops[i] = "Or"
<1>1. ASSUME ~anyOr, NEW list \in lists PROVE t \in list
  <2>1. PICK i \in DOMAIN selector.conditions : list \in IndexableTraces(selector.conditions[i])
    BY <1>1
  <2>2. MatchesCondition(traces[t][k], selector.conditions[i])
    BY <1>1, AllConditionsHold
  <2> QED  BY <2>1, <2>2, ListsHaveWhatMatches
<1>2. CandidateTraceIds(selector) =
         IF anyOr \/ lists = {} THEN DOMAIN traces
         ELSE {u \in DOMAIN traces : \A list \in lists : u \in list}
  BY DEF CandidateTraceIds
<1> HIDE DEF lists, anyOr
<1> QED  BY <1>1, <1>2

LEMMA SelectorFindsItsSpans ==
    ASSUME TraceInv, InternerCovers, NEW selector, Parsed(selector)
    PROVE  EvalSpanSelector(selector) =
              {span \in UNION {SpansIn(traces[t]) : t \in DOMAIN traces} : Satisfies(span, selector)}
<1> DEFINE found == EvalSpanSelector(selector)
           wanted == {span \in UNION {SpansIn(traces[t]) : t \in DOMAIN traces} : Satisfies(span, selector)}
<1>1. CandidateTraceIds(selector) \subseteq DOMAIN traces
  BY DEF CandidateTraceIds
<1>2. ASSUME NEW span \in found PROVE span \in wanted
  <2>1. PICK t \in CandidateTraceIds(selector) : \E i \in MatchedSpans(traces[t], selector) : span = traces[t][i]
    BY <1>2 DEF EvalSpanSelector
  <2>2. PICK i \in DOMAIN traces[t] : span = traces[t][i] /\ MatchesSelector(span, selector)
    BY <2>1 DEF MatchedSpans
  <2> QED  BY <1>1, <2>1, <2>2, MatchesAreSatisfied DEF SpansIn
<1>3. ASSUME NEW span \in wanted PROVE span \in found
  <2>1. PICK t \in DOMAIN traces : span \in SpansIn(traces[t])
    OBVIOUS
  <2>2. PICK i \in DOMAIN traces[t] : span = traces[t][i]
    BY <2>1 DEF SpansIn
  <2>3. Satisfies(traces[t][i], selector)
    BY <2>2
  <2>4. i \in MatchedSpans(traces[t], selector)
    BY <2>3, MatchesAreSatisfied DEF MatchedSpans
  <2>5. t \in CandidateTraceIds(selector)
    BY <2>3, NarrowingIsSafe
  <2> QED  BY <2>2, <2>4, <2>5 DEF EvalSpanSelector
<1> HIDE DEF found, wanted
<1>4. found = wanted
  BY <1>2, <1>3
<1> QED  BY <1>4 DEF found, wanted

-----------------------------------------------------------------------------
(* Searches change nothing in the store. *)
LEMMA SearchesOnlyRead == SearchSpec => Spec
<1>1. SearchInit => Init
  BY DEF SearchInit
<1>2. [SearchNext]_searchVars => [Next]_vars
  BY DEF SearchNext, searchVars, vars, BeginQueryTraces, EndQueryTraces
<1> QED  BY <1>1, <1>2, PTL DEF SearchSpec, Spec

(* A selector, narrowed by the indexes and evaluated in one pass, finds
   exactly the spans that satisfy it: candidate_trace_ids and
   span_matches_conditions of src/src/query/traceql/eval.rs.               *)
THEOREM SelectorsAlwaysFindTheirSpans == SearchSpec => []SelectorsFindTheirSpans
<1>1. TraceInv /\ InternerCovers => SelectorsFindTheirSpans
  <2> QED  BY SelectorConstants, SelectorFindsItsSpans DEF SelectorsFindTheirSpans
<1> QED  BY <1>1, SearchesOnlyRead, InternedAlways, PTL
-----------------------------------------------------------------------------
(* is_descendant: the states of the walk up from b that looks for a. *)
FirstStep(a, b) == [at |-> b, visited |-> {}, found |-> FALSE, done |-> b = a]

NextStep(spans, a, w) ==
    LET parent == ParentOf(spans, w.at)
        found == parent # NoParent /\ ReachesAncestor(w.at, parent, a)
    IN  IF w.done THEN w
        ELSE IF found \/ parent = NoParent \/ parent \in w.visited
        THEN [w EXCEPT !.done = TRUE, !.found = found]
        ELSE [w EXCEPT !.at = parent, !.visited = @ \cup {w.at}]

Walks(spans, a, b, walk) ==
    walk = [n \in 0 .. Len(spans) |-> IF n = 0 THEN FirstStep(a, b) ELSE NextStep(spans, a, walk[n - 1])]

(* Where the walk may be. *)
Ups(spans) == SpanIds(spans) \cup {NoParent} \cup {ParentOf(spans, id) : id \in SpanIds(spans)}

WalkStates(spans) ==
    [at : Ups(spans), visited : SUBSET Ups(spans), found : BOOLEAN, done : BOOLEAN]

LEMMA ParentsOfIds ==
    ASSUME NEW spans, NEW id, id \notin SpanIds(spans)
    PROVE  ParentOf(spans, id) = NoParent
BY DEF ParentOf, SpanMap, SpanIds

LEMMA NextStepIsState ==
    ASSUME NEW spans, NEW a, NEW w \in WalkStates(spans)
    PROVE  NextStep(spans, a, w) \in WalkStates(spans)
<1> DEFINE parent == ParentOf(spans, w.at)
           found == parent # NoParent /\ ReachesAncestor(w.at, parent, a)
<1>1. parent \in Ups(spans)
  BY ParentsOfIds DEF Ups
<1>2. w.at \in Ups(spans) /\ w.visited \in SUBSET Ups(spans)
  BY DEF WalkStates
<1>3. [w EXCEPT !.done = TRUE, !.found = found] \in WalkStates(spans)
  <2>1. found \in BOOLEAN
    OBVIOUS
  <2> HIDE DEF found
  <2> QED  BY <2>1 DEF WalkStates
<1>4. [w EXCEPT !.at = parent, !.visited = w.visited \cup {w.at}] \in WalkStates(spans)
  <2>1. w.visited \cup {w.at} \in SUBSET Ups(spans)
    BY <1>2
  <2> HIDE DEF parent
  <2> QED  BY <1>1, <2>1 DEF WalkStates
<1> QED  BY <1>3, <1>4 DEF NextStep

LEMMA WalkExists ==
    ASSUME NEW spans, Len(spans) \in Nat, NEW a, NEW b \in SpanIds(spans)
    PROVE  \E walk : Walks(spans, a, b, walk) /\ walk \in [0 .. Len(spans) -> WalkStates(spans)]
<1> DEFINE N == Len(spans)
           T == WalkStates(spans)
           base == FirstStep(a, b)
           step == [p \in (1 .. N) \X T |-> NextStep(spans, a, p[2])]
<1>1. base \in T
  <2>1. b \in Ups(spans)
    BY DEF Ups
  <2>2. (b = a) \in BOOLEAN
    OBVIOUS
  <2> QED  BY <2>1, <2>2 DEF FirstStep, WalkStates
<1>2. \A w \in T : NextStep(spans, a, w) \in T
  BY NextStepIsState
<1> HIDE DEF T, base
<1>3. /\ step \in [(1 .. N) \X T -> T]
      /\ \A i \in 1 .. N, w \in T : step[<<i, w>>] = NextStep(spans, a, w)
  BY <1>2
<1> HIDE DEF step
<1>4. PICK f : Stepwise(N, T, base, step, f)
  BY <1>1, <1>3, StepwiseExists
<1>5. f \in [0 .. N -> T] /\ f[0] = base /\ \A i \in 1 .. N : f[i] = step[<<i, f[i - 1]>>]
  BY <1>4 DEF Stepwise
<1>6. \A i \in 1 .. N : f[i - 1] \in T
  BY <1>5
<1>7. \A i \in 1 .. N : f[i] = NextStep(spans, a, f[i - 1])
  BY <1>3, <1>5, <1>6
<1>8. f = [i \in 0 .. N |-> IF i = 0 THEN base ELSE NextStep(spans, a, f[i - 1])]
  BY <1>5, <1>7
<1> QED  BY <1>5, <1>8 DEF Walks, base, T
(* The parents that a span names, among the spans of the trace. *)
Parents(spans) == {p \in SpanIds(spans) \X SpanIds(spans) : ParentOf(spans, p[1]) = p[2]}

LEMMA ReachedIsClosed ==
    ASSUME NEW spans, NEW b, NEW x \in SpanIds(spans), ParentOf(spans, x) \in SpanIds(spans),
           x = b \/ x \in ReachedFrom(SpanIds(spans), Parents(spans), b)
    PROVE  ParentOf(spans, x) \in ReachedFrom(SpanIds(spans), Parents(spans), b)
<1> DEFINE y == ParentOf(spans, x)
           S == SpanIds(spans)
           edges == Parents(spans)
<1>1. <<x, y>> \in edges
  BY DEF Parents
<1> HIDE DEF y, edges
<1>2. ASSUME NEW closed \in SUBSET S, \A e \in edges : e[1] \in closed \cup {b} => e[2] \in closed
      PROVE  y \in closed
  <2>1. x \in closed \cup {b}
    BY <1>2 DEF ReachedFrom, edges
  <2>2. <<x, y>>[1] = x /\ <<x, y>>[2] = y
    OBVIOUS
  <2> QED  BY <1>1, <1>2, <2>1, <2>2
<1>3. y \in S
  BY DEF y
<1> HIDE DEF S
<1>4. y \in ReachedFrom(S, edges, b)
  BY <1>2, <1>3 DEF ReachedFrom
<1> QED  BY <1>4 DEF y, S, edges

(* What holds after n steps: the walk has been at ancestors of b, all in a
   row, has not passed a, and has seen a new span at every step until it
   was done.                                                               *)
OnTheWay(spans, a, b, n, w) ==
    LET seen == w.visited \cup {w.at}
        reached == ReachedFrom(SpanIds(spans), Parents(spans), b)
    IN  /\ w.visited \subseteq SpanIds(spans)
        /\ b \in seen
        /\ \A v \in w.visited : ParentOf(spans, v) \in seen
        /\ w.at \notin w.visited \/ ParentOf(spans, w.at) = w.at
        /\ \A v \in seen \cap SpanIds(spans) : v = b \/ v \in reached
        /\ ~w.found => a \notin seen \/ a = b
        /\ ~w.done => ~w.found /\ a # b /\ Cardinality(w.visited) = n
        /\ w.done /\ w.found => a # b /\ a \in reached
        /\ w.done /\ ~w.found => a = b \/ ParentOf(spans, w.at) \in w.visited \cup {NoParent}

LEMMA FirstStepIsOnTheWay ==
    ASSUME NEW spans, NEW a, NEW b \in SpanIds(spans)
    PROVE  OnTheWay(spans, a, b, 0, FirstStep(a, b))
<1> DEFINE w == FirstStep(a, b)
<1>1. w.at = b /\ w.visited = {} /\ ~w.found /\ (w.done <=> b = a)
  BY DEF FirstStep
<1>2. Cardinality({}) = 0
  BY FS_EmptySet
<1> HIDE DEF w
<1>3. OnTheWay(spans, a, b, 0, w)
  BY <1>1, <1>2 DEF OnTheWay
<1> QED  BY <1>3 DEF w

LEMMA NextStepIsOnTheWay ==
    ASSUME NEW spans, IsFiniteSet(SpanIds(spans)), NoParent \notin SpanIds(spans),
           NEW a \in SpanIds(spans), NEW b \in SpanIds(spans),
           NEW n \in Nat, NEW w \in WalkStates(spans), OnTheWay(spans, a, b, n, w)
    PROVE  OnTheWay(spans, a, b, n + 1, NextStep(spans, a, w))
<1> DEFINE u == NextStep(spans, a, w)
           S == SpanIds(spans)
           parent == ParentOf(spans, w.at)
           found == parent # NoParent /\ ReachesAncestor(w.at, parent, a)
           reached == ReachedFrom(S, Parents(spans), b)
<1>1. found <=> parent # NoParent /\ parent = a
  BY DEF ReachesAncestor
<1>2. parent # NoParent => w.at \in S
  BY ParentsOfIds
<1>3. CASE w.done
  <2>1. u = w
    BY <1>3 DEF NextStep
  <2> QED  BY <1>3, <2>1 DEF OnTheWay
<1>4. CASE ~w.done /\ (found \/ parent = NoParent \/ parent \in w.visited)
  <2>1. u = [w EXCEPT !.done = TRUE, !.found = found]
    BY <1>4 DEF NextStep
  <2>2. u.at = w.at /\ u.visited = w.visited /\ u.done = TRUE /\ u.found = found
    BY <2>1 DEF WalkStates
  <2>3. found => a # b /\ a \in reached
    BY <1>1, <1>2, <1>4, ReachedIsClosed DEF OnTheWay
  <2>4. u.found <=> found
    BY <2>2
  <2> HIDE DEF u, found, reached
  <2>5. ~found => parent \in w.visited \cup {NoParent}
    BY <1>4
  <2> QED  BY <1>4, <2>2, <2>3, <2>4, <2>5 DEF OnTheWay, u, reached
<1>5. CASE ~w.done /\ ~(found \/ parent = NoParent \/ parent \in w.visited)
  <2>1. u = [w EXCEPT !.at = parent, !.visited = w.visited \cup {w.at}]
    BY <1>5 DEF NextStep
  <2>2. u.at = parent /\ u.visited = w.visited \cup {w.at} /\ u.done = w.done /\ u.found = w.found
    BY <2>1 DEF WalkStates
  <2>3. w.at \in S /\ w.at \notin w.visited
    BY <1>2, <1>5 DEF OnTheWay
  <2>4. parent # a
    BY <1>1, <1>5
  <2>5. parent \in S => parent \in reached
    BY <2>3, ReachedIsClosed DEF OnTheWay
  <2>6. Cardinality(w.visited \cup {w.at}) = n + 1
    <3>1. IsFiniteSet(w.visited) /\ Cardinality(w.visited) = n
      BY <1>5, FS_Subset DEF OnTheWay
    <3> QED  BY <2>3, <3>1, FS_AddElement
  <2> HIDE DEF u, found, reached
  <2>7. parent \in w.visited \cup {w.at} => ParentOf(spans, parent) = parent
    BY <1>5
  <2>8. u.visited \subseteq S /\ b \in u.visited \cup {u.at}
    BY <2>2, <2>3 DEF OnTheWay
  <2>9. \A v \in u.visited : ParentOf(spans, v) \in u.visited \cup {u.at}
    BY <2>2 DEF OnTheWay
  <2>10. \A v \in (u.visited \cup {u.at}) \cap S : v = b \/ v \in reached
    BY <2>2, <2>5 DEF OnTheWay, reached
  <2>11. ~w.found /\ a # b /\ a \notin w.visited \cup {w.at}
    BY <1>5 DEF OnTheWay
  <2> QED  BY <1>5, <2>2, <2>4, <2>6, <2>7, <2>8, <2>9, <2>10, <2>11 DEF OnTheWay, u, reached
<1> QED  BY <1>3, <1>4, <1>5

(* Where the walk is done without having found a, what it has seen is
   closed, and a is not in it.                                             *)
LEMMA DoneIsClosed ==
    ASSUME NEW spans, NoParent \notin SpanIds(spans), NEW a \in SpanIds(spans), NEW b \in SpanIds(spans),
           NEW n, NEW w, OnTheWay(spans, a, b, n, w), w.done, ~w.found, a # b
    PROVE  a \notin ReachedFrom(SpanIds(spans), Parents(spans), b)
<1> DEFINE closed == (w.visited \cup {w.at}) \cap SpanIds(spans)
<1>1. closed \in SUBSET SpanIds(spans) /\ a \notin closed /\ b \in closed
  BY DEF OnTheWay
<1>2. ASSUME NEW e \in Parents(spans), e[1] \in closed \cup {b} PROVE e[2] \in closed
  <2>1. e[2] \in SpanIds(spans) /\ ParentOf(spans, e[1]) = e[2] /\ e[1] \in closed
    BY <1>1, <1>2 DEF Parents
  <2>2. ParentOf(spans, w.at) \in w.visited \cup {NoParent}
    BY DEF OnTheWay
  <2>3. e[1] \in w.visited \/ e[1] = w.at
    BY <2>1
  <2>4. e[2] \in w.visited \cup {w.at}
    BY <2>1, <2>2, <2>3 DEF OnTheWay
  <2> QED  BY <2>1, <2>4
<1> HIDE DEF closed
<1> QED  BY <1>1, <1>2 DEF ReachedFrom

LEMMA WalkFindsDescendants ==
    ASSUME NEW spans, NEW N \in Nat, Len(spans) = N, DOMAIN spans = 1 .. N,
           NoParent \notin SpanIds(spans), NEW a \in SpanIds(spans), NEW b \in SpanIds(spans)
    PROVE  IsDescendant(spans, a, b) <=> a # b /\ a \in ReachedFrom(SpanIds(spans), Parents(spans), b)
<1> DEFINE S == SpanIds(spans)
           reached == ReachedFrom(S, Parents(spans), b)
<1>1. IsFiniteSet(S) /\ Cardinality(S) <= N
  <2> DEFINE f == [i \in 1 .. N |-> spans[i].id]
  <2>1. f \in Surjection(1 .. N, S)
    BY DEF Surjection, SpanIds
  <2> HIDE DEF f
  <2>2. IsFiniteSet(1 .. N) /\ Cardinality(1 .. N) = N
    BY IntervalCount
  <2> QED  BY <2>1, <2>2, FS_Surjection
<1>2. PICK g : Walks(spans, a, b, g)
  BY WalkExists
<1> DEFINE body(f) == [n \in 0 .. Len(spans) |->
                          IF n = 0 THEN FirstStep(a, b) ELSE NextStep(spans, a, f[n - 1])]
           walk == CHOOSE f : f = body(f)
<1>3. IsDescendant(spans, a, b) <=> walk[N].found
  BY DEF IsDescendant, FirstStep, NextStep
<1>4. walk = body(walk)
  <2>1. \E f : f = body(f)
    BY <1>2 DEF Walks
  <2> HIDE DEF body
  <2> QED  BY <2>1
<1> HIDE DEF walk
<1>5. walk[0] = FirstStep(a, b) /\ \A n \in 1 .. N : walk[n] = NextStep(spans, a, walk[n - 1])
  BY <1>4
<1> HIDE DEF body
<1> DEFINE Good == {n \in 0 .. N : walk[n] \in WalkStates(spans) /\ OnTheWay(spans, a, b, n, walk[n])}
<1>6. 0 \in Good
  <2>1. FirstStep(a, b) \in WalkStates(spans)
    <3>1. b \in Ups(spans) /\ (b = a) \in BOOLEAN
      BY DEF Ups
    <3> QED  BY <3>1 DEF FirstStep, WalkStates
  <2> QED  BY <1>5, <2>1, FirstStepIsOnTheWay
<1>7. ASSUME NEW n \in 0 .. N, n \in Good, n < N PROVE n + 1 \in Good
  <2>1. n \in Nat /\ n + 1 \in 1 .. N /\ (n + 1) - 1 = n
    BY <1>7
  <2>2. walk[n + 1] = NextStep(spans, a, walk[n])
    BY <1>5, <2>1
  <2>3. walk[n] \in WalkStates(spans) /\ OnTheWay(spans, a, b, n, walk[n])
    BY <1>7
  <2>4. NextStep(spans, a, walk[n]) \in WalkStates(spans)
    BY <2>3, NextStepIsState
  <2>5. OnTheWay(spans, a, b, n + 1, NextStep(spans, a, walk[n]))
    BY <1>1, <2>1, <2>3, NextStepIsOnTheWay
  <2> QED  BY <2>1, <2>2, <2>4, <2>5
<1>8. walk[N] \in WalkStates(spans) /\ OnTheWay(spans, a, b, N, walk[N])
  <2>1. \A n \in 0 .. N : n \in Good
    <3> HIDE DEF Good
    <3> QED  BY <1>6, <1>7, CountUp
  <2>2. N \in 0 .. N
    OBVIOUS
  <2> QED  BY <2>1, <2>2
<1> HIDE DEF Good
<1>9. walk[N].done
  <2> SUFFICES ASSUME ~walk[N].done PROVE FALSE
    OBVIOUS
  <2>1. /\ walk[N].visited \subseteq S /\ a \notin walk[N].visited /\ Cardinality(walk[N].visited) = N
    BY <1>8 DEF OnTheWay
  <2>2. walk[N].visited \subseteq S \ {a} /\ IsFiniteSet(S \ {a})
    BY <1>1, <2>1, FS_Subset
  <2>3. Cardinality(S \ {a}) = Cardinality(S) - 1 /\ Cardinality(S) \in Nat
    BY <1>1, FS_RemoveElement, FS_CardinalityType
  <2>4. Cardinality(walk[N].visited) <= Cardinality(S \ {a})
    BY <2>2, FS_Subset
  <2> QED  BY <1>1, <2>1, <2>3, <2>4
<1>10. CASE walk[N].found
  BY <1>3, <1>8, <1>9, <1>10 DEF OnTheWay
<1>11. CASE ~walk[N].found
  BY <1>3, <1>8, <1>9, <1>11, DoneIsClosed
<1> QED  BY <1>10, <1>11

(* A stored trace is a vector of spans with ids. *)
LEMMA StoredTraces ==
    ASSUME TraceInv, NEW t \in DOMAIN traces
    PROVE  /\ Len(traces[t]) \in Nat /\ DOMAIN traces[t] = 1 .. Len(traces[t])
           /\ \A i \in 1 .. Len(traces[t]) : traces[t][i] \in Span
           /\ NoParent \notin SpanIds(traces[t])
<1>1. traces[t] \in Seq(Span) /\ Len(traces[t]) \in Nat /\ DOMAIN traces[t] = 1 .. Len(traces[t])
  BY TraceVectors DEF TraceInv
<1>2. \A i \in 1 .. Len(traces[t]) : traces[t][i] \in Span
  BY <1>1
<1> QED  BY <1>1, <1>2, SpanAttributes DEF SpanIds

(* The walk of is_descendant (src/src/query/traceql/eval.rs), which gives up
   at the second visit of a span, finds exactly the proper descendants,
   whatever ids repeat, parents are missing or go round in a circle.       *)
THEOREM DescendantAlwaysIsTransitiveClosure == SearchSpec => []DescendantIsTransitiveClosure
<1>1. TraceInv => DescendantIsTransitiveClosure
  <2> SUFFICES ASSUME TraceInv, NEW t \in DOMAIN traces,
                      NEW a \in SpanIds(traces[t]), NEW b \in SpanIds(traces[t])
               PROVE  IsDescendant(traces[t], a, b) <=>
                        a # b /\ a \in ReachedFrom(SpanIds(traces[t]), Parents(traces[t]), b)
    BY DEF DescendantIsTransitiveClosure, Parents
  <2> QED  BY StoredTraces, WalkFindsDescendants
<1> QED  BY <1>1, SearchesOnlyRead, TraceInvariant, PTL
-----------------------------------------------------------------------------
(* What SearchConstants says of stored spans. *)
LEMMA SpanNumbers ==
    ASSUME NEW s \in Span
    PROVE  s.duration \in Int /\ s.ts \in 0 .. MaxI64 /\ s.trace \in Int
<1>1. PICK shape \in SpanShapes, seq \in Nat : s = Stamped(shape, seq)
  BY DEF Span
<1>2. /\ "duration" \in DOMAIN shape /\ shape.duration \in Int
      /\ shape.ts \in 0 .. MaxI64 /\ shape.trace \in Int
  BY SearchConstants
<1>3. s.ts = shape.ts /\ s.trace = shape.trace
  BY <1>1, SpanFields
<1>4. s.duration = shape.duration
  BY <1>1, <1>2 DEF Stamped
<1> QED  BY <1>2, <1>3, <1>4

LEMMA StoredTraceIds ==
    ASSUME TraceInv, NEW t \in DOMAIN traces
    PROVE  t \in Int /\ Len(traces[t]) # 0
<1>1. traces[t] # << >> /\ \A i \in 1 .. Len(traces[t]) : traces[t][i].trace = t
  BY DEF TraceInv, SpansInv, IndexesExact
<1>2. traces[t] \in Seq(Span) /\ Len(traces[t]) \in Nat
  BY TraceVectors DEF TraceInv
<1>3. Len(traces[t]) # 0
  BY <1>1, <1>2, EmptySeq
<1>4. 1 \in 1 .. Len(traces[t])
  BY <1>2, <1>3
<1>5. traces[t][1] \in Span
  BY <1>4, StoredTraces
<1> QED  BY <1>1, <1>3, <1>4, <1>5, SpanNumbers

(* What a query finds. *)
LEMMA EvaluationFinds ==
    ASSUME TraceInv, NEW expr
    PROVE  /\ DOMAIN EvaluateTraceQL(expr) \subseteq DOMAIN traces
           /\ IsFiniteSet(DOMAIN EvaluateTraceQL(expr))
           /\ \A t \in DOMAIN EvaluateTraceQL(expr) :
                 /\ PassesPipeline(expr, traces[t])
                 /\ EvaluateTraceQL(expr)[t] = MatchedIn(expr, traces[t])
                 /\ EvaluateTraceQL(expr)[t] \subseteq DOMAIN traces[t]
<1>1. \A selector : CandidateTraceIds(selector) \subseteq DOMAIN traces
  BY DEF CandidateTraceIds
<1>2. \A spans : MatchedIn(expr, spans) \subseteq DOMAIN spans
  BY DEF MatchedIn, MatchedSpans, StructuralMatches
<1>3. IsFiniteSet(DOMAIN traces)
  BY DEF TraceInv, SpansInv
<1>4. /\ DOMAIN EvaluateTraceQL(expr) \subseteq DOMAIN traces
      /\ \A t \in DOMAIN EvaluateTraceQL(expr) :
            /\ PassesPipeline(expr, traces[t])
            /\ EvaluateTraceQL(expr)[t] = MatchedIn(expr, traces[t])
  BY <1>1 DEF EvaluateTraceQL
<1> QED  BY <1>2, <1>3, <1>4, FS_Subset

(* A vector that is cut. *)
LEMMA TruncateCuts ==
    ASSUME NEW T, NEW s \in Seq(T), NEW limit \in Nat
    PROVE  /\ Truncate(s, limit) \in Seq(T)
           /\ Len(Truncate(s, limit)) = IF Len(s) < limit THEN Len(s) ELSE limit
           /\ \A i \in DOMAIN Truncate(s, limit) : Truncate(s, limit)[i] = s[i]
<1> DEFINE m == IF Len(s) < limit THEN Len(s) ELSE limit
<1>1. Len(s) \in Nat /\ m \in Nat /\ m <= Len(s)
  OBVIOUS
<1> DEFINE one == 1
           cut == SubSeq(s, one, m)
<1>2. Truncate(s, limit) = cut
  BY DEF Truncate
<1> HIDE DEF m
<1>3. \A i \in one .. m : s[i] \in T
  BY <1>1
<1>4. one \in Int /\ m \in Int
  BY <1>1
<1>5. /\ cut \in Seq(T) /\ Len(cut) = IF one <= m THEN m - one + 1 ELSE 0
      /\ \A i \in 1 .. m - one + 1 : cut[i] = s[one + i - 1]
  <2> HIDE DEF one
  <2> QED  BY <1>3, <1>4, SubSeqProperties
<1> HIDE DEF cut
<1>6. cut \in Seq(T) /\ Len(cut) = m /\ \A i \in 1 .. m : cut[i] = s[i]
  BY <1>1, <1>5
<1> QED  BY <1>1, <1>2, <1>6 DEF m

(* A line of a finite set is a vector of its elements, each once. *)
LEMMA LineIsVector ==
    ASSUME NEW S, IsFiniteSet(S), NEW order, IsLine(S, order)
    PROVE  LineUp(S, order) \in Seq(S) /\ Len(LineUp(S, order)) = Cardinality(S)
<1>1. Cardinality(S) \in Nat /\ LineUp(S, order) \in [1 .. Cardinality(S) -> S]
  BY LinedUp DEF Bijection, Injection
<1> QED  BY <1>1

(* Among the spans at some positions there are not more than positions. *)
LEMMA SpansAtCount ==
    ASSUME NEW n \in Nat, NEW spans, NEW at \in SUBSET (1 .. n), NEW S, S \subseteq {spans[i] : i \in at}
    PROVE  /\ Cardinality(S) \in Nat /\ Cardinality(at) \in Nat /\ Cardinality(S) <= Cardinality(at)
           /\ Cardinality(at) <= n
<1> DEFINE image == {spans[i] : i \in at}
           f == [i \in at |-> spans[i]]
<1>1. IsFiniteSet(at) /\ Cardinality(at) <= n /\ Cardinality(at) \in Nat
  <2>1. IsFiniteSet(1 .. n) /\ Cardinality(1 .. n) = n
    BY IntervalCount
  <2>2. IsFiniteSet(at) /\ Cardinality(at) <= n
    BY <2>1, FS_Subset
  <2> QED  BY <2>2, FS_CardinalityType
<1>2. f \in Surjection(at, image)
  BY DEF Surjection
<1> HIDE DEF f
<1>3. S \subseteq image
  OBVIOUS
<1> HIDE DEF image
<1>4. IsFiniteSet(image) /\ Cardinality(image) <= Cardinality(at) /\ Cardinality(image) \in Nat
  BY <1>1, <1>2, FS_Surjection, FS_CardinalityType
<1>5. IsFiniteSet(S) /\ Cardinality(S) <= Cardinality(image) /\ Cardinality(S) \in Nat
  BY <1>3, <1>4, FS_Subset, FS_CardinalityType
<1> QED  BY <1>1, <1>4, <1>5
(* A call between its locks holds a page cut from what it found, of traces
   of which it saw spans.                                                  *)
CallInv ==
    \A c \in ToSet(call) :
        /\ c.limit \in Nat /\ c.total \in Nat
        /\ c.page \in Seq(Int)
        /\ Len(c.page) = IF c.total < c.limit THEN c.total ELSE c.limit
        /\ \A i \in DOMAIN c.page :
              /\ c.saw[c.page[i]].spans # {}
              /\ c.saw[c.page[i]].matched \subseteq c.saw[c.page[i]].spans

LEMMA BeginMakesCall ==
    ASSUME TraceInv, NEW args \in Filters, BeginQueryTraces(args)
    PROVE  CallInv'
<1> DEFINE found == EvaluateTraceQL(AskedExpression(args))
           S == DOMAIN found
           byId == {p \in S \X S : p[1] < p[2]}
           line == LineUp(S, byId)
           limit == PageLimit(args)
           page == Truncate(line, limit)
           saw == [t \in ToSet(page) |-> [spans |-> SpansIn(traces[t]),
                                          matched |-> {traces[t][i] : i \in found[t]}]]
<1>1. call' = <<[page |-> page, total |-> Cardinality(S), limit |-> limit, saw |-> saw]>>
  BY DEF BeginQueryTraces
<1>2. limit \in Nat
  <2>1. args.limit \in Seq(Nat) /\ DefaultPage \in Nat /\ MaxPage \in Nat
    BY SearchConstants
  <2>2. args.limit # << >> => args.limit[1] \in Nat
    BY <2>1
  <2> QED  BY <2>1, <2>2 DEF PageLimit
<1>3. /\ S \subseteq DOMAIN traces /\ IsFiniteSet(S) /\ Cardinality(S) \in Nat
      /\ \A t \in S : found[t] \subseteq DOMAIN traces[t]
  BY EvaluationFinds, FS_CardinalityType
<1>4. S \subseteq Int /\ \A t \in S : Len(traces[t]) # 0
  BY <1>3, StoredTraceIds
<1> HIDE DEF found, S
<1>5. \A x, y \in S : <<x, y>> \in byId <=> x < y
  OBVIOUS
<1> HIDE DEF byId
<1>6. IsLine(S, byId)
  <2>1. \A x \in S : x \in Int
    BY <1>4
  <2> QED  BY <1>5, <2>1 DEF IsLine
<1>7. line \in Seq(S) /\ Len(line) = Cardinality(S)
  BY <1>3, <1>6, LineIsVector
<1> HIDE DEF line, limit
<1>8. page \in Seq(S) /\ Len(page) = IF Cardinality(S) < limit THEN Cardinality(S) ELSE limit
  BY <1>2, <1>3, <1>7, TruncateCuts
<1> HIDE DEF page
<1>9. page \in Seq(Int) /\ \A i \in DOMAIN page : page[i] \in S /\ page[i] \in ToSet(page)
  <2>1. /\ Len(page) \in Nat /\ DOMAIN page = 1 .. Len(page)
        /\ page \in [1 .. Len(page) -> S] /\ \A i \in 1 .. Len(page) : page[i] \in S
    BY <1>8
  <2>2. page \in [1 .. Len(page) -> Int]
    BY <1>4, <2>1
  <2>3. page \in Seq(Int)
    BY <2>1, <2>2
  <2> QED  BY <2>1, <2>3 DEF ToSet
<1>10. ASSUME NEW i \in DOMAIN page
       PROVE  saw[page[i]].spans # {} /\ saw[page[i]].matched \subseteq saw[page[i]].spans
  <2> DEFINE t == page[i]
  <2>1. t \in S /\ t \in ToSet(page)
    BY <1>9
  <2> HIDE DEF t
  <2>2. /\ saw[t].spans = SpansIn(traces[t])
        /\ saw[t].matched = {traces[t][k] : k \in found[t]}
    BY <2>1
  <2>3. Len(traces[t]) \in Nat /\ DOMAIN traces[t] = 1 .. Len(traces[t]) /\ Len(traces[t]) # 0
    BY <1>3, <1>4, <2>1, StoredTraces
  <2>4. 1 \in DOMAIN traces[t]
    BY <2>3
  <2>5. traces[t][1] \in SpansIn(traces[t])
    BY <2>4 DEF SpansIn
  <2>6. {traces[t][k] : k \in found[t]} \subseteq SpansIn(traces[t])
    BY <1>3, <2>1 DEF SpansIn
  <2> HIDE DEF saw
  <2>7. saw[t].spans # {} /\ saw[t].matched \subseteq saw[t].spans
    BY <2>2, <2>5, <2>6
  <2> QED  BY <2>7 DEF t
<1> HIDE DEF saw
<1> DEFINE c == [page |-> page, total |-> Cardinality(S), limit |-> limit, saw |-> saw]
<1>11. c.page = page /\ c.total = Cardinality(S) /\ c.limit = limit /\ c.saw = saw
  OBVIOUS
<1>12. ToSet(call') = {c}
  <2> HIDE DEF c
  <2>1. call' = <<c>>
    BY <1>1 DEF c
  <2> QED  BY <2>1 DEF ToSet
<1> HIDE DEF c
<1> QED  BY <1>2, <1>3, <1>8, <1>9, <1>10, <1>11, <1>12 DEF CallInv, ToSet

LEMMA CallsAlways == SearchSpec => [](TraceInv /\ InternerCovers /\ CallInv)
<1>1. SearchInit => CallInv
  <2> SUFFICES ASSUME call = << >> PROVE CallInv
    BY DEF SearchInit
  <2>1. ToSet(call) = {}
    BY DEF ToSet
  <2> QED  BY <2>1 DEF CallInv
<1>2. TraceInv /\ CallInv /\ [SearchNext]_searchVars => CallInv'
  <2> SUFFICES ASSUME TraceInv, CallInv, [SearchNext]_searchVars PROVE CallInv'
    OBVIOUS
  <2>1. CASE UNCHANGED call
    BY <2>1 DEF CallInv, ToSet
  <2>2. ASSUME NEW args \in Filters, BeginQueryTraces(args) PROVE CallInv'
    BY <2>2, BeginMakesCall
  <2>3. CASE EndQueryTraces
    <3>1. ToSet(call') = {}
      BY <2>3 DEF EndQueryTraces, ToSet
    <3> QED  BY <3>1 DEF CallInv, ToSet
  <2> QED  BY <2>1, <2>2, <2>3 DEF SearchNext, searchVars
<1> QED  BY <1>1, <1>2, SearchesOnlyRead, InternedAlways, PTL DEF SearchSpec

(* The summary of a trace counts all its spans, and its errors are at least
   the failed ones among some of them.                                     *)
LEMMA SummaryCounts ==
    ASSUME TraceInv, NEW t \in DOMAIN traces, NEW S, S \subseteq SpansIn(traces[t])
    PROVE  /\ TraceResult(traces[t]).spans >= Cardinality(S)
           /\ TraceResult(traces[t]).errors >= Cardinality({s \in S : s.status = <<"error">>})
<1> DEFINE spans == traces[t]
           n == Len(spans)
           failed == {s \in S : s.status = <<"error">>}
           at == {i \in 1 .. n : spans[i].status = <<"error">>}
<1>1. n \in Nat /\ DOMAIN spans = 1 .. n
  BY StoredTraces
<1>2. TraceResult(spans).spans = n /\ TraceResult(spans).errors = Cardinality(at)
  BY <1>1 DEF TraceResult, ErrorCount
<1>3. S \subseteq {spans[i] : i \in 1 .. n}
  BY <1>1 DEF SpansIn
<1>4. failed \subseteq {spans[i] : i \in at}
  BY <1>3
<1> HIDE DEF failed
<1>5. at \in SUBSET (1 .. n)
  OBVIOUS
<1> HIDE DEF at, n, spans
<1>6. Cardinality(failed) <= Cardinality(at) /\ Cardinality(failed) \in Nat /\ Cardinality(at) \in Nat
  BY <1>1, <1>4, <1>5, SpansAtCount
<1>7. Cardinality(S) <= n /\ Cardinality(S) \in Nat
  <2> DEFINE all == 1 .. n
  <2>1. all \in SUBSET (1 .. n) /\ S \subseteq {spans[i] : i \in all}
    BY <1>3
  <2>2. Cardinality(all) = n
    BY <1>1, IntervalCount
  <2> HIDE DEF all
  <2>3. Cardinality(S) <= Cardinality(all) /\ Cardinality(S) \in Nat
    BY <1>1, <2>1, SpansAtCount
  <2> QED  BY <2>2, <2>3
<1> QED  BY <1>1, <1>2, <1>6, <1>7 DEF failed, spans

LEMMA PageSurvives ==
    ASSUME TraceInv, CallInv
    PROVE  PagesSurviveIngestion
<1> SUFFICES ASSUME NEW c \in ToSet(call)
             PROVE  LET answer == QueryTracesAnswer(c)
                        now(t) == IF t \in DOMAIN traces THEN SpansIn(traces[t]) ELSE {}
                        kept(t) == c.saw[t].spans \subseteq now(t)
                        failed(t) == {s \in c.saw[t].matched : s.status = <<"error">>}
                    IN  /\ answer.shown <= c.limit /\ answer.shown <= answer.total_count
                        /\ (\A t \in ToSet(c.page) : kept(t)) =>
                              /\ answer.truncated <=> answer.shown < answer.total_count
                              /\ \A i \in DOMAIN c.page :
                                    LET t == c.page[i]
                                    IN  /\ answer.traces[i].errors >= Cardinality(failed(t))
                                        /\ answer.traces[i].spans >= Cardinality(c.saw[t].spans)
  BY DEF PagesSurviveIngestion
<1> DEFINE answer == QueryTracesAnswer(c)
           now(t) == IF t \in DOMAIN traces THEN SpansIn(traces[t]) ELSE {}
           kept(t) == c.saw[t].spans \subseteq now(t)
           failed(t) == {s \in c.saw[t].matched : s.status = <<"error">>}
           keep == {i \in DOMAIN c.page : HasSummary(c.page[i])}
           there == ItemsAt(c.page, keep)
           out == TraceItems(c.page)
<1>1. /\ c.limit \in Nat /\ c.total \in Nat /\ c.page \in Seq(Int)
      /\ Len(c.page) = IF c.total < c.limit THEN c.total ELSE c.limit
      /\ \A i \in DOMAIN c.page :
            /\ c.saw[c.page[i]].spans # {}
            /\ c.saw[c.page[i]].matched \subseteq c.saw[c.page[i]].spans
  BY DEF CallInv
<1>2. Len(c.page) \in Nat /\ DOMAIN c.page = 1 .. Len(c.page)
  BY <1>1
<1>3. there \in Seq(Int) /\ Len(there) <= Len(c.page)
  <2>1. keep \in SUBSET DOMAIN c.page
    OBVIOUS
  <2> HIDE DEF keep
  <2> QED  BY <1>1, <2>1, ItemsAtElements
<1>4. out = [i \in DOMAIN there |-> TraceResult(traces[there[i]])]
  BY DEF TraceItems
<1> HIDE DEF there
<1>5. Len(out) = Len(there) /\ Len(out) \in Nat /\ DOMAIN out = DOMAIN there
  BY <1>3, <1>4
<1>6. /\ answer.shown = Len(out) /\ answer.total_count = c.total
      /\ answer.traces = out /\ (answer.truncated <=> c.total > c.limit)
  BY DEF QueryTracesAnswer
<1> HIDE DEF answer, out
<1>7. answer.shown <= c.limit /\ answer.shown <= answer.total_count
  BY <1>1, <1>2, <1>3, <1>5, <1>6
<1>8. ASSUME \A t \in ToSet(c.page) : kept(t)
      PROVE  /\ answer.truncated <=> answer.shown < answer.total_count
             /\ \A i \in DOMAIN c.page :
                   /\ answer.traces[i].errors >= Cardinality(failed(c.page[i]))
                   /\ answer.traces[i].spans >= Cardinality(c.saw[c.page[i]].spans)
  <2>1. \A i \in DOMAIN c.page : c.page[i] \in DOMAIN traces /\ c.saw[c.page[i]].spans \subseteq SpansIn(traces[c.page[i]])
    <3> SUFFICES ASSUME NEW i \in DOMAIN c.page
                 PROVE  c.page[i] \in DOMAIN traces /\ c.saw[c.page[i]].spans \subseteq SpansIn(traces[c.page[i]])
      OBVIOUS
    <3>1. c.page[i] \in ToSet(c.page)
      BY DEF ToSet
    <3> QED  BY <1>1, <1>8, <3>1
  <2>2. keep = 1 .. Len(c.page)
    BY <1>2, <2>1 DEF HasSummary
  <2>3. there = c.page
    <3>1. 0 \in Nat /\ Len(c.page) \in Nat /\ 0 <= Len(c.page) /\ keep = 0 + 1 .. Len(c.page)
      BY <1>2, <2>2
    <3> HIDE DEF keep
    <3>2. there = SubSeq(c.page, 0 + 1, Len(c.page))
      BY <3>1, ItemsAtInterval DEF there
    <3>3. SubSeq(c.page, 1, Len(c.page)) = c.page
      BY <1>1
    <3> QED  BY <3>2, <3>3
  <2>4. answer.truncated <=> answer.shown < answer.total_count
    BY <1>1, <1>2, <1>5, <1>6, <2>3
  <2>5. ASSUME NEW i \in DOMAIN c.page
        PROVE  /\ answer.traces[i].errors >= Cardinality(failed(c.page[i]))
               /\ answer.traces[i].spans >= Cardinality(c.saw[c.page[i]].spans)
    <3> DEFINE t == c.page[i]
               S == c.saw[t].spans
               F == failed(t)
    <3>1. answer.traces[i] = TraceResult(traces[t])
      BY <1>4, <1>6, <2>3
    <3>2. t \in DOMAIN traces /\ S \subseteq SpansIn(traces[t])
      BY <2>1
    <3>3. F = {s \in c.saw[t].matched : s.status = <<"error">>} /\ c.saw[t].matched \subseteq SpansIn(traces[t])
      BY <1>1, <3>2
    <3>4. TraceResult(traces[t]).spans >= Cardinality(S)
      BY <3>2, SummaryCounts
    <3>5. TraceResult(traces[t]).errors >= Cardinality(F)
      BY <3>2, <3>3, SummaryCounts
    <3> QED  BY <3>1, <3>4, <3>5
  <2> QED  BY <2>4, <2>5
<1> HIDE DEF answer, now
<1> QED  BY <1>7, <1>8 DEF answer, now

(* query_traces (src/src/mcp/tools/handlers/trace_query.rs) answers under its
   second lock for what it found under the first: ingestion, eviction and
   resets in between leave no listed trace out unless its spans went.      *)
THEOREM PagesAlwaysSurviveIngestion == SearchSpec => []PagesSurviveIngestion
<1>1. TraceInv /\ CallInv => PagesSurviveIngestion
  BY PageSurvives
<1> QED  BY <1>1, CallsAlways, PTL
-----------------------------------------------------------------------------
(* The first position of the least of finitely many integers, and their
   greatest.                                                               *)
LEMMA FirstLeastIs ==
    ASSUME NEW n \in Nat, n # 0, NEW f \in [1 .. n -> Int]
    PROVE  FirstLeast(f) \in 1 .. n /\ \A j \in 1 .. n : f[FirstLeast(f)] <= f[j]
<1> DEFINE S == 1 .. n
<1>1. IsFiniteSet(S) /\ S # {} /\ \A i \in S : f[i] \in Int
  BY IntervalCount
<1>2. PICK low \in S : \A j \in S : f[low] <= f[j]
  <2> HIDE DEF S
  <2> QED  BY <1>1, FirstAndLast
<1> DEFINE lows == {i \in S : f[i] = f[low]}
<1>3. PICK i \in lows : \A j \in lows : i <= j
  <2>1. lows \in SUBSET Int /\ IsFiniteSet(lows) /\ lows # {}
    BY <1>1, FS_Subset
  <2> HIDE DEF lows
  <2> QED  BY <2>1, SmallestOfFinite
<1>4. i \in S /\ \A j \in S : f[i] < f[j] \/ (f[i] = f[j] /\ i <= j)
  <2> SUFFICES ASSUME NEW j \in S PROVE f[i] < f[j] \/ (f[i] = f[j] /\ i <= j)
    OBVIOUS
  <2>1. f[i] = f[low] /\ f[low] <= f[j] /\ f[i] \in Int /\ f[j] \in Int
    BY <1>1, <1>2, <1>3
  <2>2. f[j] = f[low] => i <= j
    BY <1>3
  <2> HIDE DEF S
  <2> QED  BY <2>1, <2>2
<1>5. DOMAIN f = S
  OBVIOUS
<1>6. FirstLeast(f) \in S /\ \A j \in S : f[FirstLeast(f)] < f[j] \/ (f[FirstLeast(f)] = f[j] /\ FirstLeast(f) <= j)
  <2> HIDE DEF S
  <2> QED  BY <1>4, <1>5 DEF FirstLeast
<1>7. \A j \in S : f[FirstLeast(f)] \in Int /\ f[j] \in Int
  <2> HIDE DEF S
  <2> QED  BY <1>1, <1>6
<1> QED  BY <1>6, <1>7

LEMMA GreatestIs ==
    ASSUME NEW n \in Nat, n # 0, NEW f \in [1 .. n -> Int]
    PROVE  (\E i \in 1 .. n : Greatest(f) = f[i]) /\ \A j \in 1 .. n : f[j] <= Greatest(f)
<1> DEFINE S == 1 .. n
           values == {f[i] : i \in DOMAIN f}
<1>1. IsFiniteSet(S) /\ S # {} /\ \A i \in S : f[i] \in Int
  BY IntervalCount
<1>2. DOMAIN f = S
  OBVIOUS
<1> HIDE DEF S
<1>3. PICK top \in S : \A j \in S : f[j] <= f[top]
  BY <1>1, FirstAndLast
<1>4. f[top] \in values /\ \A i \in DOMAIN f : f[i] <= f[top]
  BY <1>2, <1>3
<1>5. Greatest(f) \in values /\ \A i \in DOMAIN f : f[i] <= Greatest(f)
  BY <1>4 DEF Greatest
<1> QED  BY <1>2, <1>5 DEF S

LEMMA SaturateBounds ==
    /\ MaxI64 \in Nat
    /\ \A n \in Int : Saturate(n) \in Int /\ -MaxI64 - 1 <= Saturate(n) /\ Saturate(n) <= MaxI64
    /\ \A n \in Nat : Saturate(n) \in 0 .. MaxI64
<1>1. MaxI64 \in Nat
  BY UnitConstants
<1> QED  BY <1>1 DEF Saturate

(* When a trace starts and ends: its duration is the time to the last end,
   unless that does not fit.                                               *)
LEMMA TraceTimes ==
    ASSUME TraceInv, NEW t \in DOMAIN traces
    PROVE  /\ StartOf(traces[t]) \in Int /\ TraceResult(traces[t]).start = StartOf(traces[t])
           /\ TraceResult(traces[t]).duration \in Int
           /\ \A i \in DOMAIN traces[t] :
                 /\ traces[t][i].ts \in Int /\ EndOf(traces[t][i]) \in Int
                 /\ StartOf(traces[t]) <= traces[t][i].ts
                 /\ EndOf(traces[t][i]) <= StartOf(traces[t]) + TraceResult(traces[t]).duration
<1> DEFINE spans == traces[t]
           n == Len(spans)
           starts == StartTimes(spans)
           first == FirstLeast(starts)
           start == StartOf(spans)
           ends == [i \in DOMAIN spans |-> -EndOf(spans[i])]
           again == [i \in DOMAIN ends |-> -ends[i]]
           last == Greatest(again)
           duration == TraceResult(spans).duration
<1>1. n \in Nat /\ n # 0 /\ DOMAIN spans = 1 .. n /\ \A i \in 1 .. n : spans[i] \in Span
  BY StoredTraces, StoredTraceIds
<1>2. \A i \in 1 .. n : spans[i].ts \in 0 .. MaxI64 /\ spans[i].duration \in Int /\ spans[i].ts \in Int
  BY <1>1, SpanNumbers
<1>3. \A i \in 1 .. n : EndOf(spans[i]) \in Int /\ EndOf(spans[i]) <= MaxI64
  <2> SUFFICES ASSUME NEW i \in 1 .. n PROVE EndOf(spans[i]) \in Int /\ EndOf(spans[i]) <= MaxI64
    OBVIOUS
  <2>1. spans[i].ts + spans[i].duration \in Int
    BY <1>2
  <2> QED  BY <2>1, SaturateBounds DEF EndOf
<1> HIDE DEF n, spans
<1>4. starts \in [1 .. n -> Int] /\ \A i \in 1 .. n : starts[i] = spans[i].ts
  BY <1>1, <1>2 DEF StartTimes
<1> HIDE DEF starts
<1>5. first \in 1 .. n /\ \A j \in 1 .. n : starts[first] <= starts[j]
  BY <1>1, <1>4, FirstLeastIs
<1>6. start = spans[first].ts
  BY DEF StartOf, starts
<1> HIDE DEF first
<1>7. start \in 0 .. MaxI64 /\ \A i \in 1 .. n : start <= spans[i].ts
  BY <1>2, <1>4, <1>5, <1>6
<1> HIDE DEF start
<1>8. ends \in [1 .. n -> Int] /\ \A i \in 1 .. n : ends[i] = -EndOf(spans[i])
  BY <1>1, <1>3
<1> HIDE DEF ends
<1>9. again \in [1 .. n -> Int] /\ \A i \in 1 .. n : again[i] = EndOf(spans[i])
  <2>1. DOMAIN ends = 1 .. n /\ \A i \in 1 .. n : -ends[i] = EndOf(spans[i])
    BY <1>3, <1>8
  <2> QED  BY <1>3, <2>1
<1> HIDE DEF again
<1>10. (\E i \in 1 .. n : last = again[i]) /\ \A j \in 1 .. n : again[j] <= last
  BY <1>1, <1>9, GreatestIs
<1>11. last \in Int /\ last <= MaxI64 /\ \A j \in 1 .. n : EndOf(spans[j]) <= last
  BY <1>3, <1>9, <1>10
<1>12. TraceResult(spans).start = start /\ duration = Saturate(-Least(ends) - start)
  BY DEF TraceResult, ends, start
<1>13. Least(ends) = -last
  BY DEF Least, again
<1> HIDE DEF last
<1>14. duration = Saturate(last - start)
  <2>1. -Least(ends) - start = last - start
    BY <1>7, <1>11, <1>13
  <2> QED  BY <1>12, <2>1
<1> HIDE DEF duration
<1>15. duration \in Int /\ last <= start + duration
  <2>1. MaxI64 \in Nat
    BY UnitConstants
  <2> QED  BY <1>7, <1>11, <1>14, <2>1 DEF Saturate
<1>16. \A i \in 1 .. n : EndOf(spans[i]) <= start + duration
  <2> SUFFICES ASSUME NEW i \in 1 .. n PROVE EndOf(spans[i]) <= start + duration
    OBVIOUS
  <2>1. EndOf(spans[i]) \in Int /\ EndOf(spans[i]) <= last
    BY <1>3, <1>11
  <2> HIDE DEF EndOf
  <2> QED  BY <1>7, <1>11, <1>15, <2>1
<1> QED  BY <1>1, <1>2, <1>3, <1>7, <1>12, <1>15, <1>16 DEF spans, start, duration

(* An end of a window is a time that i64 holds. *)
LEMMA ParamFits == ASSUME NEW n \in Nat PROVE ParamToNs(n) \in 0 .. MaxI64
<1>1. UnitRatio \in Nat
  BY UnitConstants
<1> DEFINE two == UnitRatio * UnitRatio
           three == two * UnitRatio
<1>2. two \in Nat
  BY <1>1
<1>3. three \in Nat
  <2> HIDE DEF two
  <2> QED  BY <1>1, <1>2
<1>4. UnitNs("ms") = two /\ UnitNs("s") = three
  BY DEF UnitNs
<1> HIDE DEF two, three
<1>5. n * two \in Nat /\ n * three \in Nat
  BY <1>2, <1>3
<1>6. /\ Saturate(n * UnitNs("s")) \in 0 .. MaxI64 /\ Saturate(n * UnitNs("ms")) \in 0 .. MaxI64
      /\ Saturate(n) \in 0 .. MaxI64
  BY <1>4, <1>5, SaturateBounds
<1> QED  BY <1>6 DEF ParamToNs

LEMMA WindowsMeet ==
    ASSUME NEW window \in Windows, NEW start \in Int, NEW end \in Int
    PROVE  /\ InWindow(window, start, end) <=> Meets(window, start, end)
           /\ InWindow(window, start, Saturate(end)) <=> Meets(window, start, end)
<1>1. /\ window.start # << >> => ParamToNs(window.start[1]) \in 0 .. MaxI64
      /\ window.end # << >> => ParamToNs(window.end[1]) \in 0 .. MaxI64
  <2>1. window.start \in Seq(Nat) /\ window.end \in Seq(Nat)
    BY SearchConstants
  <2>2. (window.start # << >> => window.start[1] \in Nat) /\ (window.end # << >> => window.end[1] \in Nat)
    BY <2>1
  <2> QED  BY <2>2, ParamFits
<1>2. \A p \in 0 .. MaxI64 : (Saturate(end) >= p <=> p <= end) /\ (end >= p <=> p <= end)
  BY SaturateBounds DEF Saturate
<1>3. InWindow(window, start, end) <=> Meets(window, start, end)
  BY <1>1, <1>2 DEF InWindow, Meets
<1>4. InWindow(window, start, Saturate(end)) <=> Meets(window, start, end)
  BY <1>1, <1>2 DEF InWindow, Meets
<1> QED  BY <1>3, <1>4
-----------------------------------------------------------------------------
(* A line of all hits, the newest first, that is cut keeps the newest. *)
LEMMA CutKeepsNewest ==
    ASSUME NEW hits, IsFiniteSet(hits), \A t \in hits : StartOf(traces[t]) \in Int,
           NEW line \in Seq(hits), NEW n \in Nat, Len(line) = n,
           line \in Bijection(1 .. n, hits),
           \A r, q \in 1 .. n : r < q => StartOf(traces[line[r]]) >= StartOf(traces[line[q]]),
           NEW limit \in Nat
    PROVE  KeepsNewest(Truncate(line, limit), hits, limit)
<1> DEFINE m == IF n < limit THEN n ELSE limit
           shown == Truncate(line, limit)
<1>1. /\ m \in Nat /\ m <= n /\ shown \in Seq(hits) /\ Len(shown) = m
      /\ DOMAIN shown = 1 .. m /\ \A i \in 1 .. m : shown[i] = line[i]
  <2>1. shown \in Seq(hits) /\ Len(shown) = m /\ \A i \in DOMAIN shown : shown[i] = line[i]
    BY TruncateCuts
  <2> HIDE DEF shown
  <2>2. DOMAIN shown = 1 .. m
    BY <2>1
  <2>3. m \in Nat /\ m <= n
    OBVIOUS
  <2> HIDE DEF m
  <2> QED  BY <2>1, <2>2, <2>3
<1>2. Cardinality(hits) = n
  <2>1. ExistsBijection(1 .. n, hits)
    BY DEF ExistsBijection
  <2>2. IsFiniteSet(1 .. n) /\ Cardinality(1 .. n) = n
    BY IntervalCount
  <2> QED  BY <2>1, <2>2, FS_Bijection
<1>3. /\ \A r \in 1 .. n : line[r] \in hits
      /\ \A r, q \in 1 .. n : line[r] = line[q] => r = q
      /\ \A t \in hits : \E r \in 1 .. n : line[r] = t
  BY DEF Bijection, Injection, Surjection, IsInjective
<1> HIDE DEF m, shown
<1>4. ToSet(shown) = {line[i] : i \in 1 .. m}
  BY <1>1 DEF ToSet
<1>5. \A i \in 1 .. m : i \in 1 .. n
  BY <1>1
<1>6. ToSet(shown) \subseteq hits
  BY <1>3, <1>4, <1>5
<1>7. Cardinality(ToSet(shown)) = m
  <2> DEFINE f == [i \in 1 .. m |-> line[i]]
             S == ToSet(shown)
  <2>1. f \in [1 .. m -> S] /\ \A i, j \in 1 .. m : f[i] = f[j] => i = j
    BY <1>3, <1>4, <1>5
  <2>2. \A x \in S : \E i \in 1 .. m : f[i] = x
    BY <1>4
  <2> HIDE DEF f, S
  <2>3. f \in Bijection(1 .. m, S)
    BY <2>1, <2>2 DEF Bijection, Injection, Surjection, IsInjective
  <2>4. ExistsBijection(1 .. m, S)
    BY <2>3 DEF ExistsBijection
  <2>5. IsFiniteSet(1 .. m) /\ Cardinality(1 .. m) = m
    BY <1>1, IntervalCount
  <2> QED  BY <2>4, <2>5, FS_Bijection DEF S
<1>8. NewestFirst(shown)
  <2> SUFFICES ASSUME NEW i \in 1 .. m, NEW j \in 1 .. m, i < j
               PROVE  StartOf(traces[shown[i]]) >= StartOf(traces[shown[j]])
    BY <1>1 DEF NewestFirst
  <2>1. shown[i] = line[i] /\ shown[j] = line[j] /\ i \in 1 .. n /\ j \in 1 .. n
    BY <1>1, <1>5
  <2> QED  BY <2>1
<1>9. ASSUME NEW t \in hits \ ToSet(shown), NEW u \in ToSet(shown)
      PROVE  StartOf(traces[t]) <= StartOf(traces[u])
  <2>1. PICK r \in 1 .. n : line[r] = t
    BY <1>3
  <2>2. PICK i \in 1 .. m : line[i] = u
    BY <1>4
  <2>3. r \notin 1 .. m
    BY <1>4, <2>1
  <2>4. i < r /\ i \in 1 .. n
    BY <1>1, <2>3
  <2>5. StartOf(traces[u]) >= StartOf(traces[t])
    BY <2>1, <2>2, <2>4
  <2>6. StartOf(traces[u]) \in Int /\ StartOf(traces[t]) \in Int
    BY <1>6
  <2> QED  BY <2>5, <2>6
<1>10. Len(shown) = IF Cardinality(hits) < limit THEN Cardinality(hits) ELSE limit
  BY <1>1, <1>2 DEF m
<1>11. Cardinality(ToSet(shown)) = Len(shown)
  BY <1>1, <1>7
<1>12. KeepsNewest(shown, hits, limit)
  BY <1>6, <1>8, <1>9, <1>10, <1>11 DEF KeepsNewest
<1> QED  BY <1>12 DEF shown

LEMMA LimitIsBounded ==
    ASSUME NEW limit \in SearchLimits, NEW default \in Nat
    PROVE  BoundedLimit(limit, default) \in Nat
<1>1. limit \in Seq(Nat) /\ MaxSearch \in Nat
  BY SearchConstants, ViewConstants
<1>2. limit # << >> => limit[1] \in Nat
  BY <1>1
<1> QED  BY <1>1, <1>2 DEF BoundedLimit

(* A trace of which a span matches an expression is evaluated. *)
LEMMA PassingIsFound ==
    ASSUME TraceInv, InternerCovers, NEW expr, Parsed(expr.lhs), Parsed(expr.rhs),
           NEW t \in DOMAIN traces, PassesPipeline(expr, traces[t]), NEW k \in MatchedIn(expr, traces[t])
    PROVE  t \in DOMAIN EvaluateTraceQL(expr)
<1>1. ASSUME NEW selector, Parsed(selector), NEW i \in MatchedSpans(traces[t], selector)
      PROVE  t \in CandidateTraceIds(selector)
  <2>1. i \in DOMAIN traces[t] /\ MatchesSelector(traces[t][i], selector)
    BY <1>1 DEF MatchedSpans
  <2>2. Satisfies(traces[t][i], selector)
    BY <1>1, <2>1, MatchesAreSatisfied
  <2> QED  BY <1>1, <2>1, <2>2, NarrowingIsSafe
<1>2. CASE expr.op = "None"
  <2>1. k \in MatchedSpans(traces[t], expr.lhs)
    BY <1>2 DEF MatchedIn
  <2>2. t \in CandidateTraceIds(expr.lhs)
    BY <1>1, <2>1
  <2> QED  BY <1>2, <2>2 DEF EvaluateTraceQL
<1>3. CASE expr.op # "None"
  <2>1. k \in StructuralMatches(expr.op, traces[t], expr.lhs, expr.rhs)
    BY <1>3 DEF MatchedIn
  <2>2. k \in MatchedSpans(traces[t], expr.rhs) /\ \E i \in MatchedSpans(traces[t], expr.lhs) : TRUE
    BY <2>1 DEF StructuralMatches
  <2>3. t \in CandidateTraceIds(expr.lhs) /\ t \in CandidateTraceIds(expr.rhs)
    BY <1>1, <2>2
  <2> QED  BY <1>3, <2>3 DEF EvaluateTraceQL
<1> QED  BY <1>2, <1>3

(* The traces in which a query finds a span in the window. *)
FoundIn(expr, window) ==
    {t \in DOMAIN traces :
        /\ PassesPipeline(expr, traces[t])
        /\ \E i \in MatchedIn(expr, traces[t]) : Meets(window, traces[t][i].ts, EndOf(traces[t][i]))}

LEMMA SearchKeepsNewest ==
    ASSUME TraceInv, InternerCovers, NEW expr, Parsed(expr.lhs), Parsed(expr.rhs),
           NEW window \in Windows, NEW limit \in SearchLimits
    PROVE  KeepsNewest(Search(expr, window, limit), FoundIn(expr, window), BoundedLimit(limit, MaxSearch))
<1> DEFINE found == EvaluateTraceQL(expr)
           hits == {t \in DOMAIN found :
                       \E i \in found[t] : InWindow(window, traces[t][i].ts, EndOf(traces[t][i]))}
           newest == {p \in hits \X hits : NewerTrace(p[1], p[2])}
           line == LineUp(hits, newest)
           n == Cardinality(hits)
           cut == BoundedLimit(limit, MaxSearch)
<1>1. Search(expr, window, limit) = Truncate(line, cut)
  BY DEF Search
<1>2. /\ DOMAIN found \subseteq DOMAIN traces /\ IsFiniteSet(DOMAIN found)
      /\ \A t \in DOMAIN found : /\ PassesPipeline(expr, traces[t])
                                 /\ found[t] = MatchedIn(expr, traces[t]) /\ found[t] \subseteq DOMAIN traces[t]
  BY EvaluationFinds
<1>3. \A t \in DOMAIN traces : \A k \in MatchedIn(expr, traces[t]) :
         PassesPipeline(expr, traces[t]) => t \in DOMAIN found
  BY PassingIsFound
<1> HIDE DEF found
<1>4. \A t \in DOMAIN traces : \A i \in DOMAIN traces[t] :
         InWindow(window, traces[t][i].ts, EndOf(traces[t][i])) <=> Meets(window, traces[t][i].ts, EndOf(traces[t][i]))
  BY TraceTimes, WindowsMeet
<1>5. hits = FoundIn(expr, window)
  <2>1. ASSUME NEW t \in hits PROVE t \in FoundIn(expr, window)
    BY <1>2, <1>4 DEF FoundIn
  <2>2. ASSUME NEW t \in FoundIn(expr, window) PROVE t \in hits
    <3>1. PICK i \in MatchedIn(expr, traces[t]) : Meets(window, traces[t][i].ts, EndOf(traces[t][i]))
      BY DEF FoundIn
    <3>2. t \in DOMAIN traces /\ PassesPipeline(expr, traces[t])
      BY DEF FoundIn
    <3>3. t \in DOMAIN found
      BY <1>3, <3>2
    <3>4. i \in found[t] /\ i \in DOMAIN traces[t]
      BY <1>2, <3>3
    <3> QED  BY <1>4, <3>1, <3>2, <3>3, <3>4
  <2> HIDE DEF hits
  <2> QED  BY <2>1, <2>2
<1>6. hits \subseteq DOMAIN traces /\ IsFiniteSet(hits)
  BY <1>2, FS_Subset
<1>7. \A t \in hits : t \in Int /\ StartOf(traces[t]) \in Int
  <2> HIDE DEF hits
  <2> QED  BY <1>6, StoredTraceIds, TraceTimes
<1> HIDE DEF hits
<1>8. \A x, y \in hits : <<x, y>> \in newest <=> NewerTrace(x, y)
  OBVIOUS
<1> HIDE DEF newest
<1>9. IsLine(hits, newest)
  BY <1>7, <1>8 DEF IsLine, NewerTrace
<1>10. /\ n \in Nat /\ line \in Bijection(1 .. n, hits)
       /\ \A r, q \in 1 .. n : r < q => <<line[r], line[q]>> \in newest
  BY <1>6, <1>9, LinedUp
<1>11. line \in Seq(hits) /\ Len(line) = n
  BY <1>6, <1>9, LineIsVector
<1> HIDE DEF line, n
<1>12. \A r \in 1 .. n : line[r] \in hits
  BY <1>10 DEF Bijection, Injection
<1>13. ASSUME NEW r \in 1 .. n, NEW q \in 1 .. n, r < q
       PROVE  StartOf(traces[line[r]]) >= StartOf(traces[line[q]])
  <2>1. NewerTrace(line[r], line[q])
    BY <1>8, <1>10, <1>12, <1>13
  <2> QED  BY <1>7, <1>12, <2>1 DEF NewerTrace
<1>14. cut \in Nat
  BY LimitIsBounded, ViewConstants
<1> HIDE DEF cut
<1>15. KeepsNewest(Truncate(line, cut), hits, cut)
  BY <1>6, <1>7, <1>10, <1>11, <1>13, <1>14, CutKeepsNewest
<1> QED  BY <1>1, <1>5, <1>15 DEF cut
(* The list of recent traces, in an order of the hash map: those in the
   window, the newest first.                                               *)
LEMMA RecentKeepsNewest ==
    ASSUME TraceInv, NEW window \in Windows, NEW order \in RecentTraces(traces), NEW limit \in Nat
    PROVE  KeepsNewest(Truncate(TracesInWindow(traces, order, window), limit),
               {t \in DOMAIN traces :
                   Meets(window, StartOf(traces[t]), TraceResult(traces[t]).start + TraceResult(traces[t]).duration)},
               limit)
<1> DEFINE S == DOMAIN traces
           n == Cardinality(S)
           listed == {t \in S : Meets(window, StartOf(traces[t]),
                                      TraceResult(traces[t]).start + TraceResult(traces[t]).duration)}
           keep == {i \in DOMAIN order : TraceInWindow(window, traces[order[i]])}
           k == Cardinality(keep)
           line == ItemsAt(order, keep)
<1>1. IsFiniteSet(S) /\ n \in Nat
  BY FS_CardinalityType DEF TraceInv, SpansInv
<1>2. \A t \in S : StartOf(traces[t]) \in Int
  BY TraceTimes
<1>3. \A t \in S : TraceInWindow(window, traces[t]) <=> t \in listed
  <2> SUFFICES ASSUME NEW t \in S PROVE TraceInWindow(window, traces[t]) <=> t \in listed
    OBVIOUS
  <2> DEFINE r == TraceResult(traces[t])
  <2>1. StartOf(traces[t]) \in Int /\ r.start = StartOf(traces[t]) /\ r.duration \in Int
    BY TraceTimes
  <2>2. TraceInWindow(window, traces[t]) <=> InWindow(window, r.start, Saturate(r.start + r.duration))
    BY DEF TraceInWindow
  <2> HIDE DEF r
  <2>3. r.start + r.duration \in Int
    BY <2>1
  <2>4. InWindow(window, r.start, Saturate(r.start + r.duration)) <=> Meets(window, r.start, r.start + r.duration)
    BY <2>1, <2>3, WindowsMeet
  <2> QED  BY <2>1, <2>2, <2>4 DEF r
<1>4. order \in [1 .. n -> S] /\ \A i, j \in 1 .. n : i # j => order[i] # order[j]
  BY DEF RecentTraces, SetToSeqs
<1>5. \A i, j \in DOMAIN order : i < j => StartOf(traces[order[i]]) >= StartOf(traces[order[j]])
  BY DEF RecentTraces
<1>6. listed \subseteq S /\ IsFiniteSet(listed)
  BY <1>1, FS_Subset
<1>7. \A t \in S : \E i \in 1 .. n : order[i] = t
  <2> HIDE DEF S
  <2>1. order \in Injection(1 .. n, S)
    BY <1>4 DEF Injection, IsInjective
  <2>2. IsFiniteSet(1 .. n) /\ Cardinality(1 .. n) = n
    BY <1>1, IntervalCount
  <2>3. order \in Surjection(1 .. n, S)
    BY <1>1, <2>1, <2>2, FS_Injection
  <2> QED  BY <2>3 DEF Surjection
<1> HIDE DEF S, n, listed
<1>8. DOMAIN order = 1 .. n /\ \A i \in 1 .. n : order[i] \in S /\ (i \in keep <=> order[i] \in listed)
  BY <1>3, <1>4
<1>9. keep \in SUBSET (1 .. n)
  BY <1>8
<1> HIDE DEF keep
<1>10. k \in Nat /\ \E from : Selects(from, order, keep, line)
  <2> HIDE DEF line
  <2> QED  BY <1>1, <1>9, ItemsAtKept DEF line
<1> PICK from : Selects(from, order, keep, line)
  BY <1>10
<1>11. /\ \A r \in 1 .. k : from[r] \in keep /\ from[r] \in 1 .. n
       /\ \A r, q \in 1 .. k : from[r] = from[q] => r = q
       /\ \A i \in keep : \E r \in 1 .. k : from[r] = i
       /\ \A r, q \in 1 .. k : r < q => from[r] < from[q]
       /\ line = [r \in 1 .. k |-> order[from[r]]]
  BY <1>9 DEF Selects, Bijection, Injection, Surjection, IsInjective
<1> HIDE DEF line, k
<1>12. line \in [1 .. k -> listed] /\ \A r \in 1 .. k : line[r] = order[from[r]]
  BY <1>8, <1>11
<1>13. \A r, q \in 1 .. k : line[r] = line[q] => r = q
  BY <1>4, <1>11, <1>12
<1>14. \A t \in listed : \E r \in 1 .. k : line[r] = t
  <2> SUFFICES ASSUME NEW t \in listed PROVE \E r \in 1 .. k : line[r] = t
    OBVIOUS
  <2>1. PICK i \in 1 .. n : order[i] = t
    BY <1>6, <1>7
  <2>2. i \in keep
    BY <1>8, <2>1
  <2> QED  BY <1>11, <1>12, <2>1, <2>2
<1>15. line \in Bijection(1 .. k, listed)
  BY <1>12, <1>13, <1>14 DEF Bijection, Injection, Surjection, IsInjective
<1>16. line \in Seq(listed) /\ Len(line) = k
  BY <1>10, <1>12
<1>17. ASSUME NEW r \in 1 .. k, NEW q \in 1 .. k, r < q
       PROVE  StartOf(traces[line[r]]) >= StartOf(traces[line[q]])
  BY <1>5, <1>8, <1>11, <1>12, <1>17
<1>18. \A t \in listed : StartOf(traces[t]) \in Int
  BY <1>2, <1>6
<1>19. KeepsNewest(Truncate(line, limit), listed, limit)
  BY <1>6, <1>10, <1>15, <1>16, <1>17, <1>18, CutKeepsNewest
<1> QED  BY <1>19 DEF line, keep, listed, S, TracesInWindow

(* What the query for everything finds, the list finds too. *)
LEMMA EverythingIsListed ==
    ASSUME TraceInv, NEW window \in Windows, NEW expr, NEW t \in FoundIn(expr, window)
    PROVE  Meets(window, StartOf(traces[t]), TraceResult(traces[t]).start + TraceResult(traces[t]).duration)
<1>1. t \in DOMAIN traces
  BY DEF FoundIn
<1>2. PICK i \in MatchedIn(expr, traces[t]) : Meets(window, traces[t][i].ts, EndOf(traces[t][i]))
  BY DEF FoundIn
<1>3. i \in DOMAIN traces[t]
  BY DEF MatchedIn, MatchedSpans, StructuralMatches
<1> DEFINE start == StartOf(traces[t])
           r == TraceResult(traces[t])
           ts == traces[t][i].ts
           end == EndOf(traces[t][i])
<1>4. /\ start \in Int /\ r.start = start /\ r.duration \in Int
      /\ ts \in Int /\ end \in Int /\ start <= ts /\ end <= start + r.duration
  BY <1>1, <1>3, TraceTimes
<1>5. /\ window.start # << >> => ParamToNs(window.start[1]) \in Int
      /\ window.end # << >> => ParamToNs(window.end[1]) \in Int
  <2>1. window.start \in Seq(Nat) /\ window.end \in Seq(Nat)
    BY SearchConstants
  <2>2. (window.start # << >> => window.start[1] \in Nat) /\ (window.end # << >> => window.end[1] \in Nat)
    BY <2>1
  <2> QED  BY <2>2, ParamFits, UnitConstants
<1>6. Meets(window, ts, end)
  BY <1>2
<1> HIDE DEF start, r, ts, end
<1>7. Meets(window, start, start + r.duration)
  BY <1>4, <1>5, <1>6 DEF Meets
<1> QED  BY <1>4, <1>7 DEF start, r

(* A limited search (src/src/query/traceql/handlers.rs), with a query or
   without, keeps the newest of what it finds in the window, and the list
   misses nothing that a query would find there.                           *)
THEOREM SearchesAlwaysKeepNewest == SearchSpec => []SearchesKeepNewest
<1>1. TraceInv /\ InternerCovers => SearchesKeepNewest
  <2> SUFFICES ASSUME TraceInv, InternerCovers, NEW window \in Windows, NEW limit \in SearchLimits
               PROVE  LET listed == {t \in DOMAIN traces :
                              Meets(window, StartOf(traces[t]), TraceResult(traces[t]).start + TraceResult(traces[t]).duration)}
                      IN  /\ \A shown \in SearchRecent(traces, window, limit) :
                                KeepsNewest(shown, listed, BoundedLimit(limit, DefaultRecent))
                          /\ \A expr \in Expressions :
                                KeepsNewest(Search(expr, window, limit), FoundIn(expr, window), BoundedLimit(limit, MaxSearch))
                          /\ FoundIn(Everything, window) \subseteq listed
    BY DEF SearchesKeepNewest, FoundIn
  <2> DEFINE listed == {t \in DOMAIN traces :
                 Meets(window, StartOf(traces[t]), TraceResult(traces[t]).start + TraceResult(traces[t]).duration)}
             cut == BoundedLimit(limit, DefaultRecent)
  <2>1. cut \in Nat
    BY LimitIsBounded, ViewConstants
  <2>2. ASSUME NEW shown \in SearchRecent(traces, window, limit) PROVE KeepsNewest(shown, listed, cut)
    <3>1. PICK order \in RecentTraces(traces) : shown = Truncate(TracesInWindow(traces, order, window), cut)
      BY <2>2 DEF SearchRecent
    <3> HIDE DEF cut
    <3> QED  BY <2>1, <3>1, RecentKeepsNewest
  <2>3. ASSUME NEW expr \in Expressions
        PROVE  KeepsNewest(Search(expr, window, limit), FoundIn(expr, window), BoundedLimit(limit, MaxSearch))
    BY SearchConstants, SearchKeepsNewest
  <2>4. FoundIn(Everything, window) \subseteq listed
    <3>1. \A t \in FoundIn(Everything, window) : t \in DOMAIN traces
      BY DEF FoundIn
    <3> QED  BY <3>1, EverythingIsListed
  <2> QED  BY <2>2, <2>3, <2>4
<1> QED  BY <1>1, SearchesOnlyRead, InternedAlways, PTL

=============================================================================
