--------------------------- MODULE MetricStoreProofs ---------------------------
(***************************************************************************)
(* The metric store: its indexes, its count of samples, the registered     *)
(* names and types, and that it implements the abstract store of           *)
(* SignalStore, for any metrics, times, services and limits.                *)
(***************************************************************************)
EXTENDS MetricStore, StoreIndexProofs, ItemSeqsProofs

(* What a request may consist of. *)
Suffixes == {"", "_bucket", "_sum", "_count"}

PointNames ==
    {Suffixed(m.name, x) : m \in OtlpMetrics, x \in Suffixes} \cup {s.name : s \in RemoteSeries}

PointSources ==
    {Suffixed(m.source, x) : m \in OtlpMetrics, x \in Suffixes} \cup {s.name : s \in RemoteSeries}

PointMetrics == {m.name : m \in OtlpMetrics} \cup {s.name : s \in RemoteSeries}

SentPairs ==
    (UNION {m.labels : m \in OtlpMetrics}) \cup (UNION {s.labels : s \in RemoteSeries})
        \cup {"le", "quantile"} \X {Bounds[i] : i \in DOMAIN Bounds}

PreparedPoint ==
    [name : PointNames, source : PointSources, labels : SUBSET SentPairs, times : Seq(Int),
     of : PointMetrics]

SentTypes == {m.type : m \in OtlpMetrics} \cup {InferredType[s.name] : s \in RemoteSeries}

MetaEntry ==
    [name : PointMetrics, type : SentTypes, help : {m.help : m \in OtlpMetrics} \cup {NoHelp}]

Sample == [ts : Int, seq : Nat, of : PointMetrics, source : PointSources]

SeriesPairs == SentPairs \cup {"__name__"} \X PointNames

Series == [labels : SUBSET SeriesPairs, samples : Seq(Sample)]

-----------------------------------------------------------------------------
(* `upTo` is the concatenation of the first vectors of seqs. *)
Concatenates(upTo, seqs) ==
    upTo = [i \in 0 .. Len(seqs) |-> IF i = 0 THEN << >> ELSE upTo[i - 1] \o seqs[i]]

LEMMA FlattenConcatenates ==
    ASSUME NEW T, NEW seqs \in Seq(Seq(T))
    PROVE  \E upTo : Concatenates(upTo, seqs) /\ Flatten(seqs) = upTo[Len(seqs)]
<1> DEFINE n == Len(seqs)
           Ends(f, k) == f = [i \in 0 .. k |-> IF i = 0 THEN << >> ELSE f[i - 1] \o seqs[i]]
           reached == {k \in 0 .. n : \E f : Ends(f, k)}
<1>1. n \in Nat
  OBVIOUS
<1>2. \E f : Ends(f, 0)
  <2>1. Ends([i \in 0 .. 0 |-> << >>], 0)
    OBVIOUS
  <2> HIDE DEF Ends
  <2> QED  BY <2>1
<1>3. ASSUME NEW k \in 0 .. n, NEW f, Ends(f, k), k < n PROVE \E g : Ends(g, k + 1)
  <2> DEFINE g == [i \in 0 .. k + 1 |-> IF i = k + 1 THEN f[k] \o seqs[k + 1] ELSE f[i]]
  <2>1. /\ k \in Nat /\ DOMAIN f = 0 .. k /\ f[0] = << >>
        /\ \A i \in 0 .. k : i # 0 => f[i] = f[i - 1] \o seqs[i]
    <3>1. k \in Nat /\ 0 \in 0 .. k
      OBVIOUS
    <3> HIDE DEF n
    <3> QED  BY <1>3, <3>1
  <2>2. /\ DOMAIN g = 0 .. k + 1
        /\ g[k + 1] = f[k] \o seqs[k + 1]
        /\ \A i \in 0 .. k : g[i] = f[i]
    BY <2>1
  <2>3. \A i \in 0 .. k + 1 : g[i] = IF i = 0 THEN << >> ELSE g[i - 1] \o seqs[i]
    <3> HIDE DEF g
    <3> SUFFICES ASSUME NEW i \in 0 .. k + 1
                 PROVE  g[i] = IF i = 0 THEN << >> ELSE g[i - 1] \o seqs[i]
      OBVIOUS
    <3>1. CASE i = k + 1
      <4>1. i - 1 = k /\ i # 0 /\ k \in 0 .. k
        BY <2>1, <3>1
      <4> QED  BY <2>2, <3>1, <4>1
    <3>2. CASE i = 0
      BY <2>1, <2>2, <3>2
    <3>3. CASE i \in 0 .. k /\ i # 0
      <4>1. i - 1 \in 0 .. k
        BY <2>1, <3>3
      <4> QED  BY <2>1, <2>2, <3>3, <4>1
    <3> QED  BY <2>1, <3>1, <3>2, <3>3
  <2>4. g = [i \in 0 .. k + 1 |-> g[i]]
    OBVIOUS
  <2> HIDE DEF g
  <2>5. Ends(g, k + 1)
    BY <2>3, <2>4
  <2> HIDE DEF Ends
  <2> QED  BY <2>5
<1> HIDE DEF Ends
<1>4. 0 \in reached
  BY <1>1, <1>2
<1>5. \A k \in 0 .. n : k \in reached /\ k < n => k + 1 \in reached
  BY <1>1, <1>3
<1> HIDE DEF reached
<1>6. n \in reached
  <2>1. n \in 0 .. n
    BY <1>1
  <2> HIDE DEF n
  <2> QED  BY <1>1, <1>4, <1>5, <2>1, CountUp
<1>7. \E f : Ends(f, n)
  BY <1>6 DEF reached
<1> QED  BY <1>7 DEF Flatten, Ends, Concatenates

LEMMA ConcatenationSteps ==
    ASSUME NEW T, NEW seqs \in Seq(Seq(T)), NEW upTo, Concatenates(upTo, seqs)
    PROVE  /\ upTo[0] = << >>
           /\ \A i \in 1 .. Len(seqs) : upTo[i] = upTo[i - 1] \o seqs[i]
           /\ \A i \in 0 .. Len(seqs) : upTo[i] \in Seq(T)
<1> DEFINE n == Len(seqs)
           typed == {i \in 0 .. n : upTo[i] \in Seq(T)}
<1>1. n \in Nat
  OBVIOUS
<1>2. upTo[0] = << >> /\ \A i \in 1 .. n : upTo[i] = upTo[i - 1] \o seqs[i]
  <2>1. upTo = [i \in 0 .. n |-> IF i = 0 THEN << >> ELSE upTo[i - 1] \o seqs[i]]
    BY DEF Concatenates
  <2>2. 0 \in 0 .. n /\ \A i \in 1 .. n : i \in 0 .. n /\ i # 0
    BY <1>1
  <2> HIDE DEF n
  <2> QED  BY <2>1, <2>2
<1>3. 0 \in typed
  <2>1. << >> \in Seq(T) /\ 0 \in 0 .. n
    BY <1>1
  <2> HIDE DEF n
  <2> QED  BY <1>2, <2>1
<1>4. \A k \in 0 .. n : k \in typed /\ k < n => k + 1 \in typed
  <2> SUFFICES ASSUME NEW k \in 0 .. n, k \in typed, k < n PROVE k + 1 \in typed
    OBVIOUS
  <2>1. k + 1 \in 1 .. n /\ (k + 1) - 1 = k /\ k + 1 \in 0 .. n
    BY <1>1
  <2>2. seqs[k + 1] \in Seq(T) /\ upTo[k] \in Seq(T)
    BY <2>1
  <2>3. upTo[k + 1] = upTo[k] \o seqs[k + 1]
    <3> HIDE DEF n
    <3> QED  BY <1>2, <2>1
  <2>4. upTo[k] \o seqs[k + 1] \in Seq(T)
    BY <2>2, ConcatProperties
  <2> QED  BY <2>1, <2>3, <2>4
<1> HIDE DEF typed, n
<1>5. \A k \in 0 .. n : k \in typed
  BY <1>1, <1>3, <1>4, CountUp
<1> QED  BY <1>2, <1>5 DEF typed, n

(* A vector of vectors flattened has the elements of each, and its first
   vectors flattened are its beginning.                                    *)
LEMMA FlattenedLength ==
    ASSUME NEW T, NEW seqs \in Seq(Seq(T))
    PROVE  /\ Flatten(seqs) \in Seq(T) /\ Len(Flatten(seqs)) \in Nat
           /\ \A k \in 1 .. Len(seqs) :
                 /\ Flatten(SubSeq(seqs, 1, k - 1)) \in Seq(T)
                 /\ Len(Flatten(SubSeq(seqs, 1, k - 1))) + Len(seqs[k]) <= Len(Flatten(seqs))
<1> DEFINE n == Len(seqs)
<1>1. n \in Nat
  OBVIOUS
<1>2. PICK upTo : Concatenates(upTo, seqs) /\ Flatten(seqs) = upTo[n]
  BY FlattenConcatenates
<1>3. /\ upTo[0] = << >>
      /\ \A i \in 1 .. n : upTo[i] = upTo[i - 1] \o seqs[i]
      /\ \A i \in 0 .. n : upTo[i] \in Seq(T) /\ Len(upTo[i]) \in Nat
  <2>1. /\ upTo[0] = << >>
        /\ \A i \in 1 .. n : upTo[i] = upTo[i - 1] \o seqs[i]
        /\ \A i \in 0 .. n : upTo[i] \in Seq(T)
    BY <1>2, ConcatenationSteps
  <2> HIDE DEF n
  <2>2. \A s \in Seq(T) : Len(s) \in Nat
    OBVIOUS
  <2> QED  BY <2>1, <2>2
<1>4. \A i \in 1 .. n : /\ i - 1 \in 0 .. n /\ i \in 0 .. n /\ Len(seqs[i]) \in Nat
                        /\ Len(upTo[i]) = Len(upTo[i - 1]) + Len(seqs[i])
  <2> SUFFICES ASSUME NEW i \in 1 .. n
               PROVE  /\ i - 1 \in 0 .. n /\ i \in 0 .. n /\ Len(seqs[i]) \in Nat
                      /\ Len(upTo[i]) = Len(upTo[i - 1]) + Len(seqs[i])
    OBVIOUS
  <2>1. i - 1 \in 0 .. n /\ i \in 0 .. n
    BY <1>1
  <2>2. seqs[i] \in Seq(T) /\ upTo[i - 1] \in Seq(T)
    BY <1>3, <2>1
  <2>3. upTo[i] = upTo[i - 1] \o seqs[i]
    BY <1>3
  <2> HIDE DEF n
  <2> QED  BY <2>1, <2>2, <2>3, ConcatProperties
<1> HIDE DEF n
<1>5. \A i \in 0 .. n : Len(upTo[i]) <= Len(upTo[n])
  <2> DEFINE f == [i \in 1 .. n |-> Len(upTo[i])]
  <2>1. \A i \in 1 .. n : f[i] \in Int
    BY <1>1, <1>3, <1>4
  <2>2. \A i \in 1 .. n : i + 1 <= n => f[i] <= f[i + 1]
    <3> SUFFICES ASSUME NEW i \in 1 .. n, i + 1 <= n PROVE f[i] <= f[i + 1]
      OBVIOUS
    <3> DEFINE j == i + 1
    <3>1. j \in 1 .. n /\ j - 1 = i
      BY <1>1
    <3> HIDE DEF j
    <3>2. Len(upTo[j]) = Len(upTo[i]) + Len(seqs[j]) /\ Len(seqs[j]) \in Nat /\ Len(upTo[i]) \in Nat
      BY <1>3, <1>4, <3>1
    <3>3. f[i] = Len(upTo[i]) /\ f[j] = Len(upTo[j])
      BY <3>1
    <3> HIDE DEF f
    <3>4. f[i] <= f[j]
      <4> DEFINE a == Len(upTo[i])
                 b == Len(upTo[j])
                 c == Len(seqs[j])
      <4>1. b = a + c /\ c \in Nat /\ a \in Nat
        BY <3>2
      <4>2. f[i] = a /\ f[j] = b
        BY <3>3
      <4> HIDE DEF a, b, c
      <4> QED  BY <4>1, <4>2
    <3> QED  BY <3>4 DEF j
  <2> HIDE DEF f
  <2>3. \A i, j \in 1 .. n : i < j => f[i] <= f[j]
    BY <1>1, <2>1, <2>2, NeighboursInOrder
  <2>4. \A i \in 1 .. n : Len(upTo[i]) <= Len(upTo[n])
    <3> SUFFICES ASSUME NEW i \in 1 .. n PROVE Len(upTo[i]) <= Len(upTo[n])
      OBVIOUS
    <3>1. i \in 0 .. n /\ n \in 1 .. n /\ Len(upTo[i]) \in Nat
      BY <1>1, <1>3
    <3>2. i = n \/ i < n
      BY <1>1
    <3>3. i < n => f[i] <= f[n]
      BY <2>3, <3>1
    <3> QED  BY <3>1, <3>2, <3>3 DEF f
  <2>5. Len(upTo[0]) <= Len(upTo[n])
    <3>1. Len(upTo[0]) = 0 /\ Len(upTo[n]) \in Nat
      BY <1>1, <1>3
    <3> QED  BY <3>1
  <2> QED  BY <1>1, <2>4, <2>5
<1>6. ASSUME NEW k \in 1 .. n
      PROVE  Flatten(SubSeq(seqs, 1, k - 1)) = upTo[k - 1]
  <2> DEFINE m == k - 1
             first == SubSeq(seqs, 1, m)
  <2>1. m \in Nat /\ m <= n
    BY <1>1
  <2> HIDE DEF m
  <2>2. first \in Seq(Seq(T)) /\ Len(first) = m /\ \A i \in 1 .. m : first[i] = seqs[i]
    <3>1. \A i \in 1 .. m : seqs[i] \in Seq(T)
      BY <1>1, <2>1 DEF n
    <3>2. 1 \in Int /\ m \in Int /\ \A i \in 1 .. m : seqs[i] \in Seq(T)
      BY <2>1, <3>1
    <3>3. /\ SubSeq(seqs, 1, m) \in Seq(Seq(T))
          /\ Len(SubSeq(seqs, 1, m)) = IF 1 <= m THEN m - 1 + 1 ELSE 0
          /\ \A i \in 1 .. m - 1 + 1 : SubSeq(seqs, 1, m)[i] = seqs[1 + i - 1]
      BY <3>2, SubSeqProperties
    <3> QED  BY <2>1, <3>3
  <2> HIDE DEF first
  <2>3. PICK short : Concatenates(short, first) /\ Flatten(first) = short[m]
    BY <2>2, FlattenConcatenates
  <2>4. short[0] = << >> /\ \A i \in 1 .. m : short[i] = short[i - 1] \o first[i]
    BY <2>2, <2>3, ConcatenationSteps
  <2> DEFINE same == {i \in 0 .. m : short[i] = upTo[i]}
  <2>5. 0 \in same
    BY <1>3, <2>1, <2>4
  <2>6. \A i \in 0 .. m : i \in same /\ i < m => i + 1 \in same
    <3> SUFFICES ASSUME NEW i \in 0 .. m, i \in same, i < m PROVE i + 1 \in same
      OBVIOUS
    <3> DEFINE j == i + 1
    <3>1. j \in 1 .. m /\ j \in 1 .. n /\ j \in 0 .. m /\ j - 1 = i
      BY <1>1, <2>1
    <3> HIDE DEF j
    <3>2. short[j] = short[i] \o first[j] /\ upTo[j] = upTo[i] \o seqs[j]
      BY <1>3, <2>4, <3>1
    <3>3. first[j] = seqs[j] /\ short[i] = upTo[i]
      BY <2>2, <3>1
    <3>4. j \in same
      BY <3>1, <3>2, <3>3
    <3> QED  BY <3>4 DEF j
  <2> HIDE DEF same
  <2>7. m \in same
    <3>1. m \in 0 .. m
      BY <2>1
    <3> QED  BY <2>1, <2>5, <2>6, <3>1, CountUp
  <2> QED  BY <2>3, <2>7 DEF same, first, m
<1>7. ASSUME NEW k \in 1 .. n
      PROVE  /\ Flatten(SubSeq(seqs, 1, k - 1)) \in Seq(T)
             /\ Len(Flatten(SubSeq(seqs, 1, k - 1))) + Len(seqs[k]) <= Len(Flatten(seqs))
  <2>1. Flatten(SubSeq(seqs, 1, k - 1)) = upTo[k - 1]
    BY <1>6
  <2>2. upTo[k - 1] \in Seq(T) /\ Len(upTo[k]) = Len(upTo[k - 1]) + Len(seqs[k])
    BY <1>3, <1>4
  <2>3. Len(upTo[k]) <= Len(upTo[n])
    BY <1>4, <1>5
  <2> QED  BY <1>2, <2>1, <2>2, <2>3
<1>8. Flatten(seqs) \in Seq(T) /\ Len(Flatten(seqs)) \in Nat
  BY <1>1, <1>2, <1>3
<1> QED  BY <1>7, <1>8 DEF n

-----------------------------------------------------------------------------
(* What a request is turned into. *)
LEMMA PointIsPrepared ==
    ASSUME NEW m \in OtlpMetrics, NEW suffix \in Suffixes,
           NEW extra \in SUBSET ({"le", "quantile"} \X {Bounds[i] : i \in DOMAIN Bounds})
    PROVE  Point(m, suffix, extra) \in PreparedPoint
<1>1. Suffixed(m.name, suffix) \in PointNames /\ Suffixed(m.source, suffix) \in PointSources
  BY DEF PointNames, PointSources
<1>2. m.labels \cup extra \in SUBSET SentPairs
  BY DEF SentPairs
<1>3. <<m.ts>> \in Seq(Int)
  BY MetricConstants
<1>4. m.name \in PointMetrics
  BY DEF PointMetrics
<1> QED  BY <1>1, <1>2, <1>3, <1>4 DEF Point, PreparedPoint

LEMMA PointsArePrepared ==
    ASSUME NEW m \in OtlpMetrics
    PROVE  PointsOf(m) \in Seq(PreparedPoint)
<1> DEFINE sumAndCount == <<Point(m, "_sum", {}), Point(m, "_count", {})>>
           forEachBound(label, suffix) ==
              [i \in DOMAIN Bounds |-> Point(m, suffix, {<<label, Bounds[i]>>})]
<1>1. \A suffix \in Suffixes : Point(m, suffix, {}) \in PreparedPoint
  BY PointIsPrepared
<1>2. \A x, y \in PreparedPoint : <<x>> \in Seq(PreparedPoint) /\ <<x, y>> \in Seq(PreparedPoint)
  OBVIOUS
<1>12. sumAndCount \in Seq(PreparedPoint)
  <2>1. "_sum" \in Suffixes /\ "_count" \in Suffixes
    BY DEF Suffixes
  <2>2. Point(m, "_sum", {}) \in PreparedPoint /\ Point(m, "_count", {}) \in PreparedPoint
    BY <1>1, <2>1, Zenon
  <2> QED  BY <1>2, <2>2, Zenon
<1>3. \A label \in {"le", "quantile"}, suffix \in Suffixes :
         forEachBound(label, suffix) \in Seq(PreparedPoint)
  <2> SUFFICES ASSUME NEW label \in {"le", "quantile"}, NEW suffix \in Suffixes
               PROVE  forEachBound(label, suffix) \in Seq(PreparedPoint)
    OBVIOUS
  <2>1. \A i \in DOMAIN Bounds : Point(m, suffix, {<<label, Bounds[i]>>}) \in PreparedPoint
    <3> SUFFICES ASSUME NEW i \in DOMAIN Bounds
                 PROVE  Point(m, suffix, {<<label, Bounds[i]>>}) \in PreparedPoint
      OBVIOUS
    <3>1. {<<label, Bounds[i]>>} \in SUBSET ({"le", "quantile"} \X {Bounds[j] : j \in DOMAIN Bounds})
      OBVIOUS
    <3> QED  BY <3>1, PointIsPrepared
  <2>2. Len(Bounds) \in Nat /\ DOMAIN Bounds = 1 .. Len(Bounds)
    BY MetricConstants
  <2> QED  BY <2>1, <2>2
<1>4. "" \in Suffixes /\ "_bucket" \in Suffixes
  BY DEF Suffixes
<1> HIDE DEF sumAndCount, forEachBound
<1>5. /\ forEachBound("le", "_bucket") \o sumAndCount \in Seq(PreparedPoint)
      /\ forEachBound("quantile", "") \o sumAndCount \in Seq(PreparedPoint)
  BY <1>12, <1>3, <1>4, ConcatProperties
<1>6. <<Point(m, "", {})>> \in Seq(PreparedPoint) /\ << >> \in Seq(PreparedPoint)
  <2>1. Point(m, "", {}) \in PreparedPoint
    BY <1>1, <1>4, Zenon
  <2>2. << >> \in Seq(PreparedPoint)
    OBVIOUS
  <2> QED  BY <1>2, <2>1, <2>2, Zenon
<1>7. m.type \in {"gauge", "counter", "histogram", "summary", "exponential_histogram"}
  BY MetricConstants
<1>8. CASE m.type \in {"gauge", "counter"}
  <2>1. PointsOf(m) = <<Point(m, "", {})>>
    BY <1>8 DEF PointsOf
  <2> QED  BY <1>6, <2>1
<1>9. CASE m.type = "histogram"
  <2>1. PointsOf(m) = forEachBound("le", "_bucket") \o sumAndCount
    BY <1>9 DEF PointsOf, forEachBound, sumAndCount
  <2> QED  BY <1>5, <2>1
<1>10. CASE m.type = "summary"
  <2>1. PointsOf(m) = forEachBound("quantile", "") \o sumAndCount
    BY <1>10 DEF PointsOf, forEachBound, sumAndCount
  <2> QED  BY <1>5, <2>1
<1>11. CASE m.type = "exponential_histogram"
  <2>1. PointsOf(m) = << >>
    BY <1>11 DEF PointsOf
  <2> QED  BY <1>6, <2>1
<1> QED  BY <1>7, <1>8, <1>9, <1>10, <1>11

LEMMA MetaIsTyped ==
    ASSUME NEW m \in OtlpMetrics
    PROVE  MetaOf(m) \in Seq(MetaEntry)
<1>1. [name |-> m.name, type |-> m.type, help |-> m.help] \in MetaEntry
  BY DEF MetaEntry, PointMetrics, SentTypes
<1>2. << >> \in Seq(MetaEntry) /\ \A e \in MetaEntry : <<e>> \in Seq(MetaEntry)
  OBVIOUS
<1> QED  BY <1>1, <1>2 DEF MetaOf

LEMMA RemoteIsTyped ==
    ASSUME NEW s \in RemoteSeries
    PROVE  RemotePoint(s) \in PreparedPoint /\ RemoteMeta(s) \in MetaEntry
<1>1. s.name \in PointNames /\ s.name \in PointSources /\ s.name \in PointMetrics
  BY DEF PointNames, PointSources, PointMetrics
<1>2. s.labels \in SUBSET SentPairs
  BY DEF SentPairs
<1>3. s.times \in Seq(Int)
  BY MetricConstants
<1> QED  BY <1>1, <1>2, <1>3 DEF RemotePoint, RemoteMeta, PreparedPoint, MetaEntry, SentTypes

LEMMA RequestsAreVectors ==
    ASSUME NEW things, NEW request \in Requests(things)
    PROVE  \E n \in Nat : DOMAIN request = 1 .. n /\ \A i \in 1 .. n : request[i] \in things
BY DEF Requests

(* Whichever way it came in, a request is a vector of points and one of
   metadata.                                                               *)
LEMMA RequestsAreTyped ==
    ASSUME IngestMetrics \/ RemoteWrite
    PROVE  \E prepared \in Seq(PreparedPoint), meta \in Seq(MetaEntry) : Ingest(prepared, meta)
<1>1. CASE IngestMetrics
  <2>1. PICK request \in Requests(OtlpMetrics) :
            Ingest(Flatten([i \in DOMAIN request |-> PointsOf(request[i])]),
                   Flatten([i \in DOMAIN request |-> MetaOf(request[i])]))
    BY <1>1 DEF IngestMetrics
  <2> DEFINE points == [i \in DOMAIN request |-> PointsOf(request[i])]
             metas == [i \in DOMAIN request |-> MetaOf(request[i])]
  <2>2. PICK n \in Nat : DOMAIN request = 1 .. n /\ \A i \in 1 .. n : request[i] \in OtlpMetrics
    BY RequestsAreVectors
  <2>3. points \in Seq(Seq(PreparedPoint))
    <3>1. \A i \in 1 .. n : PointsOf(request[i]) \in Seq(PreparedPoint)
      BY <2>2, PointsArePrepared
    <3> QED  BY <2>2, <3>1
  <2>4. metas \in Seq(Seq(MetaEntry))
    <3>1. \A i \in 1 .. n : MetaOf(request[i]) \in Seq(MetaEntry)
      BY <2>2, MetaIsTyped
    <3> QED  BY <2>2, <3>1
  <2>5. Ingest(Flatten(points), Flatten(metas))
    BY <2>1
  <2> HIDE DEF points, metas
  <2>6. Flatten(points) \in Seq(PreparedPoint) /\ Flatten(metas) \in Seq(MetaEntry)
    BY <2>3, <2>4, FlattenedLength
  <2> QED  BY <2>5, <2>6
<1>2. CASE RemoteWrite
  <2>1. PICK request \in Requests(RemoteSeries) :
            Ingest([i \in DOMAIN request |-> RemotePoint(request[i])],
                   [i \in DOMAIN request |-> RemoteMeta(request[i])])
    BY <1>2 DEF RemoteWrite
  <2> DEFINE points == [i \in DOMAIN request |-> RemotePoint(request[i])]
             metas == [i \in DOMAIN request |-> RemoteMeta(request[i])]
  <2>2. PICK n \in Nat : DOMAIN request = 1 .. n /\ \A i \in 1 .. n : request[i] \in RemoteSeries
    BY RequestsAreVectors
  <2>3. \A i \in 1 .. n : RemotePoint(request[i]) \in PreparedPoint /\ RemoteMeta(request[i]) \in MetaEntry
    BY <2>2, RemoteIsTyped
  <2>4. points \in Seq(PreparedPoint) /\ metas \in Seq(MetaEntry)
    BY <2>2, <2>3
  <2>5. Ingest(points, metas)
    BY <2>1
  <2> HIDE DEF points, metas
  <2> QED  BY <2>4, <2>5
<1> QED  BY <1>1, <1>2

(* The stamps of a request are its own: from ingest_seq on, and as many as
   it has samples.                                                         *)
LEMMA StampsAreDrawn ==
    ASSUME NEW prepared \in Seq(PreparedPoint), ingest_seq \in Nat
    PROVE  /\ StampsOf(prepared) \in Nat
           /\ \A i \in 1 .. Len(prepared) :
                 /\ Stamped(prepared)[i] \in Seq(Sample)
                 /\ \A k \in 1 .. Len(Stamped(prepared)[i]) :
                       /\ Stamped(prepared)[i][k].seq >= ingest_seq
                       /\ Stamped(prepared)[i][k].seq < ingest_seq + StampsOf(prepared)
                       /\ Stamped(prepared)[i][k].source = prepared[i].source
<1> DEFINE n == Len(prepared)
           times == [i \in DOMAIN prepared |-> prepared[i].times]
           stamps == StampsOf(prepared)
<1>1. n \in Nat /\ DOMAIN prepared = 1 .. n /\ \A i \in 1 .. n : prepared[i] \in PreparedPoint
  OBVIOUS
<1>2. \A i \in 1 .. n : /\ prepared[i].times \in Seq(Int) /\ prepared[i].of \in PointMetrics
                        /\ prepared[i].source \in PointSources
  BY <1>1 DEF PreparedPoint
<1>3. times \in Seq(Seq(Int)) /\ Len(times) = n /\ \A i \in 1 .. n : times[i] = prepared[i].times
  <2> HIDE DEF n
  <2> QED  BY <1>1, <1>2
<1>4. stamps = Len(Flatten(times))
  BY DEF StampsOf
<1> HIDE DEF times, stamps
<1>5. stamps \in Nat
  BY <1>3, <1>4, FlattenedLength
<1>6. ASSUME NEW i \in 1 .. n
      PROVE  /\ StampsOf(SubSeq(prepared, 1, i - 1)) \in Nat
             /\ StampsOf(SubSeq(prepared, 1, i - 1)) + Len(prepared[i].times) <= stamps
  <2> DEFINE m == i - 1
             short == SubSeq(prepared, 1, m)
             shortTimes == [j \in DOMAIN short |-> short[j].times]
             first == SubSeq(times, 1, m)
  <2>1. m \in Nat /\ m <= n
    BY <1>1
  <2> HIDE DEF m
  <2>2. /\ DOMAIN short = 1 .. m /\ \A j \in 1 .. m : short[j] = prepared[j]
        /\ DOMAIN first = 1 .. m /\ \A j \in 1 .. m : first[j] = times[j]
    <3>1. \A j \in 1 .. m : prepared[j] \in PreparedPoint /\ times[j] \in Seq(Int)
      BY <1>1, <1>3, <2>1
    <3>2. 1 \in Int /\ m \in Int
      BY <2>1
    <3> HIDE DEF n
    <3>3. /\ short \in Seq(PreparedPoint)
          /\ Len(short) = IF 1 <= m THEN m - 1 + 1 ELSE 0
          /\ \A j \in 1 .. m - 1 + 1 : short[j] = prepared[1 + j - 1]
      BY <3>1, <3>2, SubSeqProperties
    <3>4. /\ first \in Seq(Seq(Int))
          /\ Len(first) = IF 1 <= m THEN m - 1 + 1 ELSE 0
          /\ \A j \in 1 .. m - 1 + 1 : first[j] = times[1 + j - 1]
      BY <3>1, <3>2, SubSeqProperties
    <3> HIDE DEF short, first
    <3> QED  BY <2>1, <3>3, <3>4
  <2> HIDE DEF short, first
  <2>3. shortTimes = first
    <3>1. first = [j \in 1 .. m |-> first[j]]
      <4>1. first \in Seq(Seq(Int))
        <5>1. \A j \in 1 .. m : times[j] \in Seq(Int)
          BY <1>1, <1>3, <2>1
        <5> QED  BY <2>1, <5>1, SubSeqProperties DEF first
      <4> QED  BY <2>2, <4>1
    <3>2. \A j \in 1 .. m : short[j].times = first[j]
      <4>1. \A j \in 1 .. m : j \in 1 .. n
        BY <1>1, <2>1
      <4> QED  BY <1>3, <2>2, <4>1
    <3> QED  BY <2>2, <3>1, <3>2
  <2>4. StampsOf(short) = Len(Flatten(first))
    BY <2>3 DEF StampsOf
  <2>5. Flatten(first) \in Seq(Int) /\ Len(Flatten(first)) + Len(times[i]) <= Len(Flatten(times))
    BY <1>3, FlattenedLength DEF first, m
  <2> QED  BY <1>3, <1>4, <2>4, <2>5 DEF short, m
<1>7. ASSUME NEW i \in 1 .. n
      PROVE  /\ Stamped(prepared)[i] \in Seq(Sample)
             /\ \A k \in 1 .. Len(Stamped(prepared)[i]) :
                   /\ Stamped(prepared)[i][k].seq >= ingest_seq
                   /\ Stamped(prepared)[i][k].seq < ingest_seq + stamps
                   /\ Stamped(prepared)[i][k].source = prepared[i].source
  <2> DEFINE before == ingest_seq + StampsOf(SubSeq(prepared, 1, i - 1))
             len == Len(prepared[i].times)
             sample(k) == [ts |-> prepared[i].times[k], seq |-> before + k - 1,
                           of |-> prepared[i].of, source |-> prepared[i].source]
  <2>1. /\ before \in Nat /\ before >= ingest_seq /\ before + len <= ingest_seq + stamps
        /\ len \in Nat
    <3> DEFINE drawn == StampsOf(SubSeq(prepared, 1, i - 1))
    <3>1. drawn \in Nat /\ drawn + len <= stamps
      BY <1>6
    <3>2. len \in Nat
      BY <1>2
    <3>3. before = ingest_seq + drawn
      OBVIOUS
    <3> HIDE DEF drawn, before, len
    <3> QED  BY <1>5, <3>1, <3>2, <3>3
  <2>2. Stamped(prepared)[i] = [k \in 1 .. len |-> sample(k)]
    <3>1. DOMAIN prepared[i].times = 1 .. len
      BY <1>2
    <3> QED  BY <1>1, <3>1 DEF Stamped
  <2>3. \A k \in 1 .. len : prepared[i].times[k] \in Int
    BY <1>2
  <2>4. \A k \in 1 .. len : /\ before + k - 1 \in Nat /\ before + k - 1 >= ingest_seq
                            /\ before + k - 1 < ingest_seq + stamps
    <3> HIDE DEF before, len
    <3> QED  BY <1>5, <2>1
  <2> HIDE DEF before, len
  <2>5. \A k \in 1 .. len : /\ sample(k) \in Sample /\ sample(k).seq >= ingest_seq
                            /\ sample(k).seq < ingest_seq + stamps
                            /\ sample(k).source = prepared[i].source
    BY <1>2, <2>3, <2>4 DEF Sample
  <2> HIDE DEF sample
  <2>6. /\ Stamped(prepared)[i] \in Seq(Sample) /\ Len(Stamped(prepared)[i]) = len
        /\ \A k \in 1 .. len : Stamped(prepared)[i][k] = sample(k)
    BY <2>1, <2>2, <2>5
  <2> QED  BY <2>5, <2>6
<1> QED  BY <1>5, <1>7 DEF stamps

-----------------------------------------------------------------------------
LabelsIn(s) == [id \in DOMAIN s |-> s[id].labels]

SamplesIn(s) == [id \in DOMAIN s |-> s[id].samples]

(* The store in the middle of a request: `st` has the fields of the record
   that IngestSamples works on.                                            *)
StoreTyped(st) ==
    /\ st.next \in Nat
    /\ \A id \in DOMAIN st.series :
          id \in Nat /\ st.series[id] \in Series /\ TimeSorted(st.series[id].samples)

StoreIndexed(st) ==
    /\ LabelIndexExact(st.index, LabelsIn(st.series))
    /\ LabelValuesExact(st.values, LabelsIn(st.series))
    /\ InternerCovers(st.interner, LabelsIn(st.series))

StoreIdentified(st) ==
    /\ DOMAIN st.ids = {st.series[id].labels : id \in DOMAIN st.series}
    /\ \A id \in DOMAIN st.series : id < st.next /\ st.ids[st.series[id].labels] = id

StoreCounted(st) == st.total = CountItems(SamplesIn(st.series))

StoreInv(st) == StoreTyped(st) /\ StoreIndexed(st) /\ StoreIdentified(st) /\ StoreCounted(st)

LEMMA SampleFields == \A x \in Sample : x.ts \in Int /\ x.seq \in Nat /\ x.source \in PointSources
BY DEF Sample

LEMMA SeriesFields ==
    ASSUME NEW st, StoreTyped(st), NEW id \in DOMAIN st.series
    PROVE  /\ id \in Nat
           /\ st.series[id].labels \in SUBSET SeriesPairs
           /\ st.series[id].samples \in Seq(Sample)
           /\ Len(st.series[id].samples) \in Nat
           /\ DOMAIN st.series[id].samples = 1 .. Len(st.series[id].samples)
           /\ TimeSorted(st.series[id].samples)
<1>1. st.series[id] \in Series /\ TimeSorted(st.series[id].samples) /\ id \in Nat
  BY DEF StoreTyped
<1>2. st.series[id].labels \in SUBSET SeriesPairs /\ st.series[id].samples \in Seq(Sample)
  BY <1>1 DEF Series
<1> QED  BY <1>1, <1>2

LEMMA SeriesLabelsArePairs ==
    ASSUME NEW labels \in SUBSET SeriesPairs
    PROVE  PairsOnly(labels)
<1>1. \A m \in OtlpMetrics : \A p \in m.labels : p = <<p[1], p[2]>>
  BY MetricConstants
<1>2. \A s \in RemoteSeries : \A p \in s.labels : p = <<p[1], p[2]>>
  BY MetricConstants
<1> QED  BY <1>1, <1>2 DEF PairsOnly, SeriesPairs, SentPairs

LEMMA SamplesFinite ==
    ASSUME NEW st, StoreTyped(st), StoreIdentified(st)
    PROVE  /\ IsFiniteSet(DOMAIN st.series)
           /\ DOMAIN SamplesIn(st.series) = DOMAIN st.series
           /\ \A id \in DOMAIN st.series : SamplesIn(st.series)[id] = st.series[id].samples
           /\ IsFiniteSet(Slots(SamplesIn(st.series)))
           /\ CountItems(SamplesIn(st.series)) \in Nat
<1>1. IsFiniteSet(DOMAIN st.series)
  <2>1. DOMAIN st.series \in SUBSET Nat /\ st.next \in Nat
    BY DEF StoreTyped
  <2>2. \A id \in DOMAIN st.series : id <= st.next
    BY <2>1 DEF StoreIdentified
  <2> QED  BY <2>1, <2>2, FS_BoundedSetOfNaturals
<1>2. /\ DOMAIN SamplesIn(st.series) = DOMAIN st.series
      /\ \A id \in DOMAIN st.series : SamplesIn(st.series)[id] = st.series[id].samples
  BY DEF SamplesIn
<1>3. \A id \in DOMAIN SamplesIn(st.series) : \E n \in Nat : DOMAIN SamplesIn(st.series)[id] = 1 .. n
  BY <1>2, SeriesFields
<1>4. IsFiniteSet(Slots(SamplesIn(st.series)))
  BY <1>1, <1>2, <1>3, SlotsFinite
<1> QED  BY <1>1, <1>2, <1>4, FS_CardinalityType DEF CountItems

-----------------------------------------------------------------------------
(* `new` has the items of `old` and of `batch`, in the order of time. *)
Merged(old, batch, new) ==
    /\ new \in Seq(Sample) /\ TimeSorted(new)
    /\ Len(new) = Len(old) + Len(batch)
    /\ \A i \in 1 .. Len(old) : \E r \in 1 .. Len(new) : new[r] = old[i]
    /\ \A r \in 1 .. Len(new) : \/ \E i \in 1 .. Len(old) : new[r] = old[i]
                                \/ \E i \in 1 .. Len(batch) : new[r] = batch[i]

LEMMA AppendMerges ==
    ASSUME NEW old \in Seq(Sample), TimeSorted(old), NEW batch \in Seq(Sample)
    PROVE  Merged(old, batch, AppendBatch(old, batch))
<1> DEFINE s == old \o batch
           m == Len(old)
           k == Len(batch)
           n == m + k
           out == AppendBatch(old, batch)
<1>1. m \in Nat /\ k \in Nat /\ n \in Nat
  OBVIOUS
<1>2. /\ s \in Seq(Sample) /\ Len(s) = n
      /\ \A i \in 1 .. m : s[i] = old[i]
      /\ \A i \in m + 1 .. n : i - m \in 1 .. k /\ s[i] = batch[i - m]
  <2>1. /\ s \in Seq(Sample) /\ Len(s) = m + k
        /\ \A i \in 1 .. Len(s) : s[i] = IF i <= m THEN old[i] ELSE batch[i - m]
    BY ConcatProperties, Zenon
  <2> HIDE DEF s, m, k
  <2> QED  BY <1>1, <2>1
<1>3. PICK from : Rearranges(from, s, out)
  BY SampleFields, AppendBatchIsPermutation
<1> HIDE DEF s, m, k, n, out
<1>4. /\ \A r \in 1 .. n : from[r] \in 1 .. n
      /\ \A i \in 1 .. n : \E r \in 1 .. n : from[r] = i
      /\ out = [r \in 1 .. n |-> s[from[r]]]
      /\ \A r, q \in 1 .. n : r < q => SortsBefore(s, from[r], from[q])
  BY <1>2, <1>3 DEF Rearranges, Bijection, Injection, Surjection
<1>5. out \in Seq(Sample) /\ Len(out) = n /\ \A r \in 1 .. n : out[r] = s[from[r]]
  <2>1. \A r \in 1 .. n : s[from[r]] \in Sample
    BY <1>2, <1>4
  <2> QED  BY <1>1, <1>4, <2>1
<1>6. TimeSorted(out)
  <2> SUFFICES ASSUME NEW r \in 1 .. n, NEW q \in 1 .. n, r < q PROVE out[r].ts <= out[q].ts
    BY <1>5 DEF TimeSorted
  <2>1. SortsBefore(s, from[r], from[q]) /\ from[r] \in 1 .. n /\ from[q] \in 1 .. n
    BY <1>4
  <2>2. out[r] = s[from[r]] /\ out[q] = s[from[q]]
    BY <1>5
  <2>3. s[from[r]].ts \in Int /\ s[from[q]].ts \in Int
    BY <1>2, <2>1, SampleFields
  <2>4. s[from[r]].ts < s[from[q]].ts \/ s[from[r]].ts = s[from[q]].ts
    BY <2>1 DEF SortsBefore
  <2> QED  BY <2>2, <2>3, <2>4
<1>7. \A i \in 1 .. m : \E r \in 1 .. n : out[r] = old[i]
  <2> SUFFICES ASSUME NEW i \in 1 .. m PROVE \E r \in 1 .. n : out[r] = old[i]
    OBVIOUS
  <2>1. i \in 1 .. n /\ s[i] = old[i]
    BY <1>1, <1>2 DEF n
  <2>2. PICK r \in 1 .. n : from[r] = i
    BY <1>4, <2>1
  <2> QED  BY <1>5, <2>1, <2>2
<1>8. \A r \in 1 .. n : \/ \E i \in 1 .. m : out[r] = old[i]
                        \/ \E i \in 1 .. k : out[r] = batch[i]
  <2> SUFFICES ASSUME NEW r \in 1 .. n
               PROVE  \/ \E i \in 1 .. m : out[r] = old[i]
                      \/ \E i \in 1 .. k : out[r] = batch[i]
    OBVIOUS
  <2>1. from[r] \in 1 .. n /\ out[r] = s[from[r]]
    BY <1>4, <1>5
  <2>2. CASE from[r] \in 1 .. m
    BY <1>2, <2>1, <2>2
  <2>3. CASE from[r] \in m + 1 .. n
    BY <1>2, <2>1, <2>3
  <2>4. from[r] \in 1 .. m \/ from[r] \in m + 1 .. n
    BY <1>1, <2>1
  <2> QED  BY <2>2, <2>3, <2>4
<1> QED  BY <1>5, <1>6, <1>7, <1>8 DEF Merged, m, k, n, out

-----------------------------------------------------------------------------
(* What ingest_samples does to the series, whether the label set has one or
   not: `old` are the samples of the series before.                        *)
Receives(st, new, id, old, labels, samples) ==
    /\ id \in Nat /\ labels \in SUBSET SeriesPairs
    /\ old \in Seq(Sample) /\ TimeSorted(old) /\ samples \in Seq(Sample)
    /\ DOMAIN new.series = DOMAIN st.series \cup {id}
    /\ new.series[id].labels = labels /\ new.series[id] \in Series
    /\ Merged(old, samples, new.series[id].samples)
    /\ \A other \in DOMAIN st.series : other # id => new.series[other] = st.series[other]
    /\ id \in DOMAIN st.series => st.series[id].labels = labels /\ old = st.series[id].samples
    /\ id \notin DOMAIN st.series => old = << >>
    /\ new.total = st.total + Len(samples)

FullLabels(p) == p.labels \cup {<<"__name__", p.name>>}

LEMMA FullLabelsTyped ==
    ASSUME NEW p \in PreparedPoint
    PROVE  FullLabels(p) \in SUBSET SeriesPairs
<1>1. p.labels \in SUBSET SentPairs /\ p.name \in PointNames
  BY DEF PreparedPoint
<1> QED  BY <1>1 DEF FullLabels, SeriesPairs

(* A label set without a series gets one, under a fresh id. *)
IngestsNew(st, new, id, labels) ==
    /\ labels \notin DOMAIN st.ids
    /\ id = st.next /\ id \notin DOMAIN st.series
    /\ new.interner = InternLabelPairs(st.interner, labels)
    /\ new.values = TrackLabelValues(st.values, labels)
    /\ new.index = AddToLabelIndex(st.index, labels, id)
    /\ DOMAIN new.ids = DOMAIN st.ids \cup {labels}
    /\ \A l \in DOMAIN new.ids : new.ids[l] = IF l = labels THEN id ELSE st.ids[l]
    /\ new.next = st.next + 1

IngestsKnown(st, new, id, labels) ==
    /\ labels \in DOMAIN st.ids
    /\ id \in DOMAIN st.series
    /\ new.interner = InternLabelPairs(st.interner, labels)
    /\ new.values = TrackLabelValues(st.values, labels)
    /\ new.index = st.index
    /\ DOMAIN new.ids = DOMAIN st.ids
    /\ \A l \in DOMAIN new.ids : new.ids[l] = st.ids[l]
    /\ new.next = st.next

LEMMA IngestSamplesReceives ==
    ASSUME NEW st, StoreInv(st), NEW p \in PreparedPoint, NEW samples \in Seq(Sample),
           NEW new, new = IngestSamples(st, p, samples)
    PROVE  \E id, old : /\ Receives(st, new, id, old, FullLabels(p), samples)
                        /\ \/ IngestsNew(st, new, id, FullLabels(p))
                           \/ IngestsKnown(st, new, id, FullLabels(p))
<1> DEFINE labels == FullLabels(p)
           known == labels \in DOMAIN st.ids
           id == IF known THEN st.ids[labels] ELSE st.next
           old == IF known THEN st.series[id].samples ELSE << >>
           grown == AppendBatch(old, samples)
<1>1. /\ new.interner = InternLabelPairs(st.interner, labels)
      /\ new.values = TrackLabelValues(st.values, labels)
      /\ new.index = IF known THEN st.index ELSE AddToLabelIndex(st.index, labels, id)
      /\ new.ids = [l \in DOMAIN st.ids \cup {labels} |-> IF l = labels THEN id ELSE st.ids[l]]
      /\ new.next = IF known THEN st.next ELSE st.next + 1
      /\ new.series = [i \in DOMAIN st.series \cup {id} |->
                          IF i = id THEN [labels |-> labels, samples |-> grown] ELSE st.series[i]]
      /\ new.total = st.total + Len(samples)
  BY DEF IngestSamples, FullLabels
<1>2. labels \in SUBSET SeriesPairs
  BY FullLabelsTyped
<1> HIDE DEF labels
<1>3. known => id \in DOMAIN st.series /\ st.series[id].labels = labels /\ id \in Nat
  <2> SUFFICES ASSUME known PROVE id \in DOMAIN st.series /\ st.series[id].labels = labels /\ id \in Nat
    OBVIOUS
  <2>1. PICK i \in DOMAIN st.series : labels = st.series[i].labels
    BY DEF StoreInv, StoreIdentified
  <2>2. st.ids[labels] = i
    BY <2>1 DEF StoreInv, StoreIdentified
  <2> QED  BY <2>1, <2>2, SeriesFields DEF StoreInv
<1>4. ~ known => id \notin DOMAIN st.series /\ id \in Nat
  BY DEF StoreInv, StoreIdentified, StoreTyped
<1>5. old \in Seq(Sample) /\ TimeSorted(old)
  <2>1. CASE known
    BY <1>3, <2>1, SeriesFields DEF StoreInv
  <2>2. CASE ~ known
    <3>1. old = << >> /\ << >> \in Seq(Sample) /\ Len(<< >>) = 0
      BY <2>2
    <3> HIDE DEF old
    <3> QED  BY <3>1 DEF TimeSorted
  <2> QED  BY <2>1, <2>2
<1>6. Merged(old, samples, grown)
  BY <1>5, AppendMerges
<1>7. [labels |-> labels, samples |-> grown] \in Series
  BY <1>2, <1>6 DEF Series, Merged
<1>8. id \in DOMAIN st.series => known
  BY <1>4
<1>9. /\ id \in DOMAIN st.series => old = st.series[id].samples
      /\ id \notin DOMAIN st.series => old = << >>
  BY <1>3, <1>8
<1> HIDE DEF old, grown
<1>10. Receives(st, new, id, old, labels, samples)
  <2>1. /\ DOMAIN new.series = DOMAIN st.series \cup {id}
        /\ new.series[id] = [labels |-> labels, samples |-> grown]
        /\ \A other \in DOMAIN st.series : other # id => new.series[other] = st.series[other]
    BY <1>1
  <2>2. id \in Nat /\ (id \in DOMAIN st.series => st.series[id].labels = labels)
    BY <1>3, <1>4, <1>8
  <2> HIDE DEF id, known
  <2> QED  BY <1>1, <1>2, <1>5, <1>6, <1>7, <1>9, <2>1, <2>2 DEF Receives
<1>11. CASE known
  <2>1. IngestsKnown(st, new, id, labels)
    <3>1. labels \in DOMAIN st.ids /\ st.ids[labels] = id
      BY <1>11
    <3> QED  BY <1>1, <1>3, <1>11, <3>1 DEF IngestsKnown
  <2> QED  BY <1>10, <2>1 DEF labels
<1>12. CASE ~ known
  <2>1. IngestsNew(st, new, id, labels)
    BY <1>1, <1>4, <1>12 DEF IngestsNew
  <2> QED  BY <1>10, <2>1 DEF labels
<1> QED  BY <1>11, <1>12

LEMMA ReceivesExtends ==
    ASSUME NEW st, NEW new, NEW id, NEW old, NEW labels, NEW samples,
           Receives(st, new, id, old, labels, samples)
    PROVE  /\ id \notin DOMAIN st.series
                 => LabelsIn(new.series) = Extend(LabelsIn(st.series), labels, id)
           /\ id \in DOMAIN st.series => LabelsIn(new.series) = LabelsIn(st.series)
<1>1. /\ DOMAIN new.series = DOMAIN st.series \cup {id}
      /\ new.series[id].labels = labels
      /\ \A other \in DOMAIN st.series : other # id => new.series[other] = st.series[other]
      /\ id \in DOMAIN st.series => st.series[id].labels = labels
  BY DEF Receives
<1> QED  BY <1>1 DEF LabelsIn, Extend

LEMMA IngestKeepsIndexed ==
    ASSUME NEW st, StoreInv(st), NEW new, NEW id, NEW old, NEW labels, NEW samples,
           Receives(st, new, id, old, labels, samples),
           IngestsNew(st, new, id, labels) \/ IngestsKnown(st, new, id, labels)
    PROVE  StoreIndexed(new)
<1> DEFINE before == LabelsIn(st.series)
           after == LabelsIn(new.series)
<1>1. /\ LabelIndexExact(st.index, before) /\ LabelValuesExact(st.values, before)
      /\ InternerCovers(st.interner, before)
      /\ DOMAIN before = DOMAIN st.series
      /\ \A i \in DOMAIN st.series : before[i] = st.series[i].labels
  BY DEF StoreInv, StoreIndexed, LabelsIn
<1>2. CASE IngestsNew(st, new, id, labels)
  <2>1. /\ id \notin DOMAIN before
        /\ new.interner = InternLabelPairs(st.interner, labels)
        /\ new.values = TrackLabelValues(st.values, labels)
        /\ new.index = AddToLabelIndex(st.index, labels, id)
    BY <1>1, <1>2 DEF IngestsNew
  <2>2. after = Extend(before, labels, id)
    BY <1>1, <2>1, ReceivesExtends
  <2> HIDE DEF before, after
  <2>3. LabelIndexExact(new.index, after)
    BY <1>1, <2>1, <2>2, AddKeepsLabelIndexExact
  <2>4. LabelValuesExact(new.values, after)
    BY <1>1, <2>1, <2>2, TrackKeepsLabelValuesExact
  <2>5. AllPairs(after) = AllPairs(before) \cup labels
    BY <2>1, <2>2, AllPairsExtend
  <2>6. InternerCovers(new.interner, after)
    BY <1>1, <2>1, <2>5 DEF InternerCovers, InternLabelPairs
  <2> QED  BY <2>3, <2>4, <2>6 DEF StoreIndexed, after
<1>3. CASE IngestsKnown(st, new, id, labels)
  <2>1. /\ id \in DOMAIN before /\ before[id] = labels
        /\ new.interner = InternLabelPairs(st.interner, labels)
        /\ new.values = TrackLabelValues(st.values, labels)
        /\ new.index = st.index
    BY <1>1, <1>3 DEF IngestsKnown, Receives
  <2>2. after = before
    BY <1>1, <2>1, ReceivesExtends
  <2> HIDE DEF before, after
  <2>3. new.values = st.values
    BY <1>1, <2>1, TrackKnownKeepsLabelValues
  <2>4. InternerCovers(new.interner, after)
    BY <1>1, <2>1, <2>2 DEF InternerCovers, InternLabelPairs
  <2> QED  BY <1>1, <2>1, <2>2, <2>3, <2>4 DEF StoreIndexed, after
<1> QED  BY <1>2, <1>3

LEMMA IngestKeepsIdentified ==
    ASSUME NEW st, StoreInv(st), NEW new, NEW id, NEW old, NEW labels, NEW samples,
           Receives(st, new, id, old, labels, samples),
           IngestsNew(st, new, id, labels) \/ IngestsKnown(st, new, id, labels)
    PROVE  StoreIdentified(new)
<1>1. /\ DOMAIN st.ids = {st.series[i].labels : i \in DOMAIN st.series}
      /\ \A i \in DOMAIN st.series : i < st.next /\ st.ids[st.series[i].labels] = i
      /\ st.next \in Nat /\ \A i \in DOMAIN st.series : i \in Nat
  BY DEF StoreInv, StoreIdentified, StoreTyped
<1>2. /\ DOMAIN new.series = DOMAIN st.series \cup {id}
      /\ new.series[id].labels = labels
      /\ \A i \in DOMAIN st.series : new.series[i].labels = st.series[i].labels
  BY DEF Receives
<1>3. CASE IngestsNew(st, new, id, labels)
  <2>1. /\ labels \notin DOMAIN st.ids /\ id = st.next /\ id \notin DOMAIN st.series
        /\ DOMAIN new.ids = DOMAIN st.ids \cup {labels}
        /\ \A l \in DOMAIN new.ids : new.ids[l] = IF l = labels THEN id ELSE st.ids[l]
        /\ new.next = st.next + 1
    BY <1>3 DEF IngestsNew
  <2>2. DOMAIN new.ids = {new.series[i].labels : i \in DOMAIN new.series}
    BY <1>1, <1>2, <2>1
  <2>3. \A i \in DOMAIN new.series : i < new.next /\ new.ids[new.series[i].labels] = i
    <3> SUFFICES ASSUME NEW i \in DOMAIN new.series
                 PROVE  i < new.next /\ new.ids[new.series[i].labels] = i
      OBVIOUS
    <3>1. CASE i = id
      BY <1>1, <1>2, <2>1, <3>1
    <3>2. CASE i \in DOMAIN st.series
      <4>1. new.series[i].labels = st.series[i].labels /\ st.series[i].labels \in DOMAIN st.ids
        BY <1>1, <1>2, <3>2
      <4>2. st.series[i].labels # labels
        BY <2>1, <4>1
      <4> QED  BY <1>1, <2>1, <3>2, <4>1, <4>2
    <3> QED  BY <1>2, <3>1, <3>2
  <2> QED  BY <2>2, <2>3 DEF StoreIdentified
<1>4. CASE IngestsKnown(st, new, id, labels)
  <2>1. /\ id \in DOMAIN st.series /\ DOMAIN new.ids = DOMAIN st.ids /\ new.next = st.next
        /\ \A l \in DOMAIN new.ids : new.ids[l] = st.ids[l]
    BY <1>4 DEF IngestsKnown
  <2>2. DOMAIN new.series = DOMAIN st.series
    BY <1>2, <2>1
  <2> QED  BY <1>1, <1>2, <2>1, <2>2 DEF StoreIdentified
<1> QED  BY <1>3, <1>4

LEMMA IngestKeepsTyped ==
    ASSUME NEW st, StoreInv(st), NEW new, NEW id, NEW old, NEW labels, NEW samples,
           Receives(st, new, id, old, labels, samples),
           IngestsNew(st, new, id, labels) \/ IngestsKnown(st, new, id, labels)
    PROVE  StoreTyped(new)
<1>1. st.next \in Nat /\ \A i \in DOMAIN st.series :
          i \in Nat /\ st.series[i] \in Series /\ TimeSorted(st.series[i].samples)
  BY DEF StoreInv, StoreTyped
<1>2. new.next \in Nat
  BY <1>1 DEF IngestsNew, IngestsKnown
<1>3. /\ id \in Nat /\ new.series[id] \in Series /\ TimeSorted(new.series[id].samples)
      /\ DOMAIN new.series = DOMAIN st.series \cup {id}
      /\ \A i \in DOMAIN st.series : i # id => new.series[i] = st.series[i]
  BY DEF Receives, Merged
<1> QED  BY <1>1, <1>2, <1>3 DEF StoreTyped

LEMMA IngestKeepsCounted ==
    ASSUME NEW st, StoreInv(st), NEW new, NEW id, NEW old, NEW labels, NEW samples,
           Receives(st, new, id, old, labels, samples)
    PROVE  StoreCounted(new)
<1> DEFINE before == SamplesIn(st.series)
           after == SamplesIn(new.series)
           m == Len(old)
           n == Len(samples)
<1>1. /\ IsFiniteSet(Slots(before)) /\ DOMAIN before = DOMAIN st.series
      /\ \A i \in DOMAIN st.series : before[i] = st.series[i].samples
  BY SamplesFinite DEF StoreInv
<1>2. /\ DOMAIN after = DOMAIN new.series
      /\ \A i \in DOMAIN new.series : after[i] = new.series[i].samples
  BY DEF SamplesIn
<1>3. /\ DOMAIN new.series = DOMAIN st.series \cup {id}
      /\ \A i \in DOMAIN st.series : i # id => new.series[i] = st.series[i]
      /\ id \in DOMAIN st.series => old = st.series[id].samples
      /\ id \notin DOMAIN st.series => old = << >>
      /\ old \in Seq(Sample) /\ samples \in Seq(Sample)
      /\ new.total = st.total + n
  BY DEF Receives
<1>4. m \in Nat /\ n \in Nat /\ DOMAIN old = 1 .. m
  BY <1>3
<1>5. DOMAIN new.series[id].samples = 1 .. m + n
  <2>1. new.series[id].samples \in Seq(Sample) /\ Len(new.series[id].samples) = m + n
    BY DEF Receives, Merged
  <2> QED  BY <2>1
<1>6. id \notin DOMAIN st.series => m = 0
  BY <1>3
<1> HIDE DEF before, after, m, n
<1>7. Grows(before, after, id, m, n)
  BY <1>1, <1>2, <1>3, <1>4, <1>5, <1>6 DEF Grows
<1>8. CountItems(after) = CountItems(before) + n
  BY <1>1, <1>4, <1>7, OneGrows
<1> QED  BY <1>3, <1>8 DEF StoreInv, StoreCounted, before, after

LEMMA IngestSamplesKeepsStore ==
    ASSUME NEW st, StoreInv(st), NEW p \in PreparedPoint, NEW samples \in Seq(Sample)
    PROVE  StoreInv(IngestSamples(st, p, samples))
<1> DEFINE new == IngestSamples(st, p, samples)
<1>1. \E id, old : /\ Receives(st, new, id, old, FullLabels(p), samples)
                   /\ \/ IngestsNew(st, new, id, FullLabels(p))
                      \/ IngestsKnown(st, new, id, FullLabels(p))
  BY IngestSamplesReceives
<1> HIDE DEF new
<1>2. PICK id, old : /\ Receives(st, new, id, old, FullLabels(p), samples)
                     /\ \/ IngestsNew(st, new, id, FullLabels(p))
                        \/ IngestsKnown(st, new, id, FullLabels(p))
  BY <1>1
<1>3. StoreTyped(new) /\ StoreIndexed(new) /\ StoreIdentified(new) /\ StoreCounted(new)
  BY <1>2, IngestKeepsTyped, IngestKeepsIndexed, IngestKeepsIdentified, IngestKeepsCounted
<1> QED  BY <1>3 DEF StoreInv, new

-----------------------------------------------------------------------------
(* The points of a request, one after the other. *)
Current ==
    [interner |-> interner, values |-> label_values, index |-> label_index, ids |-> series_ids,
     next |-> next_series_id, series |-> series, total |-> total_samples]

AtStart(prepared) ==
    [interner |-> interner \cup NamesAndSources(prepared), values |-> label_values,
     index |-> label_index, ids |-> series_ids, next |-> next_series_id,
     series |-> series, total |-> total_samples]

Ingests(after, prepared, samples) ==
    after = [i \in 0 .. Len(prepared) |->
                IF i = 0 THEN AtStart(prepared)
                ELSE IngestSamples(after[i - 1], prepared[i], samples[i])]

LEMMA IngestAllIngests ==
    ASSUME NEW prepared \in Seq(PreparedPoint), NEW samples
    PROVE  \E after : Ingests(after, prepared, samples)
                      /\ IngestAll(prepared, samples) = after[Len(prepared)]
<1> DEFINE n == Len(prepared)
           Ends(f, k) ==
              f = [i \in 0 .. k |-> IF i = 0 THEN AtStart(prepared)
                                    ELSE IngestSamples(f[i - 1], prepared[i], samples[i])]
           reached == {k \in 0 .. n : \E f : Ends(f, k)}
<1>1. n \in Nat
  OBVIOUS
<1>2. \E f : Ends(f, 0)
  <2>1. Ends([i \in 0 .. 0 |-> AtStart(prepared)], 0)
    OBVIOUS
  <2> HIDE DEF Ends
  <2> QED  BY <2>1
<1>3. ASSUME NEW k \in 0 .. n, NEW f, Ends(f, k), k < n PROVE \E g : Ends(g, k + 1)
  <2> DEFINE last == IngestSamples(f[k], prepared[k + 1], samples[k + 1])
             g == [i \in 0 .. k + 1 |-> IF i = k + 1 THEN last ELSE f[i]]
  <2>1. /\ k \in Nat /\ DOMAIN f = 0 .. k /\ f[0] = AtStart(prepared)
        /\ \A i \in 0 .. k : i # 0 => f[i] = IngestSamples(f[i - 1], prepared[i], samples[i])
    <3>1. k \in Nat /\ 0 \in 0 .. k
      OBVIOUS
    <3> HIDE DEF n
    <3> QED  BY <1>3, <3>1
  <2>2. /\ DOMAIN g = 0 .. k + 1
        /\ g[k + 1] = last
        /\ \A i \in 0 .. k : g[i] = f[i]
    <3> HIDE DEF last
    <3> QED  BY <2>1
  <2>3. \A i \in 0 .. k + 1 : g[i] = IF i = 0 THEN AtStart(prepared)
                                     ELSE IngestSamples(g[i - 1], prepared[i], samples[i])
    <3> HIDE DEF g
    <3> SUFFICES ASSUME NEW i \in 0 .. k + 1
                 PROVE  g[i] = IF i = 0 THEN AtStart(prepared)
                               ELSE IngestSamples(g[i - 1], prepared[i], samples[i])
      OBVIOUS
    <3>1. CASE i = k + 1
      <4>1. i - 1 = k /\ i # 0 /\ k \in 0 .. k
        BY <2>1, <3>1
      <4> QED  BY <2>2, <3>1, <4>1
    <3>2. CASE i = 0
      BY <2>1, <2>2, <3>2
    <3>3. CASE i \in 0 .. k /\ i # 0
      <4>1. i - 1 \in 0 .. k
        BY <2>1, <3>3
      <4> QED  BY <2>1, <2>2, <3>3, <4>1
    <3> QED  BY <2>1, <3>1, <3>2, <3>3
  <2>4. g = [i \in 0 .. k + 1 |-> g[i]]
    OBVIOUS
  <2> HIDE DEF g
  <2>5. Ends(g, k + 1)
    BY <2>3, <2>4
  <2> HIDE DEF Ends
  <2> QED  BY <2>5
<1> HIDE DEF Ends
<1>4. 0 \in reached
  BY <1>1, <1>2
<1>5. \A k \in 0 .. n : k \in reached /\ k < n => k + 1 \in reached
  BY <1>1, <1>3
<1> HIDE DEF reached
<1>6. n \in reached
  <2>1. n \in 0 .. n
    BY <1>1
  <2> HIDE DEF n
  <2> QED  BY <1>1, <1>4, <1>5, <2>1, CountUp
<1>7. \E f : Ends(f, n)
  BY <1>6 DEF reached
<1> QED  BY <1>7 DEF IngestAll, AtStart, Ends, Ingests

LEMMA IngestSteps ==
    ASSUME NEW prepared \in Seq(PreparedPoint), NEW samples, NEW after,
           Ingests(after, prepared, samples)
    PROVE  /\ after[0] = AtStart(prepared)
           /\ \A i \in 1 .. Len(prepared) :
                 after[i] = IngestSamples(after[i - 1], prepared[i], samples[i])
<1> DEFINE n == Len(prepared)
<1>1. n \in Nat
  OBVIOUS
<1>2. 0 \in 0 .. n /\ \A i \in 1 .. n : i \in 0 .. n /\ i # 0
  BY <1>1
<1>3. after = [i \in 0 .. n |-> IF i = 0 THEN AtStart(prepared)
                                ELSE IngestSamples(after[i - 1], prepared[i], samples[i])]
  BY DEF Ingests
<1> HIDE DEF n
<1> QED  BY <1>2, <1>3 DEF n

(* The store after some points of the request: what it had is there, and
   what is new has a stamp of the request.                                 *)
HasGrown(st, bound) ==
    /\ \A id \in DOMAIN series :
          /\ id \in DOMAIN st.series /\ st.series[id].labels = series[id].labels
          /\ \A i \in 1 .. Len(series[id].samples) :
                \E r \in 1 .. Len(st.series[id].samples) :
                    st.series[id].samples[r] = series[id].samples[i]
    /\ \A id \in DOMAIN st.series : \A r \in 1 .. Len(st.series[id].samples) :
          \/ /\ id \in DOMAIN series
             /\ \E i \in 1 .. Len(series[id].samples) :
                   st.series[id].samples[r] = series[id].samples[i]
          \/ /\ st.series[id].samples[r].seq >= ingest_seq
             /\ st.series[id].samples[r].seq < bound

LEMMA PointKeepsHasGrown ==
    ASSUME NEW st, NEW bound, HasGrown(st, bound), NEW new, NEW id, NEW old, NEW labels, NEW samples,
           Receives(st, new, id, old, labels, samples),
           \A k \in 1 .. Len(samples) : samples[k].seq >= ingest_seq /\ samples[k].seq < bound
    PROVE  HasGrown(new, bound)
<1> DEFINE now == new.series[id].samples
<1>1. /\ DOMAIN new.series = DOMAIN st.series \cup {id}
      /\ new.series[id].labels = labels
      /\ \A other \in DOMAIN st.series : other # id => new.series[other] = st.series[other]
      /\ id \in DOMAIN st.series => st.series[id].labels = labels /\ old = st.series[id].samples
      /\ id \notin DOMAIN st.series => old = << >>
  BY DEF Receives
<1>2. /\ \A i \in 1 .. Len(old) : \E r \in 1 .. Len(now) : now[r] = old[i]
      /\ \A r \in 1 .. Len(now) : \/ \E i \in 1 .. Len(old) : now[r] = old[i]
                                  \/ \E i \in 1 .. Len(samples) : now[r] = samples[i]
  BY DEF Receives, Merged
<1> HIDE DEF now
<1>3. ASSUME NEW a \in DOMAIN series
      PROVE  /\ a \in DOMAIN new.series /\ new.series[a].labels = series[a].labels
             /\ \A i \in 1 .. Len(series[a].samples) :
                   \E r \in 1 .. Len(new.series[a].samples) :
                       new.series[a].samples[r] = series[a].samples[i]
  <2>1. /\ a \in DOMAIN st.series /\ st.series[a].labels = series[a].labels
        /\ \A i \in 1 .. Len(series[a].samples) :
              \E r \in 1 .. Len(st.series[a].samples) :
                  st.series[a].samples[r] = series[a].samples[i]
    BY DEF HasGrown
  <2>2. CASE a # id
    BY <1>1, <2>1, <2>2
  <2>3. CASE a = id
    <3>1. old = st.series[a].samples /\ new.series[a].samples = now
      BY <1>1, <2>1, <2>3 DEF now
    <3>2. \A i \in 1 .. Len(series[a].samples) : \E r \in 1 .. Len(now) : now[r] = series[a].samples[i]
      <4> SUFFICES ASSUME NEW i \in 1 .. Len(series[a].samples)
                   PROVE  \E r \in 1 .. Len(now) : now[r] = series[a].samples[i]
        OBVIOUS
      <4>1. PICK q \in 1 .. Len(old) : old[q] = series[a].samples[i]
        BY <2>1, <3>1
      <4> QED  BY <1>2, <4>1
    <3> QED  BY <1>1, <2>1, <2>3, <3>1, <3>2
  <2> QED  BY <2>2, <2>3
<1>4. ASSUME NEW a \in DOMAIN new.series, NEW r \in 1 .. Len(new.series[a].samples)
      PROVE  \/ /\ a \in DOMAIN series
                /\ \E i \in 1 .. Len(series[a].samples) :
                      new.series[a].samples[r] = series[a].samples[i]
             \/ /\ new.series[a].samples[r].seq >= ingest_seq
                /\ new.series[a].samples[r].seq < bound
  <2>1. CASE a # id
    <3>1. a \in DOMAIN st.series /\ new.series[a] = st.series[a]
      BY <1>1, <2>1
    <3> QED  BY <3>1 DEF HasGrown
  <2>2. CASE a = id
    <3>1. new.series[a].samples = now
      BY <2>2 DEF now
    <3>2. CASE \E i \in 1 .. Len(samples) : now[r] = samples[i]
      BY <3>1, <3>2
    <3>3. CASE \E i \in 1 .. Len(old) : now[r] = old[i]
      <4>1. PICK i \in 1 .. Len(old) : now[r] = old[i]
        BY <3>3
      <4>2. id \in DOMAIN st.series
        <5>1. Len(<< >>) = 0
          OBVIOUS
        <5> QED  BY <1>1, <4>1, <5>1
      <4>3. old = st.series[a].samples /\ a \in DOMAIN st.series
        BY <1>1, <2>2, <4>2
      <4> QED  BY <3>1, <4>1, <4>3 DEF HasGrown
    <3> QED  BY <1>2, <3>1, <3>2, <3>3
  <2> QED  BY <2>1, <2>2
<1> QED  BY <1>3, <1>4 DEF HasGrown

(* The whole request: every point finds the store consistent. *)
LEMMA RequestReceives ==
    ASSUME StoreInv(Current), ingest_seq \in Nat, NEW prepared \in Seq(PreparedPoint),
           NEW after, Ingests(after, prepared, Stamped(prepared))
    PROVE  /\ after[0] = AtStart(prepared)
           /\ \A i \in 0 .. Len(prepared) : StoreInv(after[i])
           /\ \A i \in 1 .. Len(prepared) : \E id, old :
                 Receives(after[i - 1], after[i], id, old, FullLabels(prepared[i]),
                          Stamped(prepared)[i])
<1> DEFINE n == Len(prepared)
           samples == Stamped(prepared)
           good == {i \in 0 .. n : StoreInv(after[i])}
<1>1. n \in Nat /\ \A i \in 1 .. n : prepared[i] \in PreparedPoint
  OBVIOUS
<1>2. after[0] = AtStart(prepared)
      /\ \A i \in 1 .. n : after[i] = IngestSamples(after[i - 1], prepared[i], samples[i])
  BY IngestSteps
<1>3. \A i \in 1 .. n : samples[i] \in Seq(Sample)
  BY StampsAreDrawn
<1> HIDE DEF n, samples
<1>4. StoreInv(AtStart(prepared))
  <2>1. StoreTyped(AtStart(prepared)) /\ StoreIdentified(AtStart(prepared)) /\ StoreCounted(AtStart(prepared))
    BY DEF StoreInv, StoreTyped, StoreIdentified, StoreCounted, AtStart, Current
  <2>2. StoreIndexed(AtStart(prepared))
    BY DEF StoreInv, StoreIndexed, AtStart, Current, InternerCovers
  <2> QED  BY <2>1, <2>2 DEF StoreInv
<1>5. 0 \in good
  <2>1. 0 \in 0 .. n
    BY <1>1
  <2> QED  BY <1>2, <1>4, <2>1
<1>6. \A i \in 0 .. n : i \in good /\ i < n => i + 1 \in good
  <2> SUFFICES ASSUME NEW i \in 0 .. n, i \in good, i < n PROVE i + 1 \in good
    OBVIOUS
  <2> DEFINE j == i + 1
  <2>1. j \in 1 .. n /\ j \in 0 .. n /\ j - 1 = i
    BY <1>1
  <2> HIDE DEF j
  <2>2. after[j] = IngestSamples(after[i], prepared[j], samples[j])
    BY <1>2, <2>1
  <2>3. StoreInv(after[j])
    BY <1>1, <1>3, <2>1, <2>2, IngestSamplesKeepsStore
  <2>4. j \in good
    BY <2>1, <2>3
  <2> QED  BY <2>4 DEF j
<1> HIDE DEF good
<1>7. \A i \in 0 .. n : i \in good
  BY <1>1, <1>5, <1>6, CountUp
<1>8. \A i \in 0 .. n : StoreInv(after[i])
  BY <1>7 DEF good
<1>9. ASSUME NEW j \in 1 .. n
      PROVE  \E id, old :
                Receives(after[j - 1], after[j], id, old, FullLabels(prepared[j]), samples[j])
  <2> DEFINE i == j - 1
  <2>1. i \in 0 .. n
    BY <1>1
  <2> HIDE DEF i
  <2>2. StoreInv(after[i]) /\ after[j] = IngestSamples(after[i], prepared[j], samples[j])
    BY <1>2, <1>8, <2>1 DEF i
  <2>3. \E id, old : Receives(after[i], after[j], id, old, FullLabels(prepared[j]), samples[j])
    BY <1>1, <1>3, <2>2, IngestSamplesReceives
  <2> QED  BY <2>3 DEF i
<1> QED  BY <1>2, <1>8, <1>9 DEF n, samples

LEMMA RequestGrowsStore ==
    ASSUME StoreInv(Current), ingest_seq \in Nat, NEW prepared \in Seq(PreparedPoint)
    PROVE  /\ StoreInv(IngestAll(prepared, Stamped(prepared)))
           /\ HasGrown(IngestAll(prepared, Stamped(prepared)), ingest_seq + StampsOf(prepared))
<1> DEFINE n == Len(prepared)
           samples == Stamped(prepared)
           bound == ingest_seq + StampsOf(prepared)
<1>1. n \in Nat
  OBVIOUS
<1>2. PICK after : Ingests(after, prepared, samples) /\ IngestAll(prepared, samples) = after[n]
  BY IngestAllIngests
<1>3. /\ after[0] = AtStart(prepared)
      /\ \A i \in 0 .. n : StoreInv(after[i])
      /\ \A i \in 1 .. n : \E id, old :
            Receives(after[i - 1], after[i], id, old, FullLabels(prepared[i]), samples[i])
  BY <1>2, RequestReceives
<1>4. \A i \in 1 .. n : \A k \in 1 .. Len(samples[i]) : /\ samples[i][k].seq >= ingest_seq
                                                        /\ samples[i][k].seq < bound
  BY StampsAreDrawn
<1> DEFINE good == {i \in 0 .. n : HasGrown(after[i], bound)}
<1> HIDE DEF n, samples, bound
<1>5. HasGrown(AtStart(prepared), bound)
  BY DEF HasGrown, AtStart
<1>6. 0 \in good
  <2>1. 0 \in 0 .. n
    BY <1>1
  <2> QED  BY <1>3, <1>5, <2>1
<1>7. \A i \in 0 .. n : i \in good /\ i < n => i + 1 \in good
  <2> SUFFICES ASSUME NEW i \in 0 .. n, i \in good, i < n PROVE i + 1 \in good
    OBVIOUS
  <2> DEFINE j == i + 1
  <2>1. j \in 1 .. n /\ j \in 0 .. n /\ j - 1 = i
    BY <1>1
  <2> HIDE DEF j
  <2>2. PICK id, old : Receives(after[i], after[j], id, old, FullLabels(prepared[j]), samples[j])
    BY <1>3, <2>1
  <2>3. HasGrown(after[j], bound)
    BY <1>4, <2>1, <2>2, PointKeepsHasGrown
  <2>4. j \in good
    BY <2>1, <2>3
  <2> QED  BY <2>4 DEF j
<1> HIDE DEF good
<1>8. n \in good /\ n \in 0 .. n
  <2>1. n \in 0 .. n
    BY <1>1
  <2> QED  BY <1>1, <1>6, <1>7, <2>1, CountUp
<1> QED  BY <1>2, <1>3, <1>8 DEF good, samples, bound, n

-----------------------------------------------------------------------------
(* What makes the indexes, the count and the abstract store inductive: the
   vectors are in the order of time, as expiry by a binary search needs,
   and no sample has a stamp that is still to be drawn.                    *)
StampsBelow ==
    \A id \in DOMAIN series : \A r \in 1 .. Len(series[id].samples) :
        series[id].samples[r].seq < ingest_seq

MetricInv == StoreInv(Current) /\ ingest_seq \in Nat /\ StampsBelow

LEMMA StoreParts ==
    ASSUME StoreInv(Current)
    PROVE  /\ next_series_id \in Nat
           /\ \A id \in DOMAIN series :
                 /\ id \in Nat /\ series[id] \in Series /\ TimeSorted(series[id].samples)
                 /\ series[id].labels \in SUBSET SeriesPairs
                 /\ series[id].samples \in Seq(Sample)
                 /\ Len(series[id].samples) \in Nat
                 /\ DOMAIN series[id].samples = 1 .. Len(series[id].samples)
           /\ LabelIndexExact(label_index, LabelsIn(series))
           /\ LabelValuesExact(label_values, LabelsIn(series))
           /\ InternerCovers(interner, LabelsIn(series))
           /\ DOMAIN series_ids = {series[id].labels : id \in DOMAIN series}
           /\ \A id \in DOMAIN series :
                 id < next_series_id /\ series_ids[series[id].labels] = id
           /\ total_samples = CountItems(SamplesIn(series))
           /\ IsFiniteSet(DOMAIN series) /\ IsFiniteSet(Slots(SamplesIn(series)))
           /\ CountItems(SamplesIn(series)) \in Nat
<1>1. /\ next_series_id \in Nat
      /\ \A id \in DOMAIN series :
            id \in Nat /\ series[id] \in Series /\ TimeSorted(series[id].samples)
  BY DEF StoreInv, StoreTyped, Current
<1>2. \A id \in DOMAIN series :
         /\ series[id].labels \in SUBSET SeriesPairs
         /\ series[id].samples \in Seq(Sample)
         /\ Len(series[id].samples) \in Nat
         /\ DOMAIN series[id].samples = 1 .. Len(series[id].samples)
  BY <1>1 DEF Series
<1>3. /\ LabelIndexExact(label_index, LabelsIn(series))
      /\ LabelValuesExact(label_values, LabelsIn(series))
      /\ InternerCovers(interner, LabelsIn(series))
  BY DEF StoreInv, StoreIndexed, Current
<1>4. /\ DOMAIN series_ids = {series[id].labels : id \in DOMAIN series}
      /\ \A id \in DOMAIN series : id < next_series_id /\ series_ids[series[id].labels] = id
      /\ total_samples = CountItems(SamplesIn(series))
  BY DEF StoreInv, StoreIdentified, StoreCounted, Current
<1>5. Current.series = series
  BY DEF Current
<1>6. /\ IsFiniteSet(DOMAIN Current.series) /\ IsFiniteSet(Slots(SamplesIn(Current.series)))
      /\ CountItems(SamplesIn(Current.series)) \in Nat
  BY SamplesFinite DEF StoreInv
<1> QED  BY <1>1, <1>2, <1>3, <1>4, <1>5, <1>6

(* The invariant from its parts, after a step. *)
LEMMA StoreFromParts ==
    ASSUME next_series_id' \in Nat,
           \A id \in DOMAIN series' :
              id \in Nat /\ series'[id] \in Series /\ TimeSorted(series'[id].samples),
           LabelIndexExact(label_index', LabelsIn(series')),
           LabelValuesExact(label_values', LabelsIn(series')),
           InternerCovers(interner', LabelsIn(series')),
           DOMAIN series_ids' = {series'[id].labels : id \in DOMAIN series'},
           \A id \in DOMAIN series' :
              id < next_series_id' /\ series_ids'[series'[id].labels] = id,
           total_samples' = CountItems(SamplesIn(series'))
    PROVE  StoreInv(Current)'
<1>1. StoreTyped(Current)'
  BY DEF StoreTyped, Current
<1>2. StoreIndexed(Current)'
  BY DEF StoreIndexed, Current
<1>3. StoreIdentified(Current)'
  BY DEF StoreIdentified, Current
<1>4. StoreCounted(Current)'
  BY DEF StoreCounted, Current
<1> QED  BY <1>1, <1>2, <1>3, <1>4 DEF StoreInv

LEMMA MetricInvInit == Init => MetricInv
<1> SUFFICES ASSUME Init PROVE MetricInv
  OBVIOUS
<1>1. /\ DOMAIN series = {} /\ DOMAIN series_ids = {} /\ next_series_id = 0
      /\ total_samples = 0 /\ ingest_seq = 0
      /\ DOMAIN label_index = {} /\ DOMAIN label_values = {}
  BY DEF Init, NoEntries
<1>2. AllPairs(LabelsIn(series)) = {}
  BY <1>1 DEF LabelsIn, AllPairs
<1>3. LabelIndexExact(label_index, LabelsIn(series))
  BY <1>2 DEF LabelIndexExact, Init, NoEntries
<1>4. LabelValuesExact(label_values, LabelsIn(series))
  <2>1. LabelNames(AllPairs(LabelsIn(series))) = {}
    BY <1>2 DEF LabelNames
  <2> QED  BY <2>1 DEF LabelValuesExact, Init, NoEntries
<1>5. InternerCovers(interner, LabelsIn(series))
  BY <1>2 DEF InternerCovers
<1>6. CountItems(SamplesIn(series)) = 0
  <2>1. Slots(SamplesIn(series)) = {}
    BY <1>1 DEF Slots, SamplesIn
  <2> QED  BY <2>1, FS_EmptySet DEF CountItems
<1>7. StoreTyped(Current) /\ StoreIndexed(Current) /\ StoreIdentified(Current) /\ StoreCounted(Current)
  BY <1>1, <1>3, <1>4, <1>5, <1>6 DEF StoreTyped, StoreIndexed, StoreIdentified, StoreCounted, Current
<1> QED  BY <1>1, <1>7 DEF MetricInv, StoreInv, StampsBelow

-----------------------------------------------------------------------------
(* A step that removes samples and series: `left` is what stays. *)
Leaves(left) ==
    /\ DOMAIN left \subseteq DOMAIN series
    /\ \A id \in DOMAIN left :
          /\ left[id] \in Seq(Sample) /\ TimeSorted(left[id])
          /\ Len(left[id]) <= Len(series[id].samples)
          /\ \A r \in 1 .. Len(left[id]) :
                \E i \in 1 .. Len(series[id].samples) : left[id][r] = series[id].samples[i]
          /\ series'[id].labels = series[id].labels /\ series'[id].samples = left[id]
          /\ series'[id] \in Series
    /\ DOMAIN series' = DOMAIN left
    /\ RemoveSeries(DOMAIN series \ DOMAIN left)
    /\ total_samples' = TotalWithout(left)
    /\ UNCHANGED <<interner, next_series_id, ingest_seq>>

LEMMA LeavesKeepsMetricInv ==
    ASSUME MetricInv, NEW left, Leaves(left)
    PROVE  MetricInv'
<1> DEFINE gone == DOMAIN series \ DOMAIN left
           before == LabelsIn(series)
           after == LabelsIn(series')
<1>1. /\ next_series_id \in Nat /\ ingest_seq \in Nat
      /\ \A id \in DOMAIN series :
            /\ id \in Nat /\ series[id].labels \in SUBSET SeriesPairs
            /\ Len(series[id].samples) \in Nat
            /\ DOMAIN series[id].samples = 1 .. Len(series[id].samples)
      /\ LabelIndexExact(label_index, before)
      /\ LabelValuesExact(label_values, before)
      /\ InternerCovers(interner, before)
      /\ DOMAIN series_ids = {series[id].labels : id \in DOMAIN series}
      /\ \A id \in DOMAIN series : id < next_series_id /\ series_ids[series[id].labels] = id
      /\ total_samples = CountItems(SamplesIn(series))
      /\ IsFiniteSet(Slots(SamplesIn(series)))
      /\ CountItems(SamplesIn(series)) \in Nat
  BY StoreParts DEF MetricInv
<1>2. /\ DOMAIN left \subseteq DOMAIN series /\ DOMAIN series' = DOMAIN left
      /\ \A id \in DOMAIN left : /\ series'[id].labels = series[id].labels
                                 /\ series'[id].samples = left[id] /\ series'[id] \in Series
                                 /\ left[id] \in Seq(Sample) /\ TimeSorted(left[id])
                                 /\ Len(left[id]) <= Len(series[id].samples)
      /\ series_ids' = [l \in DOMAIN series_ids \ {series[id].labels : id \in gone} |-> series_ids[l]]
      /\ label_index' = RemoveFromLabelIndex(label_index, LabelsOf, gone)
      /\ label_values' = RemoveFromLabelValues(label_index, label_values, LabelsOf, gone)
      /\ total_samples' = TotalWithout(left)
      /\ interner' = interner /\ next_series_id' = next_series_id /\ ingest_seq' = ingest_seq
  BY DEF Leaves, RemoveSeries
<1>3. LabelsOf = before /\ DOMAIN before = DOMAIN series
      /\ \A id \in DOMAIN series : before[id] = series[id].labels
  BY DEF LabelsOf, LabelsIn
<1>4. after = Without(before, gone)
  BY <1>2, <1>3 DEF LabelsIn, Without
<1>5. gone \subseteq DOMAIN before /\ \A id \in DOMAIN before : PairsOnly(before[id])
  BY <1>1, <1>3, SeriesLabelsArePairs
<1>6. \A id \in DOMAIN series' : id \in Nat /\ series'[id] \in Series /\ TimeSorted(series'[id].samples)
  BY <1>1, <1>2
<1>7. /\ DOMAIN series_ids' = {series'[id].labels : id \in DOMAIN series'}
      /\ \A id \in DOMAIN series' : id < next_series_id' /\ series_ids'[series'[id].labels] = id
  <2>1. \A i, j \in DOMAIN series : series[i].labels = series[j].labels => i = j
    BY <1>1
  <2>2. DOMAIN series_ids' = {series'[id].labels : id \in DOMAIN series'}
    BY <1>1, <1>2, <2>1
  <2> QED  BY <1>1, <1>2, <2>2
<1> HIDE DEF gone, before, after
<1>8. LabelIndexExact(label_index', after)
  BY <1>1, <1>2, <1>3, <1>4, <1>5, RemoveKeepsLabelIndexExact
<1>9. LabelValuesExact(label_values', after)
  BY <1>1, <1>2, <1>3, <1>4, <1>5, RemoveKeepsLabelValuesExact
<1>10. InternerCovers(interner', after)
  BY <1>1, <1>2, <1>4, <1>5 DEF InternerCovers, Without, AllPairs
<1>11. total_samples' = CountItems(SamplesIn(series'))
  <2> DEFINE held == SamplesIn(series)
             now == SamplesIn(series')
  <2>1. /\ DOMAIN held = DOMAIN series
        /\ \A id \in DOMAIN series : held[id] = series[id].samples
        /\ DOMAIN now = DOMAIN left /\ \A id \in DOMAIN left : now[id] = left[id]
        /\ SamplesOf = held
    BY <1>2 DEF SamplesIn, SamplesOf
  <2> HIDE DEF held, now
  <2>2. \A id \in DOMAIN left : DOMAIN left[id] \subseteq DOMAIN held[id]
    <3> SUFFICES ASSUME NEW id \in DOMAIN left PROVE DOMAIN left[id] \subseteq DOMAIN held[id]
      OBVIOUS
    <3>1. /\ left[id] \in Seq(Sample) /\ Len(left[id]) <= Len(series[id].samples)
          /\ Len(series[id].samples) \in Nat /\ DOMAIN held[id] = 1 .. Len(series[id].samples)
      BY <1>1, <1>2, <2>1
    <3> QED  BY <3>1
  <2>3. /\ CountItems(left) \in Nat /\ CountItems(left) <= CountItems(held)
        /\ CountItems(held) \in Nat
    BY <1>1, <1>2, <2>1, <2>2, FewerSlots DEF held
  <2>4. CountItems(now) = CountItems(left)
    BY <2>1, SameSlots
  <2>5. total_samples' = SaturatingSub(CountItems(held), CountItems(held) - CountItems(left))
    BY <1>1, <1>2, <2>1 DEF TotalWithout, held
  <2>6. total_samples' = CountItems(left)
    BY <2>3, <2>5 DEF SaturatingSub
  <2> QED  BY <2>4, <2>6 DEF now
<1>12. StoreInv(Current)'
  BY <1>1, <1>2, <1>6, <1>7, <1>8, <1>9, <1>10, <1>11, StoreFromParts DEF after
<1>13. StampsBelow'
  <2> SUFFICES ASSUME NEW id \in DOMAIN series', NEW r \in 1 .. Len(series'[id].samples)
               PROVE  series'[id].samples[r].seq < ingest_seq
    BY <1>2 DEF StampsBelow
  <2>1. id \in DOMAIN left /\ series'[id].samples = left[id] /\ id \in DOMAIN series
    BY <1>2
  <2>2. PICK i \in 1 .. Len(series[id].samples) : left[id][r] = series[id].samples[i]
    BY <2>1 DEF Leaves
  <2> QED  BY <2>1, <2>2 DEF MetricInv, StampsBelow
<1> QED  BY <1>1, <1>2, <1>12, <1>13 DEF MetricInv

-----------------------------------------------------------------------------
(* What evict_before leaves: of each series the samples not before the
   cutoff, and no series without a sample.                                 *)
Expires(cutoff, fresh) ==
    /\ DOMAIN fresh \subseteq DOMAIN series
    /\ \A id \in DOMAIN fresh :
          /\ fresh[id] \in Seq(Sample) /\ TimeSorted(fresh[id]) /\ Len(fresh[id]) > 0
          /\ Len(fresh[id]) <= Len(series[id].samples)
          /\ \A r \in 1 .. Len(fresh[id]) :
                /\ fresh[id][r].ts >= cutoff
                /\ \E i \in 1 .. Len(series[id].samples) : fresh[id][r] = series[id].samples[i]
    /\ \A id \in DOMAIN series : \A i \in 1 .. Len(series[id].samples) :
          series[id].samples[i].ts >= cutoff =>
             id \in DOMAIN fresh /\ \E r \in 1 .. Len(fresh[id]) : fresh[id][r] = series[id].samples[i]

(* Expiry of one vector. *)
LEMMA DrainExpires ==
    ASSUME NEW s \in Seq(Sample), TimeSorted(s), NEW cutoff \in Int,
           NEW left, left = DrainFront(s, CountBelow(s, cutoff))
    PROVE  /\ left \in Seq(Sample) /\ TimeSorted(left) /\ Len(left) <= Len(s) /\ Len(left) \in Nat
           /\ \A r \in 1 .. Len(left) :
                 left[r].ts >= cutoff /\ \E i \in 1 .. Len(s) : left[r] = s[i]
           /\ \A i \in 1 .. Len(s) :
                 s[i].ts >= cutoff => \E r \in 1 .. Len(left) : left[r] = s[i]
<1> DEFINE n == CountBelow(s, cutoff)
<1>1. n \in 0 .. Len(s) /\ \A i \in 1 .. Len(s) : s[i].ts < cutoff <=> i <= n
  BY SampleFields, CountBelowIsPrefix
<1> HIDE DEF n
<1>2. left \in Seq(Sample) /\ IsTail(s, n, left)
  BY <1>1, DrainFrontIsTail DEF n
<1>3. /\ Len(s) \in Nat /\ Len(left) \in Nat /\ n \in Nat /\ Len(left) = Len(s) - n
      /\ \A r \in 1 .. Len(left) : r + n \in 1 .. Len(s) /\ left[r] = s[r + n]
  BY <1>2 DEF IsTail
<1>4. \A i \in 1 .. Len(s) : s[i].ts \in Int
  BY SampleFields
<1>5. ASSUME NEW r \in 1 .. Len(left)
      PROVE  left[r].ts >= cutoff /\ \E i \in 1 .. Len(s) : left[r] = s[i]
  <2> DEFINE i == r + n
  <2>1. i \in 1 .. Len(s) /\ left[r] = s[i] /\ ~ (i <= n)
    BY <1>3
  <2> HIDE DEF i
  <2> QED  BY <1>1, <1>4, <2>1
<1>6. ASSUME NEW i \in 1 .. Len(s), s[i].ts >= cutoff
      PROVE  \E r \in 1 .. Len(left) : left[r] = s[i]
  <2> DEFINE r == i - n
  <2>1. ~ (i <= n)
    BY <1>1, <1>4, <1>6
  <2>2. r \in 1 .. Len(left) /\ r + n = i
    BY <1>3, <2>1
  <2> HIDE DEF r
  <2> QED  BY <1>3, <2>2
<1>7. TimeSorted(left)
  <2> SUFFICES ASSUME NEW r \in 1 .. Len(left), NEW q \in 1 .. Len(left), r < q
               PROVE  left[r].ts <= left[q].ts
    BY DEF TimeSorted
  <2> DEFINE a == r + n
             b == q + n
  <2>1. a \in 1 .. Len(s) /\ b \in 1 .. Len(s) /\ a < b /\ left[r] = s[a] /\ left[q] = s[b]
    BY <1>3
  <2>2. \A i, j \in 1 .. Len(s) : i < j => s[i].ts <= s[j].ts
    BY DEF TimeSorted
  <2> HIDE DEF a, b
  <2> QED  BY <2>1, <2>2
<1>8. left \in Seq(Sample) /\ Len(left) <= Len(s) /\ Len(left) \in Nat
  BY <1>2, <1>3
<1>9. \A r \in 1 .. Len(left) : left[r].ts >= cutoff /\ \E i \in 1 .. Len(s) : left[r] = s[i]
  BY <1>5
<1>10. \A i \in 1 .. Len(s) : s[i].ts >= cutoff => \E r \in 1 .. Len(left) : left[r] = s[i]
  BY <1>6
<1> QED  BY <1>7, <1>8, <1>9, <1>10

LEMMA EvictBeforeExpires ==
    ASSUME MetricInv, NEW cutoff \in Cutoffs, NEW fresh, fresh = EvictBefore(cutoff)
    PROVE  Expires(cutoff, fresh)
<1> DEFINE s(id) == series[id].samples
           live(id) == DrainFront(s(id), CountBelow(s(id), cutoff))
<1>1. cutoff \in Int
  BY MetricConstants
<1>2. \A id \in DOMAIN series : s(id) \in Seq(Sample) /\ TimeSorted(s(id))
  BY StoreParts DEF MetricInv
<1>3. fresh = [id \in {i \in DOMAIN series : live(i) # << >>} |-> live(id)]
  <2> DEFINE f == [id \in DOMAIN series |-> live(id)]
  <2>1. fresh = [id \in {i \in DOMAIN series : f[i] # << >>} |-> f[id]]
    BY DEF EvictBefore
  <2> HIDE DEF live
  <2> QED  BY <2>1
<1>4. ASSUME NEW id \in DOMAIN series
      PROVE  /\ live(id) \in Seq(Sample) /\ TimeSorted(live(id))
             /\ Len(live(id)) <= Len(s(id)) /\ Len(live(id)) \in Nat
             /\ \A r \in 1 .. Len(live(id)) :
                   live(id)[r].ts >= cutoff /\ \E i \in 1 .. Len(s(id)) : live(id)[r] = s(id)[i]
             /\ \A i \in 1 .. Len(s(id)) :
                   s(id)[i].ts >= cutoff => \E r \in 1 .. Len(live(id)) : live(id)[r] = s(id)[i]
  <2> DEFINE t == s(id)
             left == live(id)
  <2>1. t \in Seq(Sample) /\ TimeSorted(t) /\ left = DrainFront(t, CountBelow(t, cutoff))
    BY <1>2
  <2> HIDE DEF t, left
  <2>2. /\ left \in Seq(Sample) /\ TimeSorted(left) /\ Len(left) <= Len(t) /\ Len(left) \in Nat
        /\ \A r \in 1 .. Len(left) :
              left[r].ts >= cutoff /\ \E i \in 1 .. Len(t) : left[r] = t[i]
        /\ \A i \in 1 .. Len(t) :
              t[i].ts >= cutoff => \E r \in 1 .. Len(left) : left[r] = t[i]
    BY <1>1, <2>1, DrainExpires
  <2> QED  BY <2>2 DEF t, left
<1> HIDE DEF live
<1>5. /\ DOMAIN fresh = {i \in DOMAIN series : live(i) # << >>}
      /\ \A id \in DOMAIN fresh : fresh[id] = live(id)
  BY <1>3
<1>6. \A id \in DOMAIN series : live(id) # << >> <=> Len(live(id)) > 0
  <2> SUFFICES ASSUME NEW id \in DOMAIN series PROVE live(id) # << >> <=> Len(live(id)) > 0
    OBVIOUS
  <2>1. live(id) \in Seq(Sample)
    BY <1>4
  <2> QED  BY <2>1
<1>7. ASSUME NEW id \in DOMAIN fresh
      PROVE  /\ fresh[id] \in Seq(Sample) /\ TimeSorted(fresh[id]) /\ Len(fresh[id]) > 0
             /\ Len(fresh[id]) <= Len(s(id))
             /\ \A r \in 1 .. Len(fresh[id]) :
                   /\ fresh[id][r].ts >= cutoff
                   /\ \E i \in 1 .. Len(s(id)) : fresh[id][r] = s(id)[i]
  <2>1. id \in DOMAIN series /\ fresh[id] = live(id) /\ Len(live(id)) > 0
    BY <1>5, <1>6
  <2> QED  BY <1>4, <2>1
<1>8. ASSUME NEW id \in DOMAIN series, NEW i \in 1 .. Len(s(id)), s(id)[i].ts >= cutoff
      PROVE  id \in DOMAIN fresh /\ \E r \in 1 .. Len(fresh[id]) : fresh[id][r] = s(id)[i]
  <2>1. PICK r \in 1 .. Len(live(id)) : live(id)[r] = s(id)[i]
    BY <1>4, <1>8
  <2>2. Len(live(id)) > 0
    BY <1>4, <2>1
  <2>3. id \in DOMAIN fresh /\ fresh[id] = live(id)
    BY <1>5, <1>6, <2>2
  <2> QED  BY <2>1, <2>3
<1> QED  BY <1>5, <1>7, <1>8 DEF Expires

(* An eviction tick: what did not expire and comes late enough in the order
   of eviction stays.                                                      *)
Evicts(cutoff, fresh, pos, kept) ==
    /\ Expires(cutoff, fresh)
    /\ pos \in Bijection(DOMAIN fresh, 1 .. Cardinality(DOMAIN fresh))
    /\ DOMAIN kept = {i \in DOMAIN fresh : pos[i] > ToRemove(Cardinality(DOMAIN fresh))}
    /\ \A id \in DOMAIN kept : kept[id] = fresh[id]
    /\ Leaves(kept)

LEMMA RunEvictionEvicts ==
    ASSUME MetricInv, NEW cutoff \in Cutoffs, RunEviction(cutoff)
    PROVE  \E fresh, pos, kept : Evicts(cutoff, fresh, pos, kept)
<1> DEFINE fresh == EvictBefore(cutoff)
<1>1. PICK pos \in EvictionOrders(fresh) :
          LET kept == EvictToMax(fresh, pos)
          IN  /\ series' = [id \in DOMAIN kept |->
                               [labels |-> series[id].labels, samples |-> kept[id]]]
              /\ RemoveSeries(DOMAIN series \ DOMAIN kept)
              /\ total_samples' = TotalWithout(kept)
              /\ UNCHANGED <<interner, next_series_id, ingest_seq>>
  BY DEF RunEviction
<1> DEFINE kept == EvictToMax(fresh, pos)
<1>2. Expires(cutoff, fresh)
  BY EvictBeforeExpires
<1>3. pos \in Bijection(DOMAIN fresh, 1 .. Cardinality(DOMAIN fresh))
  BY DEF EvictionOrders
<1> HIDE DEF fresh
<1>4. /\ DOMAIN kept = {i \in DOMAIN fresh : pos[i] > ToRemove(Cardinality(DOMAIN fresh))}
      /\ \A id \in DOMAIN kept : kept[id] = fresh[id]
  BY DEF EvictToMax
<1>5. /\ series' = [id \in DOMAIN kept |-> [labels |-> series[id].labels, samples |-> kept[id]]]
      /\ RemoveSeries(DOMAIN series \ DOMAIN kept)
      /\ total_samples' = TotalWithout(kept)
      /\ UNCHANGED <<interner, next_series_id, ingest_seq>>
  BY <1>1
<1> HIDE DEF kept
<1>6. DOMAIN kept \subseteq DOMAIN series /\ DOMAIN series' = DOMAIN kept
  BY <1>2, <1>4, <1>5 DEF Expires
<1>7. ASSUME NEW id \in DOMAIN kept
      PROVE  /\ kept[id] \in Seq(Sample) /\ TimeSorted(kept[id])
             /\ Len(kept[id]) <= Len(series[id].samples)
             /\ \A r \in 1 .. Len(kept[id]) :
                   \E i \in 1 .. Len(series[id].samples) : kept[id][r] = series[id].samples[i]
             /\ series'[id].labels = series[id].labels /\ series'[id].samples = kept[id]
             /\ series'[id] \in Series
  <2>1. id \in DOMAIN fresh /\ kept[id] = fresh[id] /\ id \in DOMAIN series
    BY <1>4, <1>6
  <2>2. series'[id] = [labels |-> series[id].labels, samples |-> kept[id]]
    BY <1>5
  <2>3. series[id].labels \in SUBSET SeriesPairs
    BY <2>1, StoreParts DEF MetricInv
  <2>4. kept[id] \in Seq(Sample)
    BY <1>2, <2>1 DEF Expires
  <2>5. series'[id] \in Series
    BY <2>2, <2>3, <2>4 DEF Series
  <2> QED  BY <1>2, <2>1, <2>2, <2>5 DEF Expires
<1>8. Leaves(kept)
  BY <1>5, <1>6, <1>7 DEF Leaves
<1>9. Evicts(cutoff, fresh, pos, kept)
  BY <1>2, <1>3, <1>4, <1>8 DEF Evicts
<1> QED  BY <1>9

LEMMA RunEvictionKeepsMetricInv ==
    ASSUME MetricInv, NEW cutoff \in Cutoffs, RunEviction(cutoff)
    PROVE  MetricInv'
<1>1. PICK fresh, pos, kept : Evicts(cutoff, fresh, pos, kept)
  BY RunEvictionEvicts
<1> QED  BY <1>1, LeavesKeepsMetricInv DEF Evicts

(* A reset takes the series that the index lists under the service. *)
ServiceGone(service) == label_index[<<"service", service>>] \cap DOMAIN series

LEMMA ClearServiceLeaves ==
    ASSUME MetricInv, NEW service, ClearService(service)
    PROVE  /\ Leaves([id \in DOMAIN series \ ServiceGone(service) |-> series[id].samples])
           /\ \A id \in DOMAIN series :
                 id \in ServiceGone(service) <=> <<"service", service>> \in series[id].labels
<1> DEFINE gone == ServiceGone(service)
           left == [id \in DOMAIN series \ gone |-> series[id].samples]
<1>1. /\ <<"service", service>> \in DOMAIN label_index
      /\ series' = [id \in DOMAIN series \ gone |-> series[id]]
      /\ total_samples' = TotalWithout(left)
      /\ RemoveSeries(gone)
      /\ UNCHANGED <<interner, next_series_id, ingest_seq>>
  BY DEF ClearService, ServiceGone
<1>2. /\ \A id \in DOMAIN series :
            /\ series[id] \in Series /\ TimeSorted(series[id].samples)
            /\ series[id].samples \in Seq(Sample) /\ Len(series[id].samples) \in Nat
      /\ LabelIndexExact(label_index, LabelsIn(series))
  BY StoreParts DEF MetricInv
<1>3. \A id \in DOMAIN series : id \in gone <=> <<"service", service>> \in series[id].labels
  BY <1>1, <1>2 DEF LabelIndexExact, LabelsIn, ServiceGone
<1>4. gone = DOMAIN series \ DOMAIN left /\ DOMAIN left = DOMAIN series \ gone
  BY DEF ServiceGone
<1> HIDE DEF gone
<1>5. DOMAIN left \subseteq DOMAIN series /\ DOMAIN series' = DOMAIN left
  BY <1>1
<1>6. \A id \in DOMAIN left : left[id] = series[id].samples /\ series'[id] = series[id]
  BY <1>1
<1> HIDE DEF left
<1>7. RemoveSeries(DOMAIN series \ DOMAIN left)
  BY <1>1, <1>4, Zenon
<1>8. ASSUME NEW id \in DOMAIN left
      PROVE  /\ left[id] \in Seq(Sample) /\ TimeSorted(left[id])
             /\ Len(left[id]) <= Len(series[id].samples)
             /\ \A r \in 1 .. Len(left[id]) :
                   \E i \in 1 .. Len(series[id].samples) : left[id][r] = series[id].samples[i]
             /\ series'[id].labels = series[id].labels /\ series'[id].samples = left[id]
             /\ series'[id] \in Series
  <2>1. id \in DOMAIN series /\ left[id] = series[id].samples /\ series'[id] = series[id]
    BY <1>5, <1>6
  <2> QED  BY <1>2, <2>1
<1>9. Leaves(left)
  BY <1>1, <1>5, <1>7, <1>8 DEF Leaves
<1> QED  BY <1>3, <1>9 DEF left, gone

LEMMA ClearServiceKeepsMetricInv ==
    ASSUME MetricInv, NEW service, ClearService(service)
    PROVE  MetricInv'
BY ClearServiceLeaves, LeavesKeepsMetricInv

LEMMA ClearKeepsMetricInv == MetricInv /\ Clear => MetricInv'
<1> SUFFICES ASSUME MetricInv, Clear PROVE MetricInv'
  OBVIOUS
<1>1. /\ DOMAIN series' = {} /\ DOMAIN series_ids' = {} /\ next_series_id' = 0
      /\ total_samples' = 0 /\ ingest_seq' = ingest_seq /\ label_index' = NoEntries
      /\ label_values' = NoEntries /\ interner' = {} /\ series' = NoEntries
  BY DEF Clear, NoEntries
<1>2. AllPairs(LabelsIn(series')) = {}
  BY <1>1 DEF LabelsIn, AllPairs
<1>3. LabelIndexExact(label_index', LabelsIn(series'))
  BY <1>1, <1>2 DEF LabelIndexExact, NoEntries
<1>4. LabelValuesExact(label_values', LabelsIn(series'))
  <2>1. LabelNames(AllPairs(LabelsIn(series'))) = {}
    BY <1>2 DEF LabelNames
  <2> QED  BY <1>1, <2>1 DEF LabelValuesExact, NoEntries
<1>5. InternerCovers(interner', LabelsIn(series'))
  BY <1>2 DEF InternerCovers
<1>6. CountItems(SamplesIn(series')) = 0
  <2>1. Slots(SamplesIn(series')) = {}
    BY <1>1 DEF Slots, SamplesIn
  <2> QED  BY <2>1, FS_EmptySet DEF CountItems
<1>7. StoreInv(Current)'
  BY <1>1, <1>3, <1>4, <1>5, <1>6, StoreFromParts
<1> QED  BY <1>1, <1>7 DEF MetricInv, StampsBelow

LEMMA SameSeriesKeepsMetricInv ==
    ASSUME MetricInv,
           UNCHANGED <<series, label_index, label_values, total_samples, series_ids,
                       next_series_id>>,
           interner \subseteq interner', ingest_seq' \in Nat, ingest_seq <= ingest_seq'
    PROVE  MetricInv'
<1>1. StoreInv(Current)'
  <2>1. StoreTyped(Current)' /\ StoreIdentified(Current)' /\ StoreCounted(Current)'
    BY DEF MetricInv, StoreInv, StoreTyped, StoreIdentified, StoreCounted, Current
  <2>2. StoreIndexed(Current)'
    BY DEF MetricInv, StoreInv, StoreIndexed, InternerCovers, Current
  <2> QED  BY <2>1, <2>2 DEF StoreInv
<1>2. StampsBelow'
  <2> SUFFICES ASSUME NEW id \in DOMAIN series, NEW r \in 1 .. Len(series[id].samples)
               PROVE  series[id].samples[r].seq < ingest_seq'
    BY DEF StampsBelow
  <2>1. series[id].samples[r].seq < ingest_seq /\ ingest_seq \in Nat
    BY DEF MetricInv, StampsBelow
  <2>2. series[id].samples[r] \in Sample
    <3>1. series[id].samples \in Seq(Sample) /\ r \in DOMAIN series[id].samples
      BY StoreParts DEF MetricInv
    <3> QED  BY <3>1
  <2>3. series[id].samples[r].seq \in Nat
    BY <2>2, SampleFields
  <2> QED  BY <2>1, <2>3
<1> QED  BY <1>1, <1>2 DEF MetricInv

(* rebuild_series_ids gives the store the identities it had. *)
LEMMA HighestIdIsHighest ==
    ASSUME NEW ids \in SUBSET Nat, IsFiniteSet(ids), ids # {}
    PROVE  HighestId(ids) \in ids /\ \A id \in ids : id <= HighestId(ids)
<1> DEFINE f == [x \in ids |-> x]
<1>1. \A x \in ids : f[x] \in Int /\ f[x] = x
  OBVIOUS
<1> HIDE DEF f
<1>2. \E x \in ids : \A y \in ids : f[y] <= f[x]
  BY <1>1, FirstAndLast
<1>3. \E x \in ids : \A y \in ids : y <= x
  BY <1>1, <1>2
<1> QED  BY <1>3 DEF HighestId

LEMMA RestoreKeepsMetricInv == MetricInv /\ RestoreFromSnapshot => MetricInv'
<1> SUFFICES ASSUME MetricInv, RestoreFromSnapshot PROVE MetricInv'
  OBVIOUS
<1> DEFINE ids == DOMAIN series
<1>1. /\ ids \in SUBSET Nat /\ IsFiniteSet(ids)
      /\ \A id \in ids : series[id] \in Series /\ TimeSorted(series[id].samples)
      /\ LabelIndexExact(label_index, LabelsIn(series))
      /\ LabelValuesExact(label_values, LabelsIn(series))
      /\ InternerCovers(interner, LabelsIn(series))
      /\ \A id \in ids : series_ids[series[id].labels] = id
      /\ total_samples = CountItems(SamplesIn(series))
  BY StoreParts DEF MetricInv
<1>2. /\ series_ids' = [l \in {series[id].labels : id \in ids} |->
                          HighestId({id \in ids : series[id].labels = l})]
      /\ next_series_id' = NextFreeId(ids)
      /\ UNCHANGED <<series, label_index, label_values, interner, total_samples, ingest_seq>>
  BY DEF RestoreFromSnapshot
<1>3. NextFreeId(ids) \in Nat /\ \A id \in ids : id < NextFreeId(ids)
  <2>1. CASE ids = {}
    BY <2>1 DEF NextFreeId
  <2>2. CASE ids # {}
    <3>1. HighestId(ids) \in ids /\ \A id \in ids : id <= HighestId(ids)
      BY <1>1, <2>2, HighestIdIsHighest
    <3> QED  BY <1>1, <2>2, <3>1 DEF NextFreeId
  <2> QED  BY <2>1, <2>2
<1>4. \A id \in ids : series_ids'[series[id].labels] = id
  <2> SUFFICES ASSUME NEW id \in ids PROVE series_ids'[series[id].labels] = id
    OBVIOUS
  <2>1. {i \in ids : series[i].labels = series[id].labels} = {id}
    BY <1>1
  <2>2. HighestId({id}) = id
    BY <1>1 DEF HighestId
  <2>3. series_ids'[series[id].labels] = HighestId({i \in ids : series[i].labels = series[id].labels})
    BY <1>2
  <2> QED  BY <2>1, <2>2, <2>3
<1>5. DOMAIN series_ids' = {series[id].labels : id \in ids}
  BY <1>2
<1> HIDE DEF ids
<1>6. StoreInv(Current)'
  BY <1>1, <1>2, <1>3, <1>4, <1>5, StoreFromParts DEF ids
<1>7. StampsBelow' /\ ingest_seq' \in Nat
  BY <1>2 DEF MetricInv, StampsBelow
<1> QED  BY <1>6, <1>7 DEF MetricInv

(* An accepted request. *)
LEMMA AcceptInstalls ==
    ASSUME NEW prepared, NEW meta, Accept(prepared, meta),
           NEW st, st = IngestAll(prepared, Stamped(prepared))
    PROVE  /\ series' = st.series /\ label_index' = st.index /\ label_values' = st.values
           /\ interner' = st.interner \cup {meta[i].name : i \in DOMAIN meta}
           /\ total_samples' = st.total /\ series_ids' = st.ids /\ next_series_id' = st.next
BY DEF Accept

LEMMA AcceptKeepsMetricInv ==
    ASSUME MetricInv, NEW prepared \in Seq(PreparedPoint), NEW meta, Accept(prepared, meta),
           ingest_seq' = ingest_seq + StampsOf(prepared)
    PROVE  MetricInv' /\ HasGrown([series |-> series'], ingest_seq')
<1> DEFINE st == IngestAll(prepared, Stamped(prepared))
<1>1. StoreInv(st) /\ HasGrown(st, ingest_seq')
  BY RequestGrowsStore DEF MetricInv
<1>2. /\ series' = st.series /\ label_index' = st.index /\ label_values' = st.values
      /\ interner' = st.interner \cup {meta[i].name : i \in DOMAIN meta}
      /\ total_samples' = st.total /\ series_ids' = st.ids /\ next_series_id' = st.next
  BY AcceptInstalls
<1>3. ingest_seq \in Nat /\ ingest_seq' \in Nat /\ ingest_seq <= ingest_seq'
  <2>1. ingest_seq \in Nat /\ StampsOf(prepared) \in Nat
    BY StampsAreDrawn DEF MetricInv
  <2> QED  BY <2>1
<1> HIDE DEF st
<1>4. StoreInv(Current)'
  <2>1. StoreTyped(Current)' /\ StoreIdentified(Current)' /\ StoreCounted(Current)'
    BY <1>1, <1>2 DEF StoreInv, StoreTyped, StoreIdentified, StoreCounted, Current
  <2>2. StoreIndexed(Current)'
    BY <1>1, <1>2 DEF StoreInv, StoreIndexed, InternerCovers, Current
  <2> QED  BY <2>1, <2>2 DEF StoreInv
<1>5. HasGrown([series |-> series'], ingest_seq')
  BY <1>1, <1>2 DEF HasGrown
<1>6. StampsBelow'
  <2> SUFFICES ASSUME NEW id \in DOMAIN series', NEW r \in 1 .. Len(series'[id].samples)
               PROVE  series'[id].samples[r].seq < ingest_seq'
    BY DEF StampsBelow
  <2>1. CASE series'[id].samples[r].seq < ingest_seq'
    BY <2>1
  <2>2. CASE id \in DOMAIN series /\ \E i \in 1 .. Len(series[id].samples) :
                                        series'[id].samples[r] = series[id].samples[i]
    <3>1. PICK i \in 1 .. Len(series[id].samples) : series'[id].samples[r] = series[id].samples[i]
      BY <2>2
    <3>2. series[id].samples[i].seq < ingest_seq
      BY <2>2, <3>1 DEF MetricInv, StampsBelow
    <3>3. series[id].samples[i].seq \in Nat
      <4>1. series[id].samples \in Seq(Sample) /\ i \in DOMAIN series[id].samples
        BY <2>2, <3>1, StoreParts DEF MetricInv
      <4>2. series[id].samples[i] \in Sample
        BY <4>1
      <4> QED  BY <4>2, SampleFields
    <3> QED  BY <1>3, <3>1, <3>2, <3>3
  <2> QED  BY <1>5, <2>1, <2>2 DEF HasGrown
<1> QED  BY <1>3, <1>4, <1>5, <1>6 DEF MetricInv

LEMMA IngestKeepsMetricInv ==
    ASSUME MetricInv, NEW prepared \in Seq(PreparedPoint), NEW meta, Ingest(prepared, meta)
    PROVE  MetricInv'
<1>1. ingest_seq' = ingest_seq + StampsOf(prepared)
  BY DEF Ingest
<1>2. ingest_seq \in Nat /\ ingest_seq' \in Nat /\ ingest_seq <= ingest_seq'
  <2>1. ingest_seq \in Nat /\ StampsOf(prepared) \in Nat
    BY StampsAreDrawn DEF MetricInv
  <2> QED  BY <1>1, <2>1
<1>3. CASE RejectChecked(prepared)
  BY <1>2, <1>3, SameSeriesKeepsMetricInv DEF RejectChecked
<1>4. CASE RejectRegistering(prepared)
  <2>1. interner \subseteq interner'
    BY <1>4 DEF RejectRegistering
  <2> QED  BY <1>2, <1>4, <2>1, SameSeriesKeepsMetricInv DEF RejectRegistering
<1>5. CASE Accept(prepared, meta)
  BY <1>1, <1>5, AcceptKeepsMetricInv
<1> QED  BY <1>3, <1>4, <1>5 DEF Ingest

-----------------------------------------------------------------------------
(* Every reachable state of the metric store satisfies the invariant. *)
THEOREM MetricInvariant == Spec => []MetricInv
<1>1. Init => MetricInv
  BY MetricInvInit
<1>2. MetricInv /\ [Next]_vars => MetricInv'
  <2> SUFFICES ASSUME MetricInv, [Next]_vars PROVE MetricInv'
    OBVIOUS
  <2>1. CASE IngestMetrics \/ RemoteWrite
    BY <2>1, RequestsAreTyped, IngestKeepsMetricInv
  <2>2. CASE \E cutoff \in Cutoffs : RunEviction(cutoff)
    BY <2>2, RunEvictionKeepsMetricInv
  <2>3. CASE \E service \in Services : ClearService(service)
    BY <2>3, ClearServiceKeepsMetricInv
  <2>4. CASE Clear
    BY <2>4, ClearKeepsMetricInv
  <2>5. CASE RestoreFromSnapshot
    BY <2>5, RestoreKeepsMetricInv
  <2>6. CASE UNCHANGED vars
    <3>1. UNCHANGED <<series, label_index, label_values, total_samples, series_ids,
                      next_series_id, interner, ingest_seq>>
      BY <2>6 DEF vars
    <3>2. interner \subseteq interner' /\ ingest_seq' \in Nat /\ ingest_seq <= ingest_seq'
      BY <3>1 DEF MetricInv
    <3> QED  BY <3>1, <3>2, SameSeriesKeepsMetricInv
  <2> QED  BY <2>1, <2>2, <2>3, <2>4, <2>5, <2>6 DEF Next
<1> QED  BY <1>1, <1>2, PTL DEF Spec

(* label_index, label_values, series_ids and total_samples never disagree
   with the series, whatever was ingested, evicted, reset or restored.     *)
THEOREM SeriesIndexesAlwaysExact == Spec => []SeriesIndexesExact
<1>1. MetricInv => SeriesIndexesExact
  <2> SUFFICES ASSUME MetricInv PROVE SeriesIndexesExact
    OBVIOUS
  <2>1. LabelsOf = LabelsIn(series) /\ SamplesOf = SamplesIn(series)
    BY DEF LabelsOf, SamplesOf, LabelsIn, SamplesIn
  <2> QED  BY <2>1, StoreParts DEF MetricInv, SeriesIndexesExact
<1> QED  BY <1>1, MetricInvariant, PTL

-----------------------------------------------------------------------------
(* The abstract item that stands for a sample of a series. *)
ItemOf(x, labels) ==
    [seq |-> x.seq, ts |-> x.ts, group |-> labels, services |-> ServicesOf(labels)]

LEMMA HeldSamplesAre ==
    ASSUME StoreInv(Current), NEW h
    PROVE  h \in HeldSamples <=>
              \E id \in DOMAIN series : \E i \in 1 .. Len(series[id].samples) :
                  h = ItemOf(series[id].samples[i], series[id].labels)
<1>1. h \in HeldSamples <=>
         \E id \in DOMAIN series : \E i \in DOMAIN series[id].samples :
             h = ItemOf(series[id].samples[i], series[id].labels)
  BY DEF HeldSamples, ItemOf
<1>2. \A id \in DOMAIN series : DOMAIN series[id].samples = 1 .. Len(series[id].samples)
  BY StoreParts
<1> QED  BY <1>1, <1>2

LEMMA HeldSamplesAreNext ==
    ASSUME StoreInv(Current)', NEW h
    PROVE  h \in HeldSamples' <=>
              \E id \in DOMAIN series' : \E i \in 1 .. Len(series'[id].samples) :
                  h = ItemOf(series'[id].samples[i], series'[id].labels)
<1>1. h \in HeldSamples' <=>
         \E id \in DOMAIN series' : \E i \in DOMAIN series'[id].samples :
             h = ItemOf(series'[id].samples[i], series'[id].labels)
  BY DEF HeldSamples, ItemOf
<1>2. \A id \in DOMAIN series' : DOMAIN series'[id].samples = 1 .. Len(series'[id].samples)
  <2>1. StoreTyped(Current') /\ Current'.series = series'
    BY DEF StoreInv, Current, StoreTyped
  <2> QED  BY <2>1, SeriesFields
<1> QED  BY <1>1, <1>2

LEMMA SampleAt ==
    ASSUME StoreInv(Current), NEW id \in DOMAIN series, NEW i \in 1 .. Len(series[id].samples)
    PROVE  series[id].samples[i].ts \in Int /\ series[id].samples[i].seq \in Nat
<1>1. series[id].samples \in Seq(Sample)
  BY StoreParts
<1>2. series[id].samples[i] \in Sample
  BY <1>1
<1> QED  BY <1>2, SampleFields

LEMMA SampleAtNext ==
    ASSUME StoreInv(Current)', NEW id \in DOMAIN series', NEW i \in 1 .. Len(series'[id].samples)
    PROVE  series'[id].samples[i].seq \in Nat
<1>1. StoreTyped(Current') /\ Current'.series = series'
  BY DEF StoreInv, Current, StoreTyped
<1>2. series'[id].samples \in Seq(Sample)
  BY <1>1, SeriesFields
<1>3. series'[id].samples[i] \in Sample
  BY <1>2
<1> QED  BY <1>3, SampleFields

LEMMA GrowthAccepts ==
    ASSUME MetricInv, MetricInv', HasGrown([series |-> series'], ingest_seq')
    PROVE  Store!Accept
<1>1. StoreInv(Current) /\ StoreInv(Current)' /\ ingest_seq \in Nat
  BY DEF MetricInv
<1>2. /\ \A id \in DOMAIN series :
            /\ id \in DOMAIN series' /\ series'[id].labels = series[id].labels
            /\ \A i \in 1 .. Len(series[id].samples) :
                  \E r \in 1 .. Len(series'[id].samples) :
                      series'[id].samples[r] = series[id].samples[i]
      /\ \A id \in DOMAIN series' : \A r \in 1 .. Len(series'[id].samples) :
            \/ /\ id \in DOMAIN series
               /\ \E i \in 1 .. Len(series[id].samples) :
                     series'[id].samples[r] = series[id].samples[i]
            \/ series'[id].samples[r].seq >= ingest_seq
  BY DEF HasGrown
<1>3. HeldSamples \subseteq HeldSamples'
  <2> SUFFICES ASSUME NEW h \in HeldSamples PROVE h \in HeldSamples'
    OBVIOUS
  <2>1. PICK id \in DOMAIN series : \E i \in 1 .. Len(series[id].samples) :
                 h = ItemOf(series[id].samples[i], series[id].labels)
    BY <1>1, HeldSamplesAre
  <2>2. PICK i \in 1 .. Len(series[id].samples) :
                 h = ItemOf(series[id].samples[i], series[id].labels)
    BY <2>1
  <2>3. PICK r \in 1 .. Len(series'[id].samples) : series'[id].samples[r] = series[id].samples[i]
    BY <1>2
  <2>4. id \in DOMAIN series' /\ h = ItemOf(series'[id].samples[r], series'[id].labels)
    BY <1>2, <2>2, <2>3
  <2> QED  BY <1>1, <2>4, HeldSamplesAreNext
<1>4. ASSUME NEW h \in HeldSamples', h \notin HeldSamples
      PROVE  h.seq >= ingest_seq /\ h.seq \in Nat
  <2>1. PICK id \in DOMAIN series' : \E r \in 1 .. Len(series'[id].samples) :
                 h = ItemOf(series'[id].samples[r], series'[id].labels)
    BY <1>1, HeldSamplesAreNext
  <2>2. PICK r \in 1 .. Len(series'[id].samples) :
                 h = ItemOf(series'[id].samples[r], series'[id].labels)
    BY <2>1
  <2>3. h.seq = series'[id].samples[r].seq /\ h.seq \in Nat
    BY <1>1, <2>2, SampleAtNext DEF ItemOf
  <2>4. CASE series'[id].samples[r].seq >= ingest_seq
    BY <2>3, <2>4
  <2>5. CASE id \in DOMAIN series /\ \E i \in 1 .. Len(series[id].samples) :
                                        series'[id].samples[r] = series[id].samples[i]
    <3>1. series'[id].labels = series[id].labels
      BY <1>2, <2>5
    <3>2. h \in HeldSamples
      BY <1>1, <2>2, <2>5, <3>1, HeldSamplesAre
    <3> QED  BY <1>4, <3>2
  <2> QED  BY <1>2, <2>4, <2>5
<1>5. ASSUME NEW h \in HeldSamples
      PROVE  h.seq < ingest_seq /\ h.seq \in Nat
  <2>1. PICK id \in DOMAIN series : \E i \in 1 .. Len(series[id].samples) :
                 h = ItemOf(series[id].samples[i], series[id].labels)
    BY <1>1, HeldSamplesAre
  <2>2. PICK i \in 1 .. Len(series[id].samples) :
                 h = ItemOf(series[id].samples[i], series[id].labels)
    BY <2>1
  <2>3. h.seq = series[id].samples[i].seq
    BY <2>2 DEF ItemOf
  <2> QED  BY <1>1, <2>3, SampleAt DEF MetricInv, StampsBelow
<1>6. \A new \in HeldSamples' \ HeldSamples, old \in HeldSamples : new.seq # old.seq
  BY <1>1, <1>4, <1>5
<1> QED  BY <1>3, <1>6 DEF Store!Accept

LEMMA SameSeriesSameSamples ==
    ASSUME UNCHANGED series
    PROVE  UNCHANGED HeldSamples
BY DEF HeldSamples

LEMMA IngestAccepts ==
    ASSUME MetricInv, NEW prepared \in Seq(PreparedPoint), NEW meta, Ingest(prepared, meta)
    PROVE  Store!Accept \/ UNCHANGED HeldSamples
<1>1. CASE RejectChecked(prepared) \/ RejectRegistering(prepared)
  <2>1. UNCHANGED series
    BY <1>1 DEF RejectChecked, RejectRegistering
  <2> QED  BY <2>1, SameSeriesSameSamples
<1>2. CASE Accept(prepared, meta)
  <2>1. ingest_seq' = ingest_seq + StampsOf(prepared)
    BY DEF Ingest
  <2>2. MetricInv' /\ HasGrown([series |-> series'], ingest_seq')
    BY <1>2, <2>1, AcceptKeepsMetricInv
  <2> QED  BY <2>2, GrowthAccepts
<1> QED  BY <1>1, <1>2 DEF Ingest

LEMMA ClearServiceForgets ==
    ASSUME MetricInv, NEW service \in Services, ClearService(service)
    PROVE  Store!ForgetService(service)
<1>1. StoreInv(Current) /\ StoreInv(Current)'
  BY ClearServiceKeepsMetricInv DEF MetricInv
<1> DEFINE gone == ServiceGone(service)
<1>2. \A id \in DOMAIN series : id \in gone <=> <<"service", service>> \in series[id].labels
  BY ClearServiceLeaves
<1>3. series' = [id \in DOMAIN series \ gone |-> series[id]]
  BY DEF ClearService, ServiceGone
<1> HIDE DEF gone
<1>4. DOMAIN series' = DOMAIN series \ gone /\ \A id \in DOMAIN series' : series'[id] = series[id]
  BY <1>3
<1>5. \A id \in DOMAIN series :
         service \in ServicesOf(series[id].labels) <=> <<"service", service>> \in series[id].labels
  <2> SUFFICES ASSUME NEW id \in DOMAIN series
               PROVE  service \in ServicesOf(series[id].labels)
                         <=> <<"service", service>> \in series[id].labels
    OBVIOUS
  <2>1. series[id].labels \in SUBSET SeriesPairs
    BY <1>1, StoreParts
  <2>2. \A p \in series[id].labels : p = <<p[1], p[2]>>
    BY <2>1, SeriesLabelsArePairs DEF PairsOnly
  <2> QED  BY <2>2 DEF ServicesOf
<1>6. ASSUME NEW h PROVE h \in HeldSamples' <=> h \in HeldSamples /\ service \notin h.services
  <2>1. h \in HeldSamples' <=> \E id \in DOMAIN series \ gone : \E i \in 1 .. Len(series[id].samples) :
                                   h = ItemOf(series[id].samples[i], series[id].labels)
    BY <1>1, <1>4, HeldSamplesAreNext
  <2>2. \A id \in DOMAIN series : \A i : h = ItemOf(series[id].samples[i], series[id].labels)
            => (service \notin h.services <=> id \notin gone)
    BY <1>2, <1>5 DEF ItemOf
  <2>3. h \in HeldSamples <=> \E id \in DOMAIN series : \E i \in 1 .. Len(series[id].samples) :
                                  h = ItemOf(series[id].samples[i], series[id].labels)
    BY <1>1, HeldSamplesAre
  <2> QED  BY <2>1, <2>2, <2>3
<1> QED  BY <1>6 DEF Store!ForgetService

-----------------------------------------------------------------------------
(* `items` are the items of the vectors of `fresh` with the given ids. *)
ItemsOfSeries(items, fresh, ids) ==
    \A h : h \in items <=>
        \E id \in ids : \E r \in 1 .. Len(fresh[id]) : h = ItemOf(fresh[id][r], series[id].labels)

(* What is unexpired is what evict_before leaves. *)
LEMMA LiveItems ==
    ASSUME MetricInv, NEW cutoff \in Cutoffs, NEW fresh, Expires(cutoff, fresh)
    PROVE  ItemsOfSeries(Store!Unexpired(HeldSamples, cutoff), fresh, DOMAIN fresh)
<1> SUFFICES ASSUME NEW h
             PROVE  h \in HeldSamples /\ h.ts >= cutoff <=>
                       \E id \in DOMAIN fresh : \E r \in 1 .. Len(fresh[id]) :
                           h = ItemOf(fresh[id][r], series[id].labels)
  BY DEF ItemsOfSeries, Store!Unexpired
<1>1. StoreInv(Current)
  BY DEF MetricInv
<1>2. ASSUME h \in HeldSamples, h.ts >= cutoff
      PROVE  \E id \in DOMAIN fresh : \E r \in 1 .. Len(fresh[id]) :
                 h = ItemOf(fresh[id][r], series[id].labels)
  <2>1. PICK id \in DOMAIN series : \E i \in 1 .. Len(series[id].samples) :
                 h = ItemOf(series[id].samples[i], series[id].labels)
    BY <1>1, <1>2, HeldSamplesAre
  <2>2. PICK i \in 1 .. Len(series[id].samples) :
                 h = ItemOf(series[id].samples[i], series[id].labels)
    BY <2>1
  <2>3. series[id].samples[i].ts >= cutoff
    BY <1>2, <2>2 DEF ItemOf
  <2>4. id \in DOMAIN fresh /\ \E r \in 1 .. Len(fresh[id]) : fresh[id][r] = series[id].samples[i]
    BY <2>3 DEF Expires
  <2> QED  BY <2>2, <2>4
<1>3. ASSUME NEW id \in DOMAIN fresh, NEW r \in 1 .. Len(fresh[id]),
             h = ItemOf(fresh[id][r], series[id].labels)
      PROVE  h \in HeldSamples /\ h.ts >= cutoff
  <2>1. /\ id \in DOMAIN series /\ fresh[id][r].ts >= cutoff
        /\ \E i \in 1 .. Len(series[id].samples) : fresh[id][r] = series[id].samples[i]
    BY DEF Expires
  <2>2. h \in HeldSamples
    BY <1>1, <1>3, <2>1, HeldSamplesAre
  <2> QED  BY <1>3, <2>1, <2>2 DEF ItemOf
<1> QED  BY <1>2, <1>3

(* What is held after the tick are the vectors that were not evicted. *)
LEMMA KeptItems ==
    ASSUME MetricInv, NEW cutoff, NEW fresh, NEW pos, NEW kept, Evicts(cutoff, fresh, pos, kept)
    PROVE  ItemsOfSeries(HeldSamples', fresh, DOMAIN kept)
<1>1. StoreInv(Current)'
  BY LeavesKeepsMetricInv DEF Evicts, MetricInv
<1>2. /\ DOMAIN series' = DOMAIN kept
      /\ \A id \in DOMAIN kept : series'[id].labels = series[id].labels
                                 /\ series'[id].samples = fresh[id]
  BY DEF Evicts, Leaves
<1> QED  BY <1>1, <1>2, HeldSamplesAreNext DEF ItemsOfSeries

(* A series with a sample counts one. *)
LEMMA GroupCount ==
    ASSUME MetricInv, NEW cutoff, NEW fresh, Expires(cutoff, fresh),
           NEW ids \in SUBSET DOMAIN fresh, NEW items, ItemsOfSeries(items, fresh, ids)
    PROVE  IsFiniteSet(ids) /\ GroupsOf(items) = Cardinality(ids)
<1> DEFINE groups == {h.group : h \in items}
           labels == [id \in ids |-> series[id].labels]
<1>1. /\ IsFiniteSet(DOMAIN series)
      /\ \A id \in DOMAIN series : series_ids[series[id].labels] = id
  BY StoreParts DEF MetricInv
<1>2. ids \subseteq DOMAIN series /\ \A id \in ids : Len(fresh[id]) \in Nat /\ Len(fresh[id]) > 0
  BY DEF Expires
<1>3. IsFiniteSet(ids)
  BY <1>1, <1>2, FS_Subset
<1>4. \A h \in items : \E id \in ids : h.group = series[id].labels
  BY DEF ItemsOfSeries, ItemOf
<1>5. ASSUME NEW id \in ids PROVE series[id].labels \in groups
  <2>1. 1 \in 1 .. Len(fresh[id])
    BY <1>2
  <2>2. ItemOf(fresh[id][1], series[id].labels) \in items
    BY <2>1 DEF ItemsOfSeries
  <2>3. ItemOf(fresh[id][1], series[id].labels).group = series[id].labels
    BY DEF ItemOf
  <2> QED  BY <2>2, <2>3
<1>6. labels \in Bijection(ids, groups)
  <2>1. \A id \in ids : labels[id] \in groups
    BY <1>5
  <2>2. \A g \in groups : \E id \in ids : labels[id] = g
    BY <1>4
  <2>3. \A a, b \in ids : labels[a] = labels[b] => a = b
    BY <1>1, <1>2
  <2>4. labels = [id \in ids |-> labels[id]]
    OBVIOUS
  <2> HIDE DEF labels, groups
  <2> QED  BY <2>1, <2>2, <2>3, <2>4 DEF Bijection, Injection, IsInjective, Surjection
<1>7. ExistsBijection(ids, groups)
  BY <1>6 DEF ExistsBijection
<1> HIDE DEF groups
<1>8. Cardinality(groups) = Cardinality(ids)
  BY <1>3, <1>7, FS_Bijection
<1> QED  BY <1>3, <1>8 DEF groups, GroupsOf

(* evict_to_max leaves max_series series of those that were too many. *)
LEMMA KeptCount ==
    ASSUME MetricInv, NEW cutoff, NEW fresh, NEW pos, NEW kept, Evicts(cutoff, fresh, pos, kept),
           NEW n, n = Cardinality(DOMAIN fresh)
    PROVE  /\ n \in Nat
           /\ Cardinality(DOMAIN kept) = IF n > MaxSeries THEN MaxSeries ELSE n
           /\ n <= MaxSeries => DOMAIN kept = DOMAIN fresh
<1>1. IsFiniteSet(DOMAIN series) /\ DOMAIN fresh \subseteq DOMAIN series /\ MaxSeries \in Nat
  BY StoreParts, MetricConstants DEF MetricInv, Evicts, Expires
<1>2. IsFiniteSet(DOMAIN fresh) /\ n \in Nat
  BY <1>1, FS_Subset, FS_CardinalityType
<1> DEFINE k == ToRemove(n)
           place == [id \in DOMAIN kept |-> pos[id]]
<1>3. k \in 0 .. n /\ k = IF n > MaxSeries THEN n - MaxSeries ELSE 0
  BY <1>1, <1>2 DEF ToRemove, SaturatingSub
<1> HIDE DEF k
<1>4. /\ \A id \in DOMAIN fresh : pos[id] \in 1 .. n
      /\ \A a, b \in DOMAIN fresh : pos[a] = pos[b] => a = b
      /\ \A p \in 1 .. n : \E id \in DOMAIN fresh : pos[id] = p
      /\ DOMAIN kept = {i \in DOMAIN fresh : pos[i] > k}
  BY DEF Evicts, Bijection, Injection, IsInjective, Surjection, k
<1>5. place \in Bijection(DOMAIN kept, k + 1 .. n)
  <2>1. \A id \in DOMAIN kept : place[id] = pos[id] /\ id \in DOMAIN fresh
    BY <1>4
  <2>2. \A id \in DOMAIN kept : place[id] \in k + 1 .. n
    <3>1. \A id \in DOMAIN kept : pos[id] \in 1 .. n /\ pos[id] > k
      BY <1>4
    <3> QED  BY <1>2, <1>3, <2>1, <3>1
  <2>3. \A a, b \in DOMAIN kept : place[a] = place[b] => a = b
    BY <1>4, <2>1
  <2>4. \A p \in k + 1 .. n : \E id \in DOMAIN kept : place[id] = p
    <3> SUFFICES ASSUME NEW p \in k + 1 .. n PROVE \E id \in DOMAIN kept : place[id] = p
      OBVIOUS
    <3>1. p \in 1 .. n /\ p > k
      BY <1>2, <1>3
    <3>2. PICK id \in DOMAIN fresh : pos[id] = p
      BY <1>4, <3>1
    <3> QED  BY <1>4, <2>1, <3>1, <3>2
  <2>5. place = [id \in DOMAIN kept |-> place[id]]
    OBVIOUS
  <2> HIDE DEF place
  <2> QED  BY <2>2, <2>3, <2>4, <2>5 DEF Bijection, Injection, IsInjective, Surjection
<1>6. ExistsBijection(DOMAIN kept, k + 1 .. n)
  BY <1>5 DEF ExistsBijection
<1>7. IsFiniteSet(DOMAIN kept)
  <2>1. DOMAIN kept \subseteq DOMAIN fresh
    BY <1>4
  <2> QED  BY <1>2, <2>1, FS_Subset
<1>8. Cardinality(DOMAIN kept) = Cardinality(k + 1 .. n)
  BY <1>6, <1>7, FS_Bijection
<1>9. Cardinality(k + 1 .. n) = n - k
  <2>1. k + 1 \in Int /\ n \in Int
    BY <1>2, <1>3
  <2>2. Cardinality(k + 1 .. n) = IF k + 1 > n THEN 0 ELSE n - (k + 1) + 1
    BY <2>1, FS_Interval
  <2> QED  BY <1>2, <1>3, <2>2
<1>10. n <= MaxSeries => DOMAIN kept = DOMAIN fresh
  <2> SUFFICES ASSUME n <= MaxSeries PROVE DOMAIN kept = DOMAIN fresh
    OBVIOUS
  <2>1. k = 0
    BY <1>1, <1>2, <1>3
  <2>2. \A id \in DOMAIN fresh : pos[id] > k
    BY <1>4, <2>1
  <2> QED  BY <1>4, <2>2
<1> QED  BY <1>1, <1>2, <1>3, <1>8, <1>9, <1>10

LEMMA RunEvictionEvictsItems ==
    ASSUME MetricInv, NEW cutoff \in Cutoffs, RunEviction(cutoff)
    PROVE  Store!Evict(cutoff)
<1>1. PICK fresh, pos, kept : Evicts(cutoff, fresh, pos, kept)
  BY RunEvictionEvicts
<1> DEFINE live == Store!Unexpired(HeldSamples, cutoff)
           n == Cardinality(DOMAIN fresh)
<1>2. /\ Expires(cutoff, fresh) /\ DOMAIN kept \subseteq DOMAIN fresh
      /\ DOMAIN fresh \subseteq DOMAIN series
      /\ MaxSeries \in Nat
  BY <1>1, MetricConstants DEF Evicts, Expires
<1>3. ItemsOfSeries(live, fresh, DOMAIN fresh) /\ ItemsOfSeries(HeldSamples', fresh, DOMAIN kept)
  BY <1>1, <1>2, LiveItems, KeptItems
<1>4. /\ n \in Nat
      /\ Cardinality(DOMAIN kept) = IF n > MaxSeries THEN MaxSeries ELSE n
      /\ n <= MaxSeries => DOMAIN kept = DOMAIN fresh
  BY <1>1, KeptCount
<1>5. IsFiniteSet(DOMAIN kept) /\ GroupsOf(HeldSamples') = Cardinality(DOMAIN kept)
  BY <1>2, <1>3, GroupCount
<1> HIDE DEF live, n
<1>6. HeldSamples' \subseteq live
  BY <1>2, <1>3 DEF ItemsOfSeries
<1>7. GroupsOf(HeldSamples') <= MaxSeries
  BY <1>2, <1>4, <1>5
<1>8. ASSUME HeldSamples' # live
      PROVE  \E h \in live \ HeldSamples' :
                GroupsOf(HeldSamples' \cup Store!Group(live, h.group)) > MaxSeries
  <2>1. PICK h \in live : h \notin HeldSamples'
    BY <1>6, <1>8
  <2>2. PICK id \in DOMAIN fresh : \E r \in 1 .. Len(fresh[id]) :
                 h = ItemOf(fresh[id][r], series[id].labels)
    BY <1>3, <2>1 DEF ItemsOfSeries
  <2>3. id \notin DOMAIN kept
    BY <1>3, <2>1, <2>2 DEF ItemsOfSeries
  <2>4. h.group = series[id].labels
    BY <2>2 DEF ItemOf
  <2>5. n > MaxSeries
    BY <1>2, <1>4, <2>3
  <2> DEFINE more == HeldSamples' \cup Store!Group(live, h.group)
             ids == DOMAIN kept \cup {id}
  <2>6. ASSUME NEW g
        PROVE  g \in Store!Group(live, h.group) <=>
                  \E r \in 1 .. Len(fresh[id]) : g = ItemOf(fresh[id][r], series[id].labels)
    <3>1. g \in Store!Group(live, h.group) <=> g \in live /\ g.group = series[id].labels
      BY <2>4 DEF Store!Group
    <3>2. \A a \in DOMAIN fresh : series[a].labels = series[id].labels => a = id
      <4>1. \A a \in DOMAIN series : series_ids[series[a].labels] = a
        BY StoreParts DEF MetricInv
      <4> QED  BY <1>2, <4>1
    <3>3. \A a, r : g = ItemOf(fresh[a][r], series[a].labels) => g.group = series[a].labels
      BY DEF ItemOf
    <3>4. g \in live <=> \E a \in DOMAIN fresh : \E r \in 1 .. Len(fresh[a]) :
                              g = ItemOf(fresh[a][r], series[a].labels)
      BY <1>3 DEF ItemsOfSeries
    <3> QED  BY <3>1, <3>2, <3>3, <3>4
  <2>7. ItemsOfSeries(more, fresh, ids)
    BY <1>3, <2>6 DEF ItemsOfSeries
  <2>8. ids \in SUBSET DOMAIN fresh
    BY <1>2
  <2>9. Cardinality(ids) = MaxSeries + 1
    BY <1>4, <1>5, <2>3, <2>5, FS_AddElement
  <2> HIDE DEF more, ids
  <2>10. GroupsOf(more) = MaxSeries + 1
    BY <1>2, <2>7, <2>8, <2>9, GroupCount
  <2>11. GroupsOf(more) > MaxSeries
    BY <1>2, <2>10
  <2> QED  BY <2>1, <2>11 DEF more
<1> QED  BY <1>6, <1>7, <1>8 DEF Store!Evict, live

(* Every step of the metric store is a step of the abstract store: samples
   leave only because they expired, with their whole series because there
   were more than max_series and then no more than needed, by the reset of
   their own service, or by a clear; a sample of an accepted request is
   never confused with one already held.                                   *)
THEOREM MetricStoreImplementsSignalStore == Spec => ImplementsSignalStore
<1>1. Init => Store!Init
  <2> SUFFICES ASSUME Init PROVE HeldSamples = {}
    BY DEF Store!Init
  <2>1. DOMAIN series = {}
    BY DEF Init, NoEntries
  <2> QED  BY <2>1 DEF HeldSamples
<1>2. MetricInv /\ [Next]_vars => [Store!Next]_HeldSamples
  <2> SUFFICES ASSUME MetricInv, [Next]_vars PROVE Store!Next \/ UNCHANGED HeldSamples
    OBVIOUS
  <2>1. CASE IngestMetrics \/ RemoteWrite
    BY <2>1, RequestsAreTyped, IngestAccepts DEF Store!Next
  <2>2. CASE \E cutoff \in Cutoffs : RunEviction(cutoff)
    BY <2>2, RunEvictionEvictsItems DEF Store!Next
  <2>3. CASE \E service \in Services : ClearService(service)
    BY <2>3, ClearServiceForgets DEF Store!Next
  <2>4. CASE Clear
    <3>1. DOMAIN series' = {}
      BY <2>4 DEF Clear, NoEntries
    <3>2. HeldSamples' = {}
      BY <3>1 DEF HeldSamples
    <3> QED  BY <3>2 DEF Store!Next, Store!ForgetAll
  <2>5. CASE RestoreFromSnapshot
    BY <2>5, SameSeriesSameSamples DEF RestoreFromSnapshot
  <2>6. CASE UNCHANGED vars
    BY <2>6, SameSeriesSameSamples DEF vars
  <2> QED  BY <2>1, <2>2, <2>3, <2>4, <2>5, <2>6 DEF Next
<1>3. Spec => []MetricInv
  BY MetricInvariant
<1> QED  BY <1>1, <1>2, <1>3, PTL DEF Spec, ImplementsSignalStore, Store!Spec

-----------------------------------------------------------------------------
(* The metadata of a request, registered one after the other. *)
Registers(after, meta) ==
    after = [i \in 0 .. Len(meta) |->
                IF i = 0 THEN metric_metadata ELSE RegisterMetadata(after[i - 1], meta[i])]

LEMMA RegisterAllRegisters ==
    ASSUME NEW meta \in Seq(MetaEntry)
    PROVE  \E after : Registers(after, meta) /\ RegisterAllMetadata(meta) = after[Len(meta)]
<1> DEFINE n == Len(meta)
           Ends(f, k) ==
              f = [i \in 0 .. k |-> IF i = 0 THEN metric_metadata
                                    ELSE RegisterMetadata(f[i - 1], meta[i])]
           reached == {k \in 0 .. n : \E f : Ends(f, k)}
<1>1. n \in Nat
  OBVIOUS
<1>2. \E f : Ends(f, 0)
  <2>1. Ends([i \in 0 .. 0 |-> metric_metadata], 0)
    OBVIOUS
  <2> HIDE DEF Ends
  <2> QED  BY <2>1
<1>3. ASSUME NEW k \in 0 .. n, NEW f, Ends(f, k), k < n PROVE \E g : Ends(g, k + 1)
  <2> DEFINE last == RegisterMetadata(f[k], meta[k + 1])
             g == [i \in 0 .. k + 1 |-> IF i = k + 1 THEN last ELSE f[i]]
  <2>1. /\ k \in Nat /\ DOMAIN f = 0 .. k /\ f[0] = metric_metadata
        /\ \A i \in 0 .. k : i # 0 => f[i] = RegisterMetadata(f[i - 1], meta[i])
    <3>1. k \in Nat /\ 0 \in 0 .. k
      OBVIOUS
    <3> HIDE DEF n
    <3> QED  BY <1>3, <3>1
  <2>2. /\ DOMAIN g = 0 .. k + 1
        /\ g[k + 1] = last
        /\ \A i \in 0 .. k : g[i] = f[i]
    <3> HIDE DEF last
    <3> QED  BY <2>1
  <2>3. \A i \in 0 .. k + 1 : g[i] = IF i = 0 THEN metric_metadata
                                     ELSE RegisterMetadata(g[i - 1], meta[i])
    <3> HIDE DEF g
    <3> SUFFICES ASSUME NEW i \in 0 .. k + 1
                 PROVE  g[i] = IF i = 0 THEN metric_metadata
                               ELSE RegisterMetadata(g[i - 1], meta[i])
      OBVIOUS
    <3>1. CASE i = k + 1
      <4>1. i - 1 = k /\ i # 0 /\ k \in 0 .. k
        BY <2>1, <3>1
      <4> QED  BY <2>2, <3>1, <4>1
    <3>2. CASE i = 0
      BY <2>1, <2>2, <3>2
    <3>3. CASE i \in 0 .. k /\ i # 0
      <4>1. i - 1 \in 0 .. k
        BY <2>1, <3>3
      <4> QED  BY <2>1, <2>2, <3>3, <4>1
    <3> QED  BY <2>1, <3>1, <3>2, <3>3
  <2>4. g = [i \in 0 .. k + 1 |-> g[i]]
    OBVIOUS
  <2> HIDE DEF g
  <2>5. Ends(g, k + 1)
    BY <2>3, <2>4
  <2> HIDE DEF Ends
  <2> QED  BY <2>5
<1> HIDE DEF Ends
<1>4. 0 \in reached
  BY <1>1, <1>2
<1>5. \A k \in 0 .. n : k \in reached /\ k < n => k + 1 \in reached
  BY <1>1, <1>3
<1> HIDE DEF reached
<1>6. n \in reached
  <2>1. n \in 0 .. n
    BY <1>1
  <2> HIDE DEF n
  <2> QED  BY <1>1, <1>4, <1>5, <2>1, CountUp
<1>7. \E f : Ends(f, n)
  BY <1>6 DEF reached
<1> QED  BY <1>7 DEF RegisterAllMetadata, Ends, Registers

(* What the types need to be inductive: no entry is left with the "none"
   that stands for an entry still to be made.                              *)
Typed(metadata) == \A name \in DOMAIN metadata : metadata[name].type # "none"

TypesInv == Typed(metric_metadata)

(* A type that was known is known later, while its entry lives. *)
KeepsTypes(old, new) ==
    \A name \in DOMAIN old \cap DOMAIN new :
        old[name].type # "unknown" => new[name].type # "unknown"

LEMMA SentTypesAreTypes == "none" \notin SentTypes
<1>1. \A m \in OtlpMetrics : m.type # "none"
  <2> SUFFICES ASSUME NEW m \in OtlpMetrics PROVE m.type # "none"
    OBVIOUS
  <2>1. m.type \in {"gauge", "counter", "histogram", "summary", "exponential_histogram"}
    BY MetricConstants
  <2> QED  BY <2>1
<1>2. \A s \in RemoteSeries : InferredType[s.name] # "none"
  BY MetricConstants
<1> QED  BY <1>1, <1>2 DEF SentTypes

LEMMA RegisterKeepsTypes ==
    ASSUME NEW metadata, Typed(metadata), NEW m \in MetaEntry,
           NEW new, new = RegisterMetadata(metadata, m)
    PROVE  Typed(new) /\ KeepsTypes(metadata, new) /\ DOMAIN metadata \subseteq DOMAIN new
<1>1. m.type # "none"
  BY SentTypesAreTypes DEF MetaEntry
<1> DEFINE old == IF m.name \in DOMAIN metadata THEN metadata[m.name]
                  ELSE [type |-> "none", help |-> NoHelp]
<1>2. /\ DOMAIN new = DOMAIN metadata \cup {m.name}
      /\ new[m.name].type = TypeAfter(old.type, m.type)
      /\ \A name \in DOMAIN metadata : name # m.name => new[name] = metadata[name]
  BY DEF RegisterMetadata
<1>3. m.name \in DOMAIN metadata => old.type = metadata[m.name].type
  OBVIOUS
<1>4. TypeAfter(old.type, m.type) # "none" \/ m.name \in DOMAIN metadata
  BY <1>1 DEF TypeAfter
<1> HIDE DEF old
<1>5. Typed(new)
  BY <1>1, <1>2, <1>3, <1>4 DEF Typed, TypeAfter
<1>6. KeepsTypes(metadata, new)
  BY <1>2, <1>3 DEF KeepsTypes, Typed, TypeAfter
<1> QED  BY <1>2, <1>5, <1>6

LEMMA RegisterAllKeepsTypes ==
    ASSUME TypesInv, NEW meta \in Seq(MetaEntry)
    PROVE  /\ Typed(RegisterAllMetadata(meta))
           /\ KeepsTypes(metric_metadata, RegisterAllMetadata(meta))
<1> DEFINE n == Len(meta)
<1>1. n \in Nat /\ \A i \in 1 .. n : meta[i] \in MetaEntry
  OBVIOUS
<1>2. PICK after : Registers(after, meta) /\ RegisterAllMetadata(meta) = after[n]
  BY RegisterAllRegisters
<1>3. after = [i \in 0 .. n |-> IF i = 0 THEN metric_metadata
                                ELSE RegisterMetadata(after[i - 1], meta[i])]
  BY <1>2 DEF Registers
<1> DEFINE good == {i \in 0 .. n : /\ Typed(after[i]) /\ KeepsTypes(metric_metadata, after[i])
                                   /\ DOMAIN metric_metadata \subseteq DOMAIN after[i]}
<1> HIDE DEF n
<1>4. 0 \in good
  <2>1. 0 \in 0 .. n
    BY <1>1
  <2>2. after[0] = metric_metadata
    BY <1>3, <2>1
  <2>3. KeepsTypes(metric_metadata, metric_metadata)
    BY DEF KeepsTypes
  <2> QED  BY <2>1, <2>2, <2>3 DEF TypesInv
<1>5. \A i \in 0 .. n : i \in good /\ i < n => i + 1 \in good
  <2> SUFFICES ASSUME NEW i \in 0 .. n, i \in good, i < n PROVE i + 1 \in good
    OBVIOUS
  <2> DEFINE j == i + 1
  <2>1. j \in 1 .. n /\ j \in 0 .. n /\ j - 1 = i /\ j # 0
    BY <1>1
  <2> HIDE DEF j
  <2>2. after[j] = RegisterMetadata(after[i], meta[j])
    BY <1>3, <2>1
  <2>3. /\ Typed(after[i]) /\ KeepsTypes(metric_metadata, after[i])
        /\ DOMAIN metric_metadata \subseteq DOMAIN after[i] /\ meta[j] \in MetaEntry
    BY <1>1, <2>1
  <2>4. Typed(after[j]) /\ KeepsTypes(after[i], after[j]) /\ DOMAIN after[i] \subseteq DOMAIN after[j]
    BY <2>2, <2>3, RegisterKeepsTypes
  <2>5. KeepsTypes(metric_metadata, after[j])
    BY <2>3, <2>4 DEF KeepsTypes
  <2>6. j \in good
    BY <2>1, <2>3, <2>4, <2>5
  <2> QED  BY <2>6 DEF j
<1> HIDE DEF good
<1>6. n \in good
  <2>1. n \in 0 .. n
    BY <1>1
  <2> QED  BY <1>1, <1>4, <1>5, <2>1, CountUp
<1> QED  BY <1>2, <1>6 DEF good

LEMMA KeepNamesKeepsTypes ==
    ASSUME TypesInv, NEW labelsOf
    PROVE  /\ Typed(KeepNames(metric_metadata, labelsOf))
           /\ KeepsTypes(metric_metadata, KeepNames(metric_metadata, labelsOf))
BY DEF KeepNames, Typed, TypesInv, KeepsTypes

LEMMA StepKeepsTypes ==
    ASSUME TypesInv, [Next]_vars
    PROVE  TypesInv' /\ KeepsTypes(metric_metadata, metric_metadata')
<1>1. CASE UNCHANGED metric_metadata
  BY <1>1 DEF TypesInv, Typed, KeepsTypes
<1>2. CASE IngestMetrics \/ RemoteWrite
  <2>1. PICK prepared \in Seq(PreparedPoint), meta \in Seq(MetaEntry) : Ingest(prepared, meta)
    BY <1>2, RequestsAreTyped
  <2>2. UNCHANGED metric_metadata \/ metric_metadata' = RegisterAllMetadata(meta)
    BY <2>1 DEF Ingest, RejectChecked, RejectRegistering, Accept
  <2> QED  BY <1>1, <2>2, RegisterAllKeepsTypes DEF TypesInv
<1>3. CASE \E cutoff \in Cutoffs : RunEviction(cutoff)
  <2>1. PICK labelsOf : metric_metadata' = KeepNames(metric_metadata, labelsOf)
    BY <1>3 DEF RunEviction
  <2> QED  BY <2>1, KeepNamesKeepsTypes DEF TypesInv
<1>4. CASE \E service \in Services : ClearService(service)
  <2>1. PICK labelsOf : metric_metadata' = KeepNames(metric_metadata, labelsOf)
    BY <1>4 DEF ClearService
  <2> QED  BY <2>1, KeepNamesKeepsTypes DEF TypesInv
<1>5. CASE Clear
  <2>1. DOMAIN metric_metadata' = {}
    BY <1>5 DEF Clear, NoEntries
  <2> QED  BY <2>1 DEF TypesInv, Typed, KeepsTypes
<1>6. CASE RestoreFromSnapshot
  BY <1>1, <1>6 DEF RestoreFromSnapshot
<1>7. CASE UNCHANGED vars
  BY <1>1, <1>7 DEF vars
<1> QED  BY <1>2, <1>3, <1>4, <1>5, <1>6, <1>7 DEF Next

(* register_metric_metadata never forgets a type: however the requests of
   the two write paths are mixed, and whatever one request repeats, a metric
   whose type is known keeps a known type as long as its entry lives.      *)
THEOREM KnownTypesAlwaysStick == Spec => KnownTypesStick
<1>1. Init => TypesInv
  BY DEF Init, NoEntries, TypesInv, Typed
<1>2. TypesInv /\ [Next]_vars => TypesInv'
  BY StepKeepsTypes
<1>3. TypesInv /\ [Next]_vars =>
         [\A n \in DOMAIN metric_metadata \cap DOMAIN metric_metadata' :
             metric_metadata[n].type # "unknown" => metric_metadata'[n].type # "unknown"]_vars
  BY StepKeepsTypes DEF KeepsTypes
<1> QED  BY <1>1, <1>2, <1>3, PTL DEF Spec, KnownTypesStick

-----------------------------------------------------------------------------
(* No label of a request is called `__name__`, so that a series has the name
   it was ingested under and no other.  Remote write takes the label out
   (remote_write.rs:128).  build_dp_labels (otlp_metrics.rs:301) passes an
   attribute of that name on: the code then goes by the first of the two
   names, which the set of pairs that stands for the labels does not tell. *)
UnnamedLabels ==
    /\ \A m \in OtlpMetrics : \A p \in m.labels : p[1] # "__name__"
    /\ \A s \in RemoteSeries : \A p \in s.labels : p[1] # "__name__"

NamedBy(labels, name) ==
    /\ <<"__name__", name>> \in labels
    /\ \A p \in labels : p[1] = "__name__" => p = <<"__name__", name>>

(* The inductive form of OneSourcePerName: every series has one name, that
   is registered, and its samples were sent for the registered source.     *)
SourcesAgree(stored, sources) ==
    \A id \in DOMAIN stored : \E name \in DOMAIN sources :
        /\ NamedBy(stored[id].labels, name)
        /\ \A i \in 1 .. Len(stored[id].samples) : stored[id].samples[i].source = sources[name]

SourcesInv == SourcesAgree(series, normalized_name_sources)

LEMMA FullLabelsAreNamed ==
    ASSUME UnnamedLabels, NEW p \in PreparedPoint
    PROVE  NamedBy(FullLabels(p), p.name)
<1>1. p.labels \in SUBSET SentPairs
  BY DEF PreparedPoint
<1>2. \A q \in SentPairs : q[1] # "__name__"
  BY DEF SentPairs, UnnamedLabels
<1> QED  BY <1>1, <1>2 DEF FullLabels, NamedBy

(* Registering keeps what is registered. *)
Extends(sources, more) ==
    /\ DOMAIN sources \subseteq DOMAIN more
    /\ \A name \in DOMAIN sources : more[name] = sources[name]

LEMMA RegisterExtends ==
    ASSUME NEW prepared
    PROVE  Extends(normalized_name_sources, Register(prepared))
BY DEF Extends, Register, SourceAfter

LEMMA ExtendsKeepsSources ==
    ASSUME NEW stored, NEW sources, SourcesAgree(stored, sources), NEW more, Extends(sources, more)
    PROVE  SourcesAgree(stored, more)
<1> SUFFICES ASSUME NEW id \in DOMAIN stored
             PROVE  \E name \in DOMAIN more :
                       /\ NamedBy(stored[id].labels, name)
                       /\ \A i \in 1 .. Len(stored[id].samples) :
                             stored[id].samples[i].source = more[name]
  BY DEF SourcesAgree
<1>1. PICK name \in DOMAIN sources :
          /\ NamedBy(stored[id].labels, name)
          /\ \A i \in 1 .. Len(stored[id].samples) : stored[id].samples[i].source = sources[name]
  BY DEF SourcesAgree
<1>2. name \in DOMAIN more /\ more[name] = sources[name]
  BY DEF Extends
<1> QED  BY <1>1, <1>2

(* One point adds samples of the source its name is registered for. *)
LEMMA PointKeepsSources ==
    ASSUME UnnamedLabels, NEW sources, NEW st, SourcesAgree(st.series, sources),
           NEW p \in PreparedPoint, p.name \in DOMAIN sources,
           NEW samples, \A k \in 1 .. Len(samples) : samples[k].source = sources[p.name],
           NEW new, NEW id, NEW old, Receives(st, new, id, old, FullLabels(p), samples)
    PROVE  SourcesAgree(new.series, sources)
<1> DEFINE labels == FullLabels(p)
           now == new.series[id].samples
<1>1. /\ DOMAIN new.series = DOMAIN st.series \cup {id}
      /\ new.series[id].labels = labels
      /\ \A other \in DOMAIN st.series : other # id => new.series[other] = st.series[other]
      /\ id \in DOMAIN st.series => st.series[id].labels = labels /\ old = st.series[id].samples
      /\ id \notin DOMAIN st.series => old = << >>
  BY DEF Receives
<1>2. \A r \in 1 .. Len(now) : \/ \E i \in 1 .. Len(old) : now[r] = old[i]
                               \/ \E i \in 1 .. Len(samples) : now[r] = samples[i]
  BY DEF Receives, Merged
<1>3. NamedBy(labels, p.name)
  BY FullLabelsAreNamed
<1> HIDE DEF labels, now
<1>4. \A i \in 1 .. Len(old) : old[i].source = sources[p.name]
  <2>1. CASE id \in DOMAIN st.series
    <3>1. PICK name \in DOMAIN sources :
              /\ NamedBy(st.series[id].labels, name)
              /\ \A i \in 1 .. Len(st.series[id].samples) :
                    st.series[id].samples[i].source = sources[name]
      BY <2>1 DEF SourcesAgree
    <3>2. NamedBy(labels, name)
      BY <1>1, <2>1, <3>1
    <3>3. name = p.name
      <4>1. <<"__name__", name>> = <<"__name__", p.name>>
        BY <1>3, <3>2 DEF NamedBy
      <4> QED  BY <4>1
    <3> QED  BY <1>1, <2>1, <3>1, <3>3
  <2>2. CASE id \notin DOMAIN st.series
    <3>1. Len(old) = 0
      BY <1>1, <2>2
    <3> QED  BY <3>1
  <2> QED  BY <2>1, <2>2
<1>5. \A r \in 1 .. Len(now) : now[r].source = sources[p.name]
  BY <1>2, <1>4
<1> SUFFICES ASSUME NEW a \in DOMAIN new.series
             PROVE  \E name \in DOMAIN sources :
                       /\ NamedBy(new.series[a].labels, name)
                       /\ \A i \in 1 .. Len(new.series[a].samples) :
                             new.series[a].samples[i].source = sources[name]
  BY DEF SourcesAgree
<1>6. CASE a = id
  BY <1>1, <1>3, <1>5, <1>6 DEF now
<1>7. CASE a # id
  <2>1. a \in DOMAIN st.series /\ new.series[a] = st.series[a]
    BY <1>1, <1>7
  <2> QED  BY <2>1 DEF SourcesAgree
<1> QED  BY <1>6, <1>7

LEMMA AcceptKeepsSources ==
    ASSUME UnnamedLabels, MetricInv, SourcesInv, NEW prepared \in Seq(PreparedPoint),
           NEW meta, Accept(prepared, meta)
    PROVE  SourcesInv'
<1> DEFINE n == Len(prepared)
           samples == Stamped(prepared)
           sources == Register(prepared)
<1>1. n \in Nat /\ DOMAIN prepared = 1 .. n /\ \A i \in 1 .. n : prepared[i] \in PreparedPoint
  OBVIOUS
<1>2. StoreInv(Current) /\ ingest_seq \in Nat
  BY DEF MetricInv
<1>3. PICK after : Ingests(after, prepared, samples) /\ IngestAll(prepared, samples) = after[n]
  BY IngestAllIngests
<1>4. /\ after[0] = AtStart(prepared)
      /\ \A i \in 1 .. n : \E id, old :
            Receives(after[i - 1], after[i], id, old, FullLabels(prepared[i]), samples[i])
  BY <1>2, <1>3, RequestReceives
<1>5. \A i \in 1 .. n : \A k \in 1 .. Len(samples[i]) : samples[i][k].source = prepared[i].source
  BY <1>2, StampsAreDrawn
<1> HIDE DEF n, samples
<1>6. \A i \in 1 .. n : prepared[i].name \in DOMAIN sources
                        /\ sources[prepared[i].name] = prepared[i].source
  <2> SUFFICES ASSUME NEW i \in 1 .. n
               PROVE  prepared[i].name \in DOMAIN sources
                      /\ sources[prepared[i].name] = prepared[i].source
    OBVIOUS
  <2>1. SourceAfter(prepared, prepared[i].name) = prepared[i].source
    BY <1>1 DEF Accept, Clashes
  <2>2. prepared[i].name \in {prepared[j].name : j \in DOMAIN prepared}
    BY <1>1
  <2>3. prepared[i].name \in DOMAIN sources
        /\ sources[prepared[i].name] = SourceAfter(prepared, prepared[i].name)
    BY <2>2 DEF Register
  <2> QED  BY <2>1, <2>3
<1>7. SourcesAgree(series, sources)
  BY RegisterExtends, ExtendsKeepsSources DEF SourcesInv
<1> HIDE DEF sources
<1> DEFINE good == {i \in 0 .. n : SourcesAgree(after[i].series, sources)}
<1>8. 0 \in good
  <2>1. 0 \in 0 .. n
    BY <1>1
  <2>2. after[0].series = series
    BY <1>4 DEF AtStart
  <2> QED  BY <1>7, <2>1, <2>2
<1>9. \A i \in 0 .. n : i \in good /\ i < n => i + 1 \in good
  <2> SUFFICES ASSUME NEW i \in 0 .. n, i \in good, i < n PROVE i + 1 \in good
    OBVIOUS
  <2> DEFINE j == i + 1
  <2>1. j \in 1 .. n /\ j \in 0 .. n /\ j - 1 = i
    BY <1>1
  <2> HIDE DEF j
  <2>2. PICK id, old : Receives(after[i], after[j], id, old, FullLabels(prepared[j]), samples[j])
    BY <1>4, <2>1
  <2>3. /\ prepared[j] \in PreparedPoint /\ prepared[j].name \in DOMAIN sources
        /\ \A k \in 1 .. Len(samples[j]) : samples[j][k].source = sources[prepared[j].name]
    BY <1>1, <1>5, <1>6, <2>1
  <2>4. SourcesAgree(after[j].series, sources)
    BY <2>2, <2>3, PointKeepsSources
  <2>5. j \in good
    BY <2>1, <2>4
  <2> QED  BY <2>5 DEF j
<1> HIDE DEF good
<1>10. n \in good
  <2>1. n \in 0 .. n
    BY <1>1
  <2> QED  BY <1>1, <1>8, <1>9, <2>1, CountUp
<1>11. series' = after[n].series /\ normalized_name_sources' = sources
  BY <1>3 DEF Accept, samples, sources
<1> QED  BY <1>10, <1>11 DEF SourcesInv, good

(* Removing samples and series leaves the sources of the rest. *)
LEMMA LeavesKeepsSources ==
    ASSUME MetricInv, SourcesInv, NEW left, Leaves(left), NEW sources,
           \A id \in DOMAIN left : \A name \in DOMAIN normalized_name_sources :
              NamedBy(series[id].labels, name) =>
                 name \in DOMAIN sources /\ sources[name] = normalized_name_sources[name]
    PROVE  SourcesAgree(series', sources)
<1>1. DOMAIN series' = DOMAIN left /\ DOMAIN left \subseteq DOMAIN series
  BY DEF Leaves
<1> SUFFICES ASSUME NEW id \in DOMAIN left
             PROVE  \E name \in DOMAIN sources :
                       /\ NamedBy(series'[id].labels, name)
                       /\ \A r \in 1 .. Len(series'[id].samples) :
                             series'[id].samples[r].source = sources[name]
  BY <1>1 DEF SourcesAgree
<1>2. /\ series'[id].labels = series[id].labels /\ series'[id].samples = left[id]
      /\ \A r \in 1 .. Len(left[id]) :
            \E i \in 1 .. Len(series[id].samples) : left[id][r] = series[id].samples[i]
  BY DEF Leaves
<1>3. PICK name \in DOMAIN normalized_name_sources :
          /\ NamedBy(series[id].labels, name)
          /\ \A i \in 1 .. Len(series[id].samples) :
                series[id].samples[i].source = normalized_name_sources[name]
  BY <1>1 DEF SourcesInv, SourcesAgree
<1>4. name \in DOMAIN sources /\ sources[name] = normalized_name_sources[name]
  BY <1>3
<1>5. \A r \in 1 .. Len(left[id]) : left[id][r].source = normalized_name_sources[name]
  BY <1>2, <1>3
<1> QED  BY <1>2, <1>3, <1>4, <1>5

LEMMA StepKeepsSources ==
    ASSUME UnnamedLabels, MetricInv, SourcesInv, [Next]_vars
    PROVE  SourcesInv'
<1>1. CASE IngestMetrics \/ RemoteWrite
  <2>1. PICK prepared \in Seq(PreparedPoint), meta \in Seq(MetaEntry) : Ingest(prepared, meta)
    BY <1>1, RequestsAreTyped
  <2>2. CASE RejectChecked(prepared)
    BY <2>2 DEF RejectChecked, SourcesInv
  <2>3. CASE RejectRegistering(prepared)
    <3>1. series' = series /\ \E first : normalized_name_sources' = Register(first)
      BY <2>3 DEF RejectRegistering
    <3> QED  BY <3>1, RegisterExtends, ExtendsKeepsSources DEF SourcesInv
  <2>4. CASE Accept(prepared, meta)
    BY <2>4, AcceptKeepsSources
  <2> QED  BY <2>1, <2>2, <2>3, <2>4 DEF Ingest
<1>2. CASE \E cutoff \in Cutoffs : RunEviction(cutoff)
  <2>1. PICK cutoff \in Cutoffs : RunEviction(cutoff)
    BY <1>2
  <2>2. PICK fresh, pos, kept : Evicts(cutoff, fresh, pos, kept)
    BY <2>1, RunEvictionEvicts
  <2>3. Leaves(kept)
    BY <2>2 DEF Evicts
  <2>4. normalized_name_sources' = normalized_name_sources
    BY <2>1 DEF RunEviction
  <2> QED  BY <2>3, <2>4, LeavesKeepsSources DEF SourcesInv
<1>3. CASE \E service \in Services : ClearService(service)
  <2>1. PICK service \in Services : ClearService(service)
    BY <1>3
  <2> DEFINE left == [id \in DOMAIN series \ ServiceGone(service) |-> series[id].samples]
             labelsOf == [id \in DOMAIN series \ ServiceGone(service) |-> series[id].labels]
  <2>2. Leaves(left)
    BY <2>1, ClearServiceLeaves
  <2>3. normalized_name_sources' = KeepNames(normalized_name_sources, labelsOf)
    BY <2>1 DEF ClearService, ServiceGone
  <2>4. ASSUME NEW id \in DOMAIN left, NEW name \in DOMAIN normalized_name_sources,
               NamedBy(series[id].labels, name)
        PROVE  /\ name \in DOMAIN normalized_name_sources'
               /\ normalized_name_sources'[name] = normalized_name_sources[name]
    <3>1. id \in DOMAIN labelsOf /\ labelsOf[id] = series[id].labels
      OBVIOUS
    <3> DEFINE pair == <<"__name__", name>>
    <3>2. pair[1] = "__name__" /\ pair[2] = name /\ pair \in AllPairs(labelsOf)
      BY <2>4, <3>1 DEF NamedBy, AllPairs
    <3>3. name \in NamesIn(labelsOf)
      BY <3>2 DEF NamesIn
    <3> HIDE DEF labelsOf
    <3> QED  BY <2>3, <3>3 DEF KeepNames
  <2> HIDE DEF left
  <2> QED  BY <2>2, <2>4, LeavesKeepsSources DEF SourcesInv
<1>4. CASE Clear
  <2>1. DOMAIN series' = {}
    BY <1>4 DEF Clear, NoEntries
  <2> QED  BY <2>1 DEF SourcesInv, SourcesAgree
<1>5. CASE RestoreFromSnapshot
  BY <1>5 DEF RestoreFromSnapshot, SourcesInv
<1>6. CASE UNCHANGED vars
  BY <1>6 DEF vars, SourcesInv
<1> QED  BY <1>1, <1>2, <1>3, <1>4, <1>5, <1>6 DEF Next

LEMMA SourcesAgreeIsOneSource == MetricInv /\ SourcesInv => OneSourcePerName
<1> SUFFICES ASSUME MetricInv, SourcesInv, NEW n \in NamesIn(LabelsOf)
             PROVE  /\ n \in DOMAIN normalized_name_sources
                    /\ \A s \in SamplesNamed(n) : s.source = normalized_name_sources[n]
  BY DEF OneSourcePerName
<1>1. DOMAIN LabelsOf = DOMAIN series /\ \A id \in DOMAIN series : LabelsOf[id] = series[id].labels
  BY DEF LabelsOf
<1>2. ASSUME NEW id \in DOMAIN series
      PROVE  \E name \in DOMAIN normalized_name_sources :
                /\ NamedBy(series[id].labels, name)
                /\ \A i \in 1 .. Len(series[id].samples) :
                      series[id].samples[i].source = normalized_name_sources[name]
  BY DEF SourcesInv, SourcesAgree
<1>3. n \in DOMAIN normalized_name_sources
  <2>1. PICK id \in DOMAIN series : \E q \in series[id].labels : q[1] = "__name__" /\ q[2] = n
    BY <1>1 DEF NamesIn, AllPairs
  <2>2. PICK q \in series[id].labels : q[1] = "__name__" /\ q[2] = n
    BY <2>1
  <2>3. PICK name \in DOMAIN normalized_name_sources : NamedBy(series[id].labels, name)
    BY <1>2
  <2>4. q = <<"__name__", name>>
    BY <2>2, <2>3 DEF NamedBy
  <2>5. name = n
    BY <2>2, <2>4
  <2> QED  BY <2>5
<1>4. ASSUME NEW id \in DOMAIN series, NameOf(id) = n, NEW i \in DOMAIN series[id].samples
      PROVE  series[id].samples[i].source = normalized_name_sources[n]
  <2>1. PICK name \in DOMAIN normalized_name_sources :
            /\ NamedBy(series[id].labels, name)
            /\ \A k \in 1 .. Len(series[id].samples) :
                  series[id].samples[k].source = normalized_name_sources[name]
    BY <1>2
  <2>2. name = n
    <3> DEFINE pair == <<"__name__", name>>
    <3>1. pair \in AllPairs(LabelsOf) /\ pair[1] = "__name__" /\ pair[2] = name
      BY <1>1, <2>1 DEF NamedBy, AllPairs
    <3>2. name \in NamesIn(LabelsOf)
      BY <3>1 DEF NamesIn
    <3>3. <<"__name__", NameOf(id)>> \in series[id].labels
      BY <2>1, <3>2 DEF NameOf, NamedBy
    <3>4. <<"__name__", NameOf(id)>> = <<"__name__", name>>
      <4> DEFINE other == <<"__name__", NameOf(id)>>
      <4>1. other[1] = "__name__"
        OBVIOUS
      <4> QED  BY <2>1, <3>3, <4>1 DEF NamedBy
    <3> QED  BY <1>4, <3>4
  <2>3. DOMAIN series[id].samples = 1 .. Len(series[id].samples)
    BY StoreParts DEF MetricInv
  <2> QED  BY <2>1, <2>2, <2>3
<1>5. \A s \in SamplesNamed(n) : s.source = normalized_name_sources[n]
  BY <1>4 DEF SamplesNamed
<1> QED  BY <1>3, <1>5

(* What check_metric_name_collision and register_metric_name are for: no two
   metrics of different sources ever share a visible name in the store, by
   either write path, across evictions and resets, and also when a request
   is rejected half way; for clients that send no label `__name__`.        *)
THEOREM OneSourceAlwaysPerName ==
    ASSUME UnnamedLabels
    PROVE  Spec => []OneSourcePerName
<1>1. Init => SourcesInv
  BY DEF Init, NoEntries, SourcesInv, SourcesAgree
<1>2. MetricInv /\ SourcesInv /\ [Next]_vars => SourcesInv'
  BY StepKeepsSources
<1>3. MetricInv /\ SourcesInv => OneSourcePerName
  BY SourcesAgreeIsOneSource
<1>4. Spec => []MetricInv
  BY MetricInvariant
<1> QED  BY <1>1, <1>2, <1>3, <1>4, PTL DEF Spec

=============================================================================
