---------------------------- MODULE LogSearchProofs ----------------------------
(***************************************************************************)
(* Answers of LogQL over the streams that pushes and exports build.  The    *)
(* heap of a limited query keeps the newest entries and the limit of the    *)
(* response as many of each time; query_logs says truthfully what it shows; *)
(* label filters agree with selectors; and an instant is found in whatever  *)
(* unit it was pushed and is asked for.  Entries are told apart by their    *)
(* ingest numbers, which no two of them share.                              *)
(***************************************************************************)
EXTENDS Reports, ItemSeqsProofs

(* `kept` has as many things of S as the limit allows, none of them older
   than one it leaves out.                                                 *)
IsNewest(S, time, kept, limit) ==
    /\ kept \in SUBSET S
    /\ Cardinality(kept) = IF Cardinality(S) < limit THEN Cardinality(S) ELSE limit
    /\ \A x \in S \ kept, y \in kept : time[x] <= time[y]

(* Of the things from a time on it has all, or as many as the limit allows. *)
LEMMA NewestFromATime ==
    ASSUME NEW S, IsFiniteSet(S), NEW time, \A x \in S : time[x] \in Int, NEW limit \in Nat,
           NEW kept, IsNewest(S, time, kept, limit), NEW t \in Int
    PROVE  Cardinality({x \in kept : time[x] >= t}) =
              IF Cardinality({x \in S : time[x] >= t}) < limit
              THEN Cardinality({x \in S : time[x] >= t}) ELSE limit
<1> DEFINE U == {x \in S : time[x] >= t}
           A == {x \in kept : time[x] >= t}
<1>1. /\ kept \in SUBSET S
      /\ Cardinality(kept) = IF Cardinality(S) < limit THEN Cardinality(S) ELSE limit
      /\ \A x \in S \ kept, y \in kept : time[x] <= time[y]
  BY DEF IsNewest
<1>2. IsFiniteSet(kept) /\ IsFiniteSet(U) /\ Cardinality(U) <= Cardinality(S)
  <2>1. U \in SUBSET S
    OBVIOUS
  <2> HIDE DEF U
  <2> QED  BY <1>1, <2>1, FS_Subset
<1>3. Cardinality(kept) \in Nat /\ Cardinality(U) \in Nat /\ Cardinality(S) \in Nat
  <2> HIDE DEF U
  <2> QED  BY <1>2, FS_CardinalityType
<1>4. CASE \E y \in kept : ~ (time[y] >= t)
  <2>1. PICK y \in kept : ~ (time[y] >= t)
    BY <1>4
  <2>2. \A x \in U : x \in kept
    BY <1>1, <2>1
  <2>3. A = U /\ U \in SUBSET kept /\ y \notin U
    BY <1>1, <2>1, <2>2
  <2> HIDE DEF U, A
  <2>4. Cardinality(U) < Cardinality(kept)
    BY <1>2, <2>1, <2>3, StrictSubsetIsSmaller
  <2> QED  BY <1>1, <1>3, <2>3, <2>4 DEF U, A
<1>5. CASE \A y \in kept : time[y] >= t
  <2>1. A = kept /\ kept \in SUBSET U
    BY <1>1, <1>5
  <2> HIDE DEF U, A
  <2>2. Cardinality(kept) <= Cardinality(U)
    BY <1>2, <2>1, FS_Subset
  <2>3. Cardinality(A) = IF Cardinality(U) < limit THEN Cardinality(U) ELSE limit
    BY <1>1, <1>2, <1>3, <2>1, <2>2
  <2> QED  BY <2>3 DEF U, A
<1> QED  BY <1>4, <1>5

(* Two such choices have as many things of each time. *)
LEMMA NewestOfOneTime ==
    ASSUME NEW S, IsFiniteSet(S), NEW time, \A x \in S : time[x] \in Int, NEW limit \in Nat,
           NEW kept, IsNewest(S, time, kept, limit), NEW t \in Int
    PROVE  Cardinality({x \in kept : time[x] = t}) =
              Cardinality({x \in kept : time[x] >= t}) - Cardinality({x \in kept : time[x] >= t + 1})
<1> DEFINE A == {x \in kept : time[x] = t}
           B == {x \in kept : time[x] >= t + 1}
           C == {x \in kept : time[x] >= t}
<1>1. \A x \in kept : time[x] \in Int
  BY DEF IsNewest
<1>2. C = A \cup B /\ A \cap B = {} /\ A \in SUBSET S /\ B \in SUBSET S
  BY <1>1 DEF IsNewest
<1> HIDE DEF A, B, C
<1>3. IsFiniteSet(A) /\ IsFiniteSet(B)
  BY <1>2, FS_Subset
<1>4. Cardinality(C) = Cardinality(A) + Cardinality(B) - Cardinality({})
  BY <1>2, <1>3, FS_Union
<1>5. Cardinality({}) = 0 /\ Cardinality(A) \in Nat /\ Cardinality(B) \in Nat
  BY <1>3, FS_EmptySet, FS_CardinalityType
<1>6. Cardinality(A) = Cardinality(C) - Cardinality(B)
  BY <1>4, <1>5
<1> QED  BY <1>6 DEF A, B, C

LEMMA NewestAgree ==
    ASSUME NEW S, IsFiniteSet(S), NEW time, \A x \in S : time[x] \in Int, NEW limit \in Nat,
           NEW one, IsNewest(S, time, one, limit), NEW other, IsNewest(S, time, other, limit),
           NEW t \in Int
    PROVE  Cardinality({x \in one : time[x] = t}) = Cardinality({x \in other : time[x] = t})
<1>1. t + 1 \in Int
  OBVIOUS
<1>2. ASSUME NEW u \in Int
      PROVE  Cardinality({x \in one : time[x] >= u}) = Cardinality({x \in other : time[x] >= u})
  <2>1. Cardinality({x \in one : time[x] >= u}) =
           IF Cardinality({x \in S : time[x] >= u}) < limit THEN Cardinality({x \in S : time[x] >= u}) ELSE limit
    BY NewestFromATime
  <2>2. Cardinality({x \in other : time[x] >= u}) =
           IF Cardinality({x \in S : time[x] >= u}) < limit THEN Cardinality({x \in S : time[x] >= u}) ELSE limit
    BY NewestFromATime
  <2> QED  BY <2>1, <2>2
<1>3. ASSUME NEW kept, IsNewest(S, time, kept, limit)
      PROVE  Cardinality({x \in kept : time[x] = t}) =
                Cardinality({x \in kept : time[x] >= t}) - Cardinality({x \in kept : time[x] >= t + 1})
  BY <1>3, NewestOfOneTime
<1>4. Cardinality({x \in one : time[x] = t}) =
         Cardinality({x \in one : time[x] >= t}) - Cardinality({x \in one : time[x] >= t + 1})
  BY <1>3
<1>5. Cardinality({x \in other : time[x] = t}) =
         Cardinality({x \in other : time[x] >= t}) - Cardinality({x \in other : time[x] >= t + 1})
  BY <1>3
<1> QED  BY <1>1, <1>2, <1>4, <1>5

(* Under other names they are the newest still. *)
LEMMA NewestRenamed ==
    ASSUME NEW S, IsFiniteSet(S), NEW time, NEW limit \in Nat, NEW kept, IsNewest(S, time, kept, limit),
           NEW R, NEW name \in Bijection(S, R), NEW times, \A x \in S : times[name[x]] = time[x]
    PROVE  IsNewest(R, times, {name[x] : x \in kept}, limit)
<1> DEFINE named == {name[x] : x \in kept}
           on == [x \in kept |-> name[x]]
<1>1. /\ \A x \in S : name[x] \in R
      /\ \A x, y \in S : name[x] = name[y] => x = y
      /\ \A z \in R : \E x \in S : name[x] = z
  BY DEF Bijection, Injection, IsInjective, Surjection
<1>2. kept \in SUBSET S /\ IsFiniteSet(kept)
  BY FS_Subset DEF IsNewest
<1>3. on \in Bijection(kept, named)
  BY <1>1, <1>2 DEF Bijection, Injection, IsInjective, Surjection
<1>4. named \in SUBSET R
  BY <1>1, <1>2
<1>5. \A z \in R \ named, w \in named : times[z] <= times[w]
  <2> SUFFICES ASSUME NEW z \in R \ named, NEW w \in named PROVE times[z] <= times[w]
    OBVIOUS
  <2>1. PICK x \in S : name[x] = z
    BY <1>1
  <2>2. PICK y \in kept : name[y] = w
    OBVIOUS
  <2>3. x \notin kept
    BY <2>1
  <2>4. time[x] <= time[y]
    BY <2>3 DEF IsNewest
  <2> QED  BY <1>2, <2>1, <2>2, <2>4
<1> HIDE DEF named, on
<1>6. Cardinality(named) = Cardinality(kept)
  <2>1. ExistsBijection(kept, named)
    BY <1>3 DEF ExistsBijection
  <2> QED  BY <1>2, <2>1, FS_Bijection
<1>7. Cardinality(R) = Cardinality(S)
  <2>1. ExistsBijection(S, R)
    BY DEF ExistsBijection
  <2> QED  BY <2>1, FS_Bijection
<1>8. IsNewest(R, times, named, limit)
  BY <1>4, <1>5, <1>6, <1>7 DEF IsNewest
<1> QED  BY <1>8 DEF named
-----------------------------------------------------------------------------
(* The heap: what is offered it keeps by time, and gives up the oldest. *)
OfferTimes(offered) == [n \in DOMAIN offered |-> offered[n].entry.ts]

Offered(offered, time) ==
    Len(offered) \in Nat /\ DOMAIN offered = 1 .. Len(offered) /\ time = OfferTimes(offered)
    /\ \A n \in DOMAIN offered : time[n] \in Int

LEMMA OldestInHeap ==
    ASSUME NEW offered, NEW time, Offered(offered, time),
           NEW heap \in SUBSET (1 .. Len(offered)), heap # {}
    PROVE  Oldest(offered, heap) \in heap /\ \A j \in heap : time[Oldest(offered, heap)] <= time[j]
<1> DEFINE N == Len(offered)
<1>1. /\ N \in Nat /\ \A i \in heap : time[i] \in Int /\ i \in 1 .. N
      /\ \A i \in heap : offered[i].entry.ts = time[i]
  BY DEF Offered, OfferTimes
<1>2. IsFiniteSet(heap)
  <2>1. IsFiniteSet(1 .. N)
    BY <1>1, IntervalCount
  <2> QED  BY <2>1, FS_Subset
<1>3. PICK x \in heap : \A y \in heap : time[x] <= time[y]
  BY <1>1, <1>2, FirstAndLast
<1> DEFINE first == {i \in heap : time[i] = time[x]}
<1>4. first \in SUBSET Int /\ IsFiniteSet(first) /\ first # {}
  <2>1. first \in SUBSET heap /\ first # {}
    OBVIOUS
  <2>2. \A i \in heap : i \in Int
    BY <1>1
  <2> HIDE DEF first
  <2> QED  BY <1>2, <2>1, <2>2, FS_Subset
<1>5. PICK i \in first : \A j \in first : i <= j
  <2> HIDE DEF first
  <2> QED  BY <1>4, SmallestOfFinite
<1>6. \A j \in heap : time[i] < time[j] \/ (time[i] = time[j] /\ i <= j)
  BY <1>1, <1>3, <1>5
<1>7. \E k \in heap : \A j \in heap :
         \/ offered[k].entry.ts < offered[j].entry.ts
         \/ offered[k].entry.ts = offered[j].entry.ts /\ k <= j
  <2>1. i \in heap
    OBVIOUS
  <2> HIDE DEF first
  <2> QED  BY <1>1, <1>6, <2>1
<1> DEFINE o == Oldest(offered, heap)
<1>8. o \in heap /\ \A j \in heap :
         \/ offered[o].entry.ts < offered[j].entry.ts
         \/ offered[o].entry.ts = offered[j].entry.ts /\ o <= j
  BY <1>7, Zenon DEF Oldest
<1> HIDE DEF o
<1>9. o \in heap /\ \A j \in heap : time[o] <= time[j]
  BY <1>1, <1>8
<1> QED  BY <1>9 DEF o

(* One more entry is offered. *)
LEMMA OfferKeepsNewest ==
    ASSUME NEW offered, NEW time, Offered(offered, time), NEW limit \in Nat \ {0},
           NEW n \in 1 .. Len(offered), NEW heap, IsNewest(1 .. n - 1, time, heap, limit)
    PROVE  IsNewest(1 .. n, time, Offer(offered, heap, n, limit), limit)
<1> DEFINE N == Len(offered)
           out == Offer(offered, heap, n, limit)
           o == Oldest(offered, heap)
<1>1. /\ N \in Nat /\ n \in Nat /\ n - 1 \in Nat /\ n \in Int /\ \A i \in 1 .. N : time[i] \in Int
      /\ \A i \in 1 .. N : offered[i].entry.ts = time[i]
  BY DEF Offered, OfferTimes
<1>2. /\ heap \in SUBSET (1 .. n - 1) /\ heap \in SUBSET (1 .. N) /\ n \notin heap
      /\ Cardinality(heap) = IF n - 1 < limit THEN n - 1 ELSE limit
      /\ \A x \in 1 .. n - 1, y \in heap : x \notin heap => time[x] <= time[y]
  <2>1. Cardinality(1 .. n - 1) = n - 1
    BY <1>1, IntervalCount
  <2>2. heap \in SUBSET (1 .. n - 1)
    BY DEF IsNewest
  <2>3. heap \in SUBSET (1 .. N) /\ n \notin heap
    BY <1>1, <2>2
  <2> QED  BY <2>1, <2>2, <2>3 DEF IsNewest
<1>3. IsFiniteSet(heap) /\ Cardinality(heap) \in Nat
  BY <1>1, <1>2, IntervalCount, FS_Subset, FS_CardinalityType
<1>4. Cardinality(1 .. n) = n
  BY <1>1, IntervalCount
<1>5. \A x \in 1 .. n : x \in 1 .. n - 1 \/ x = n
  BY <1>1
<1>6. CASE Cardinality(heap) < limit
  <2>1. n - 1 < limit /\ Cardinality(heap) = n - 1
    BY <1>1, <1>2, <1>6
  <2>2. out = heap \cup {n}
    BY <1>6 DEF Offer
  <2>3. Cardinality(heap \cup {n}) = n
    <3>1. Cardinality(heap \cup {n}) = Cardinality(heap) + 1
      BY <1>2, <1>3, FS_AddElement
    <3> QED  BY <1>1, <2>1, <3>1
  <2>4. Cardinality(out) = IF n < limit THEN n ELSE limit
    BY <1>1, <2>1, <2>2, <2>3
  <2>5. out \in SUBSET (1 .. n)
    BY <1>1, <1>2, <2>2
  <2>6. heap = 1 .. n - 1
    <3>1. Cardinality(1 .. n - 1) = Cardinality(heap) /\ IsFiniteSet(1 .. n - 1)
      BY <1>1, <2>1, IntervalCount
    <3> QED  BY <1>2, <3>1, FS_Subset
  <2>7. \A x \in 1 .. n : x \in out
    BY <1>5, <2>2, <2>6
  <2> QED  BY <1>4, <2>4, <2>5, <2>7 DEF IsNewest
<1>7. CASE ~ (Cardinality(heap) < limit)
  <2>1. Cardinality(heap) = limit /\ ~ (n - 1 < limit) /\ ~ (n < limit) /\ heap # {}
    BY <1>1, <1>2, <1>3, <1>7, FS_EmptySet
  <2>2. o \in heap /\ (\A j \in heap : time[o] <= time[j]) /\ o \in 1 .. N
    BY <1>2, <2>1, OldestInHeap
  <2>3. out = IF time[n] > time[o] THEN (heap \ {o}) \cup {n} ELSE heap
    BY <1>1, <1>2, <1>7, <2>2 DEF Offer
  <2> HIDE DEF o, out
  <2>7. \A x : x \in 1 .. n - 1 => x \in 1 .. n
    BY <1>1
  <2>4. ASSUME time[n] > time[o] PROVE IsNewest(1 .. n, time, out, limit)
    <3>1. out = (heap \ {o}) \cup {n}
      BY <2>3, <2>4
    <3>2. IsFiniteSet(heap \ {o}) /\ Cardinality(heap \ {o}) = limit - 1 /\ n \notin heap \ {o}
      BY <1>2, <1>3, <2>1, <2>2, FS_RemoveElement
    <3>3. Cardinality(out) = limit
      <4>1. Cardinality(out) = Cardinality(heap \ {o}) + 1
        BY <3>1, <3>2, FS_AddElement
      <4> QED  BY <3>2, <4>1
    <3>4. out \in SUBSET (1 .. n)
      <4>1. \A x \in heap : x \in 1 .. n
        BY <1>2, <2>7
      <4>2. n \in 1 .. n
        BY <1>1
      <4> QED  BY <3>1, <4>1, <4>2
    <3>5. ASSUME NEW x \in 1 .. n, x \notin out, NEW y \in out PROVE time[x] <= time[y]
      <4>1. x # n /\ x \in 1 .. n - 1 /\ (x \in heap => x = o)
        BY <1>5, <3>1, <3>5
      <4>2. time[x] \in Int /\ time[y] \in Int /\ time[o] \in Int /\ time[n] \in Int
        BY <1>1, <2>2, <3>4
      <4>3. time[x] <= time[o]
        BY <1>2, <2>2, <4>1, <4>2
      <4>4. y = n \/ y \in heap
        BY <3>1
      <4>5. time[o] <= time[y]
        <5>1. CASE y = n
          BY <2>4, <4>2, <5>1
        <5>2. CASE y \in heap
          BY <2>2, <5>2
        <5> QED  BY <4>4, <5>1, <5>2
      <4> QED  BY <4>2, <4>3, <4>5
    <3> QED  BY <1>4, <2>1, <3>3, <3>4, <3>5 DEF IsNewest
  <2>5. ASSUME ~ (time[n] > time[o]) PROVE IsNewest(1 .. n, time, out, limit)
    <3>1. out = heap
      BY <2>3, <2>5
    <3>2. ASSUME NEW x \in 1 .. n, x \notin heap, NEW y \in heap PROVE time[x] <= time[y]
      <4>1. time[n] \in Int /\ time[o] \in Int /\ time[y] \in Int
        BY <1>1, <1>2, <2>2
      <4>2. time[n] <= time[y]
        BY <2>2, <2>5, <4>1
      <4> QED  BY <1>2, <1>5, <3>2, <4>2
    <3>3. heap \in SUBSET (1 .. n)
      BY <1>1, <1>2
    <3> QED  BY <1>4, <2>1, <3>1, <3>2, <3>3 DEF IsNewest
  <2>6. IsNewest(1 .. n, time, out, limit)
    BY <2>4, <2>5
  <2> QED  BY <2>6 DEF out
<1> QED  BY <1>6, <1>7

(* After all entries are offered. *)
LEMMA HeapKeepsNewest ==
    ASSUME NEW offered, NEW time, Offered(offered, time), NEW limit \in Nat \ {0}
    PROVE  IsNewest(1 .. Len(offered), time, Newest(offered, limit), limit)
<1> DEFINE N == Len(offered)
           T == SUBSET (1 .. N)
           value(i, h) == Offer(offered, h, i, limit)
           step == [p \in (1 .. N) \X T |-> value(p[1], p[2])]
           Good(f) == f = [n \in 0 .. N |-> IF n = 0 THEN {} ELSE value(n, f[n - 1])]
           heap == CHOOSE f : Good(f)
<1>1. N \in Nat /\ {} \in T
  BY DEF Offered
<1>2. \A i \in 1 .. N, h \in T : value(i, h) \in T
  BY DEF Offer
<1>3. /\ step \in [(1 .. N) \X T -> T]
      /\ \A i \in 1 .. N, h \in T : step[<<i, h>>] = value(i, h)
  <2> HIDE DEF value, T
  <2> QED  BY <1>2
<1>4. Newest(offered, limit) = heap[N]
  BY DEF Newest
<1> HIDE DEF step
<1>5. \E f : Good(f)
  <2>1. PICK f : f \in [0 .. N -> T] /\ f[0] = {} /\ \A i \in 1 .. N : f[i] = step[<<i, f[i - 1]>>]
    <3> HIDE DEF T
    <3>1. \E f : Stepwise(N, T, {}, step, f)
      BY <1>1, <1>3, StepwiseExists
    <3> QED  BY <3>1 DEF Stepwise
  <2> HIDE DEF value, T
  <2>2. \A i \in 1 .. N : f[i] = value(i, f[i - 1])
    <3>1. \A i \in 1 .. N : f[i - 1] \in T
      BY <1>1, <2>1
    <3> QED  BY <1>3, <2>1, <3>1
  <2>3. \A i \in 0 .. N : f[i] = IF i = 0 THEN {} ELSE value(i, f[i - 1])
    BY <1>1, <2>1, <2>2
  <2>4. f = [n \in 0 .. N |-> IF n = 0 THEN {} ELSE value(n, f[n - 1])]
    BY <2>1, <2>3
  <2> QED  BY <2>4
<1> HIDE DEF Good
<1>6. Good(heap)
  BY <1>5
<1> HIDE DEF heap
<1>7. heap[0] = {} /\ \A n \in 1 .. N : heap[n] = value(n, heap[n - 1])
  <2> HIDE DEF value
  <2>1. \A n \in 0 .. N : heap[n] = IF n = 0 THEN {} ELSE value(n, heap[n - 1])
    BY <1>6 DEF Good
  <2> QED  BY <1>1, <2>1
<1> HIDE DEF value
<1> DEFINE right == {n \in 0 .. N : IsNewest(1 .. n, time, heap[n], limit)}
<1>8. 0 \in right
  <2>1. Cardinality(1 .. 0) = 0 /\ Cardinality({}) = 0
    BY IntervalCount, FS_EmptySet
  <2>2. IsNewest(1 .. 0, time, {}, limit)
    BY <2>1 DEF IsNewest
  <2>3. IsNewest(1 .. 0, time, heap[0], limit)
    BY <1>7, <2>2
  <2>4. 0 \in 0 .. N
    BY <1>1
  <2> QED  BY <2>3, <2>4
<1>9. ASSUME NEW n \in 0 .. N, n \in right, n < N PROVE n + 1 \in right
  <2>1. n + 1 \in 1 .. N /\ (n + 1) - 1 = n /\ n + 1 \in 0 .. N
    BY <1>1, <1>9
  <2>2. heap[n + 1] = value(n + 1, heap[n])
    BY <1>7, <2>1
  <2>3. IsNewest(1 .. (n + 1) - 1, time, heap[n], limit)
    BY <1>9, <2>1
  <2>4. IsNewest(1 .. n + 1, time, heap[n + 1], limit)
    BY <2>1, <2>2, <2>3, OfferKeepsNewest DEF value
  <2> QED  BY <2>1, <2>4
<1>10. \A n \in 0 .. N : n \in right /\ n < N => n + 1 \in right
  BY <1>9
<1> HIDE DEF right
<1>11. \A n \in 0 .. N : n \in right
  BY <1>1, <1>8, <1>10, CountUp
<1>12. N \in right
  BY <1>1, <1>11
<1> QED  BY <1>4, <1>12 DEF right
-----------------------------------------------------------------------------
IsVector(s) == s \in Seq({s[i] : i \in DOMAIN s})

LEMMA VectorDomain ==
    ASSUME NEW s, IsVector(s)
    PROVE  Len(s) \in Nat /\ DOMAIN s = 1 .. Len(s) /\ IsFiniteSet(DOMAIN s)
<1>1. Len(s) \in Nat /\ DOMAIN s = 1 .. Len(s)
  BY DEF IsVector
<1> QED  BY <1>1, IntervalCount

LEMMA FunctionIsVector ==
    ASSUME NEW n \in Nat, NEW s, s = [i \in 1 .. n |-> s[i]]
    PROVE  IsVector(s) /\ Len(s) = n
<1> DEFINE T == {s[i] : i \in DOMAIN s}
<1>1. s \in [1 .. n -> T]
  OBVIOUS
<1> HIDE DEF T
<1>2. s \in Seq(T) /\ Len(s) = n
  BY <1>1
<1> QED  BY <1>2 DEF T, IsVector

(* The entries of groups, each with the stream it is listed under. *)
Members(groups) ==
    UNION {{[id |-> groups[i].id, entry |-> x] : x \in groups[i].entries} : i \in DOMAIN groups}

LEMMA EntriesOfMembers ==
    ASSUME NEW groups
    PROVE  EntriesIn(groups) = {m.entry : m \in Members(groups)}
<1>1. ASSUME NEW x \in EntriesIn(groups) PROVE \E m \in Members(groups) : m.entry = x
  <2>1. PICK i \in DOMAIN groups : x \in groups[i].entries
    BY DEF EntriesIn
  <2>2. [id |-> groups[i].id, entry |-> x] \in Members(groups)
    BY <2>1 DEF Members
  <2> QED  BY <2>2
<1>2. ASSUME NEW m \in Members(groups) PROVE m.entry \in EntriesIn(groups)
  BY DEF Members, EntriesIn
<1> QED  BY <1>1, <1>2

(* Numbers in ascending order. *)
LEMMA AscendingTakesAll ==
    ASSUME NEW S \in SUBSET Int, IsFiniteSet(S)
    PROVE  /\ Cardinality(S) \in Nat /\ DOMAIN Ascending(S) = 1 .. Cardinality(S)
           /\ \A g \in DOMAIN Ascending(S) : Ascending(S)[g] \in S
           /\ \A x \in S : \E g \in DOMAIN Ascending(S) : Ascending(S)[g] = x
           /\ \A g, h \in DOMAIN Ascending(S) : Ascending(S)[g] = Ascending(S)[h] => g = h
<1> DEFINE order == {p \in S \X S : p[1] < p[2]}
<1>1. \A x, y \in S : <<x, y>> \in order <=> x < y
  OBVIOUS
<1>2. Ascending(S) = LineUp(S, order)
  BY DEF Ascending
<1> HIDE DEF order
<1>3. IsLine(S, order)
  BY <1>1 DEF IsLine
<1>4. Cardinality(S) \in Nat /\ Ascending(S) \in Bijection(1 .. Cardinality(S), S)
  BY <1>2, <1>3, LinedUp
<1> QED  BY <1>4 DEF Bijection, Injection, IsInjective, Surjection

(* Chosen entries are regrouped without loss. *)
LEMMA RegroupKeepsAll ==
    ASSUME NEW streams, NEW chosen, IsFiniteSet(chosen),
           \A c \in chosen : c = [id |-> c.id, entry |-> c.entry] /\ c.id \in Int
    PROVE  /\ Members(Regroup(streams, chosen)) = chosen
           /\ IsVector(Regroup(streams, chosen))
           /\ \A g \in DOMAIN Regroup(streams, chosen) : Regroup(streams, chosen)[g].entries # {}
<1> DEFINE S == {c.id : c \in chosen}
           ids == Ascending(S)
           groups == Regroup(streams, chosen)
           here(i) == {c.entry : c \in {d \in chosen : d.id = i}}
<1>1. S \in SUBSET Int /\ IsFiniteSet(S)
  <2>1. [c \in chosen |-> c.id] \in Surjection(chosen, S)
    BY DEF Surjection
  <2> QED  BY <2>1, FS_Surjection
<1>2. /\ Cardinality(S) \in Nat /\ DOMAIN ids = 1 .. Cardinality(S)
      /\ \A g \in DOMAIN ids : ids[g] \in S
      /\ \A x \in S : \E g \in DOMAIN ids : ids[g] = x
  <2> HIDE DEF S
  <2> QED  BY <1>1, AscendingTakesAll
<1>3. groups = [g \in DOMAIN ids |-> Group(streams, ids[g], here(ids[g]))]
  BY DEF Regroup
<1> HIDE DEF ids, groups
<1>4. /\ DOMAIN groups = DOMAIN ids
      /\ \A g \in DOMAIN ids : groups[g].id = ids[g] /\ groups[g].entries = here(ids[g])
  BY <1>3 DEF Group
<1>5. ASSUME NEW m \in Members(groups) PROVE m \in chosen
  <2>1. PICK g \in DOMAIN groups : \E x \in groups[g].entries : m = [id |-> groups[g].id, entry |-> x]
    BY DEF Members
  <2>2. PICK x \in groups[g].entries : m = [id |-> groups[g].id, entry |-> x]
    BY <2>1
  <2>3. PICK c \in chosen : c.id = ids[g] /\ c.entry = x
    BY <1>4, <2>1, <2>2
  <2> QED  BY <1>4, <2>1, <2>2, <2>3
<1>6. ASSUME NEW c \in chosen PROVE c \in Members(groups)
  <2>1. PICK g \in DOMAIN ids : ids[g] = c.id
    BY <1>2
  <2>2. c.entry \in groups[g].entries /\ g \in DOMAIN groups /\ groups[g].id = c.id
    BY <1>4, <2>1
  <2>3. [id |-> groups[g].id, entry |-> c.entry] \in Members(groups)
    BY <2>2 DEF Members
  <2> QED  BY <2>2, <2>3
<1>7. \A g \in DOMAIN groups : groups[g].entries # {}
  <2> SUFFICES ASSUME NEW g \in DOMAIN groups PROVE groups[g].entries # {}
    OBVIOUS
  <2>1. PICK c \in chosen : c.id = ids[g]
    BY <1>2, <1>4
  <2>2. c.entry \in groups[g].entries
    BY <1>4, <2>1
  <2> QED  BY <2>2
<1>8. Members(groups) = chosen
  BY <1>5, <1>6
<1> HIDE DEF S
<1>9. groups = [g \in 1 .. Cardinality(S) |-> groups[g]]
  BY <1>2, <1>3
<1>10. IsVector(groups)
  BY <1>2, <1>9, FunctionIsVector
<1> QED  BY <1>7, <1>8, <1>10 DEF groups
(* Entries of streams that are told apart by their numbers. *)
Apart(C) ==
    /\ IsFiniteSet(C)
    /\ \A c \in C : /\ c = [id |-> c.id, entry |-> c.entry]
                    /\ c.id \in Int /\ c.entry.ts \in Int /\ c.entry.seq \in Int
    /\ \A c, d \in C : c.entry.seq = d.entry.seq => c = d

Moments(C) == [c \in C |-> c.entry.ts]

EntryTimes(F) == [x \in F |-> x.ts]

(* The limit of the response keeps the newest of what it is given. *)
LEMMA FormatKeepsNewest ==
    ASSUME NEW streams, NEW groups, Apart(Members(groups)), NEW limit \in Nat
    PROVE  IsNewest(Members(groups), Moments(Members(groups)),
                    Members(FormatStreams(streams, groups, limit)), limit)
<1> DEFINE C == Members(groups)
           before(d, c) == \/ d.entry.ts > c.entry.ts
                           \/ d.entry.ts = c.entry.ts /\ d.id < c.id
                           \/ /\ d.entry.ts = c.entry.ts /\ d.id = c.id
                              /\ d.entry.seq < c.entry.seq
           first == {c \in C : Cardinality({d \in C : before(d, c)}) < limit}
           order == {p \in C \X C : before(p[1], p[2])}
           out == FormatStreams(streams, groups, limit)
<1>1. /\ IsFiniteSet(C)
      /\ \A c \in C : /\ c = [id |-> c.id, entry |-> c.entry]
                      /\ c.id \in Int /\ c.entry.ts \in Int /\ c.entry.seq \in Int
      /\ \A c, d \in C : c.entry.seq = d.entry.seq => c = d
  BY DEF Apart
<1>2. out = IF Cardinality(C) <= limit THEN groups ELSE Regroup(streams, first)
  BY DEF FormatStreams, Members
<1> HIDE DEF out, C
<1>3. Cardinality(C) \in Nat
  BY <1>1, FS_CardinalityType
<1>4. CASE Cardinality(C) <= limit
  <2>1. Members(out) = C
    BY <1>2, <1>4 DEF C
  <2>2. Cardinality(C) = IF Cardinality(C) < limit THEN Cardinality(C) ELSE limit
    BY <1>3, <1>4
  <2>3. IsNewest(C, Moments(C), Members(out), limit)
    BY <2>1, <2>2 DEF IsNewest
  <2> QED  BY <2>3 DEF out, C
<1>5. CASE ~ (Cardinality(C) <= limit)
  <2>1. \A d, c \in C : <<d, c>> \in order <=> before(d, c)
    OBVIOUS
  <2>2. IsLine(C, order)
    <3>1. \A c \in C : <<c, c>> \notin order
      BY <1>1, <2>1
    <3>2. \A x, y, z \in C : <<x, y>> \in order /\ <<y, z>> \in order => <<x, z>> \in order
      <4>1. ASSUME NEW x \in C, NEW y \in C, NEW z \in C, before(x, y), before(y, z)
            PROVE  before(x, z)
        BY <1>1, <4>1
      <4> HIDE DEF before, order
      <4> QED  BY <2>1, <4>1
    <3>3. \A x, y \in C : x = y \/ <<x, y>> \in order \/ <<y, x>> \in order
      <4>1. ASSUME NEW x \in C, NEW y \in C, x # y PROVE before(x, y) \/ before(y, x)
        <5>1. x.entry.seq # y.entry.seq
          BY <1>1, <4>1
        <5> QED  BY <1>1, <5>1
      <4> HIDE DEF before, order
      <4> QED  BY <2>1, <4>1
    <3> HIDE DEF order
    <3> QED  BY <3>1, <3>2, <3>3 DEF IsLine
  <2>4. \A c, d \in C : before(d, c) => c.entry.ts <= d.entry.ts
    BY <1>1
  <2> HIDE DEF order, before
  <2>3. \A c \in C : {d \in C : before(d, c)} = {d \in C : <<d, c>> \in order}
    <3> SUFFICES ASSUME NEW c \in C
                 PROVE  {d \in C : before(d, c)} = {d \in C : <<d, c>> \in order}
      OBVIOUS
    <3>1. \A d \in C : before(d, c) <=> <<d, c>> \in order
      BY <2>1
    <3> QED  BY <3>1
  <2>5. \A c \in C : Cardinality({d \in C : before(d, c)}) + 1 = Place(C, order, c)
    BY <2>3 DEF Place
  <2>6. /\ \A c \in C : Place(C, order, c) \in 1 .. Cardinality(C)
        /\ \A x, y \in C : <<x, y>> \in order => Place(C, order, x) < Place(C, order, y)
    BY <1>1, <2>2, PlacesFollowTheLine
  <2>7. \A c \in C : IsFiniteSet({d \in C : before(d, c)})
    <3>1. \A c \in C : {d \in C : before(d, c)} \in SUBSET C
      OBVIOUS
    <3> QED  BY <1>1, <3>1, FS_Subset
  <2>8. \A c \in C : Cardinality({d \in C : before(d, c)}) \in Nat
    BY <2>7, FS_CardinalityType
  <2>9. \A c \in C : Cardinality({d \in C : before(d, c)}) < limit <=> Place(C, order, c) <= limit
    BY <2>5, <2>8
  <2>10. first = {c \in C : Place(C, order, c) <= limit}
    BY <2>9
  <2>11. Cardinality(first) = limit
    <3>1. limit \in 0 .. Cardinality(C)
      BY <1>3, <1>5
    <3>2. Cardinality({c \in C : Place(C, order, c) <= limit}) = limit
      BY <1>1, <2>2, <3>1, FirstPlaces
    <3> QED  BY <2>10, <3>2
  <2>12. first \in SUBSET C /\ IsFiniteSet(first)
    <3>1. first \in SUBSET C
      OBVIOUS
    <3> HIDE DEF first
    <3> QED  BY <1>1, <3>1, FS_Subset
  <2>13. \A x \in C \ first, y \in first : x.entry.ts <= y.entry.ts
    <3> SUFFICES ASSUME NEW x \in C \ first, NEW y \in first PROVE x.entry.ts <= y.entry.ts
      OBVIOUS
    <3>1. Place(C, order, y) <= limit /\ ~ (Place(C, order, x) <= limit) /\ x \in C /\ y \in C
      BY <2>10
    <3>2. Place(C, order, x) \in Int /\ Place(C, order, y) \in Int /\ x # y
      BY <2>6, <3>1
    <3>3. <<y, x>> \in order
      <4>1. ~ (<<x, y>> \in order)
        BY <2>6, <3>1, <3>2
      <4> QED  BY <2>2, <3>1, <3>2, <4>1 DEF IsLine
    <3>4. before(y, x)
      <4>1. y \in {d \in C : <<d, x>> \in order}
        BY <3>1, <3>3
      <4>2. y \in {d \in C : before(d, x)}
        BY <2>3, <3>1, <4>1
      <4> QED  BY <4>2
    <3> QED  BY <2>4, <3>1, <3>4
  <2> HIDE DEF first
  <2>14. Members(Regroup(streams, first)) = first
    BY <1>1, <2>12, RegroupKeepsAll
  <2>15. Members(out) = first
    BY <1>2, <1>5, <2>14
  <2>16. \A x \in C \ first, y \in first : Moments(C)[x] <= Moments(C)[y]
    BY <2>12, <2>13 DEF Moments
  <2>17. IsNewest(C, Moments(C), Members(out), limit)
    BY <1>3, <1>5, <2>11, <2>12, <2>15, <2>16 DEF IsNewest
  <2> QED  BY <2>17 DEF out, C
<1> QED  BY <1>4, <1>5

(* By their numbers the entries are known without their streams. *)
LEMMA EntriesAreNewest ==
    ASSUME NEW C, Apart(C), NEW limit \in Nat, NEW kept, IsNewest(C, Moments(C), kept, limit)
    PROVE  LET F == {c.entry : c \in C}
           IN  IsFiniteSet(F) /\ IsNewest(F, EntryTimes(F), {c.entry : c \in kept}, limit)
<1> DEFINE F == {c.entry : c \in C}
           name == [c \in C |-> c.entry]
<1>1. name \in Bijection(C, F)
  BY DEF Apart, Bijection, Injection, IsInjective, Surjection
<1>2. IsFiniteSet(C) /\ kept \in SUBSET C
  BY DEF Apart, IsNewest
<1>3. IsFiniteSet(F)
  <2>1. name \in Surjection(C, F)
    BY <1>1 DEF Bijection
  <2> HIDE DEF name, F
  <2> QED  BY <1>2, <2>1, FS_Surjection
<1>4. \A c \in C : EntryTimes(F)[name[c]] = Moments(C)[c]
  BY DEF EntryTimes, Moments
<1>5. {name[c] : c \in kept} = {c.entry : c \in kept}
  BY <1>2
<1> HIDE DEF name, F
<1>6. IsNewest(F, EntryTimes(F), {name[c] : c \in kept}, limit)
  BY <1>1, <1>2, <1>4, NewestRenamed
<1>7. IsFiniteSet(F) /\ IsNewest(F, EntryTimes(F), {c.entry : c \in kept}, limit)
  BY <1>3, <1>5, <1>6
<1> QED  BY <1>7 DEF F
-----------------------------------------------------------------------------
(* Entries under some labels: their numbers all different and among `used`,
   with the labels among `held`.                                           *)
Numbered(entries, labels, used, held) ==
    /\ IsVector(entries)
    /\ \A k \in DOMAIN entries :
          entries[k].ts \in I64 /\ entries[k].seq \in used /\ <<labels, entries[k]>> \in held
    /\ \A k, l \in DOMAIN entries : entries[k].seq = entries[l].seq => k = l

(* A stream is sorted by time too, and has its labels among `vectors`. *)
StreamKept(stream, used, vectors, held) ==
    /\ stream.labels \in vectors
    /\ Numbered(stream.entries, stream.labels, used, held)
    /\ TimeSorted(stream.entries)

(* A store of such streams, which share neither labels nor numbers. *)
WellKept(streams, used, vectors, held) ==
    /\ IsVector(streams)
    /\ \A i \in DOMAIN streams : StreamKept(streams[i], used, vectors, held)
    /\ \A i, j \in DOMAIN streams :
          /\ streams[i].labels = streams[j].labels => i = j
          /\ \A k \in DOMAIN streams[i].entries, l \in DOMAIN streams[j].entries :
                streams[i].entries[k].seq = streams[j].entries[l].seq => i = j

(* What a query finds, with the stream of each entry. *)
RecordOf(slot) == [id |-> slot[1], entry |-> store[slot[1]].entries[slot[2]]]

Records(e, start, end) == {RecordOf(s) : s \in CandidatesAt(store, e, start, end)}

LEMMA RecordsAreApart ==
    ASSUME NEW used \in SUBSET Int, NEW vectors, NEW held, WellKept(store, used, vectors, held),
           NEW e, NEW start, NEW end
    PROVE  LET S == CandidatesAt(store, e, start, end)
           IN  /\ IsFiniteSet(S)
               /\ \A s \in S : /\ s = <<s[1], s[2]>> /\ s[1] \in Int /\ s[2] \in Int
                               /\ s[1] \in DOMAIN store /\ s[2] \in DOMAIN store[s[1]].entries
               /\ \A s, t \in S : RecordOf(s) = RecordOf(t) => s = t
               /\ Apart(Records(e, start, end))
<1> DEFINE S == CandidatesAt(store, e, start, end)
           C == Records(e, start, end)
           vector == [i \in DOMAIN store |-> store[i].entries]
<1>1. /\ \A i \in DOMAIN store : i \in Int
      /\ \A i \in DOMAIN store : IsVector(store[i].entries)
      /\ IsFiniteSet(DOMAIN store)
  BY VectorDomain DEF WellKept, StreamKept, Numbered
<1>2. \A i \in DOMAIN store :
         /\ \E n \in Nat : DOMAIN store[i].entries = 1 .. n
         /\ \A k \in DOMAIN store[i].entries : k \in Int
  BY <1>1, VectorDomain
<1>3. \A s \in S : /\ s = <<s[1], s[2]>> /\ s[1] \in DOMAIN store
                   /\ s[2] \in DOMAIN store[s[1]].entries
  BY DEF CandidatesAt, Selected, KeptAt
<1>4. IsFiniteSet(S)
  <2>1. IsFiniteSet(Slots(vector))
    BY <1>1, <1>2, SlotsFinite
  <2>2. S \in SUBSET Slots(vector)
    BY <1>3 DEF Slots
  <2> HIDE DEF S, vector
  <2> QED  BY <2>1, <2>2, FS_Subset
<1> HIDE DEF S
<1>5. \A s \in S :
         /\ store[s[1]].entries[s[2]].ts \in Int /\ store[s[1]].entries[s[2]].seq \in Int
  <2>1. \A i \in DOMAIN store : \A k \in DOMAIN store[i].entries :
           store[i].entries[k].ts \in I64 /\ store[i].entries[k].seq \in used
    BY DEF WellKept, StreamKept, Numbered
  <2>2. \A t \in I64 : t \in Int
    BY DEF I64
  <2> QED  BY <1>3, <2>1, <2>2
<1>6. \A s, t \in S :
         store[s[1]].entries[s[2]].seq = store[t[1]].entries[t[2]].seq => s = t
  <2> SUFFICES ASSUME NEW s \in S, NEW t \in S,
                      store[s[1]].entries[s[2]].seq = store[t[1]].entries[t[2]].seq
               PROVE  s = t
    OBVIOUS
  <2>1. s[1] = t[1]
    BY <1>3 DEF WellKept
  <2>2. s[2] = t[2]
    BY <1>3, <2>1 DEF WellKept, StreamKept, Numbered
  <2> QED  BY <1>3, <2>1, <2>2
<1>7. C = {RecordOf(s) : s \in S}
  BY DEF Records, S
<1>8. \A s \in S : /\ RecordOf(s).id = s[1] /\ RecordOf(s).entry = store[s[1]].entries[s[2]]
                   /\ RecordOf(s) = [id |-> RecordOf(s).id, entry |-> RecordOf(s).entry]
  BY DEF RecordOf
<1>9. \A s, t \in S : RecordOf(s).entry.seq = RecordOf(t).entry.seq => s = t
  BY <1>6, <1>8
<1>10. Apart(C)
  <2>1. IsFiniteSet(C)
    <3>1. [s \in S |-> RecordOf(s)] \in Surjection(S, C)
      BY <1>7 DEF Surjection
    <3> HIDE DEF C
    <3> QED  BY <1>4, <3>1, FS_Surjection
  <2>2. \A c \in C : /\ c = [id |-> c.id, entry |-> c.entry]
                     /\ c.id \in Int /\ c.entry.ts \in Int /\ c.entry.seq \in Int
    <3> SUFFICES ASSUME NEW s \in S, NEW c, c = RecordOf(s)
                 PROVE  /\ c = [id |-> c.id, entry |-> c.entry]
                        /\ c.id \in Int /\ c.entry.ts \in Int /\ c.entry.seq \in Int
      BY <1>7
    <3> QED  BY <1>1, <1>3, <1>5, <1>8
  <2>3. \A c, d \in C : c.entry.seq = d.entry.seq => c = d
    <3> SUFFICES ASSUME NEW s \in S, NEW t \in S, RecordOf(s).entry.seq = RecordOf(t).entry.seq
                 PROVE  RecordOf(s) = RecordOf(t)
      BY <1>7
    <3> QED  BY <1>9
  <2> HIDE DEF C
  <2> QED  BY <2>1, <2>2, <2>3 DEF Apart
<1>11. \A s, t \in S : RecordOf(s) = RecordOf(t) => s = t
  BY <1>9
<1>12. \A s \in S : /\ s = <<s[1], s[2]>> /\ s[1] \in Int /\ s[2] \in Int
                    /\ s[1] \in DOMAIN store /\ s[2] \in DOMAIN store[s[1]].entries
  BY <1>1, <1>2, <1>3
<1> HIDE DEF C
<1> QED  BY <1>4, <1>10, <1>11, <1>12 DEF S, C

(* Without a limit a query finds all of them. *)
LEMMA UnlimitedFindsAll ==
    ASSUME NEW used \in SUBSET Int, NEW vectors, NEW held, WellKept(store, used, vectors, held),
           NEW e, NEW start, NEW end
    PROVE  Members(EvaluateUnlimited(store, e, start, end)) = Records(e, start, end)
<1> DEFINE at(i) == KeptAt(store[i], e.stages, start, end)
           S == {i \in Selected(store, e.matchers) : at(i) # {}}
           ids == Ascending(S)
           groups == EvaluateUnlimited(store, e, start, end)
<1>1. S \in SUBSET Int /\ IsFiniteSet(S)
  <2>1. S \in SUBSET DOMAIN store
    BY DEF Selected
  <2>2. IsFiniteSet(DOMAIN store) /\ DOMAIN store \in SUBSET Int
    BY VectorDomain DEF WellKept
  <2> HIDE DEF S
  <2> QED  BY <2>1, <2>2, FS_Subset
<1>2. /\ \A g \in DOMAIN ids : ids[g] \in S
      /\ \A x \in S : \E g \in DOMAIN ids : ids[g] = x
  <2> HIDE DEF S
  <2> QED  BY <1>1, AscendingTakesAll
<1>3. groups = [g \in DOMAIN ids |->
                   Group(store, ids[g], {store[ids[g]].entries[k] : k \in at(ids[g])})]
  BY DEF EvaluateUnlimited
<1> HIDE DEF ids, groups
<1>4. /\ DOMAIN groups = DOMAIN ids
      /\ \A g \in DOMAIN ids :
            /\ groups[g].id = ids[g]
            /\ groups[g].entries = {store[ids[g]].entries[k] : k \in at(ids[g])}
  BY <1>3 DEF Group
<1>5. ASSUME NEW m \in Members(groups) PROVE m \in Records(e, start, end)
  <2>1. PICK g \in DOMAIN groups : \E x \in groups[g].entries : m = [id |-> groups[g].id, entry |-> x]
    BY DEF Members
  <2>2. PICK k \in at(ids[g]) : m = [id |-> ids[g], entry |-> store[ids[g]].entries[k]]
    BY <1>4, <2>1
  <2>3. ids[g] \in Selected(store, e.matchers)
    BY <1>2, <1>4, <2>1
  <2>4. <<ids[g], k>> \in CandidatesAt(store, e, start, end)
    BY <2>2, <2>3 DEF CandidatesAt
  <2>5. m = RecordOf(<<ids[g], k>>)
    BY <2>2 DEF RecordOf
  <2> QED  BY <2>4, <2>5 DEF Records
<1>6. ASSUME NEW m \in Records(e, start, end) PROVE m \in Members(groups)
  <2>1. PICK s \in CandidatesAt(store, e, start, end) : m = RecordOf(s)
    BY DEF Records
  <2>2. PICK i \in Selected(store, e.matchers) : s \in {i} \X at(i)
    BY DEF CandidatesAt
  <2>3. s[1] = i /\ s[2] \in at(i) /\ i \in S
    BY <2>2
  <2>4. PICK g \in DOMAIN ids : ids[g] = i
    BY <1>2, <2>3
  <2> DEFINE x == store[i].entries[s[2]]
  <2>5. x \in groups[g].entries /\ groups[g].id = i /\ g \in DOMAIN groups
    BY <1>4, <2>3, <2>4
  <2>6. m = [id |-> groups[g].id, entry |-> x]
    BY <2>1, <2>3, <2>5 DEF RecordOf
  <2> HIDE DEF x
  <2> QED  BY <2>5, <2>6 DEF Members
<1> QED  BY <1>5, <1>6 DEF groups
(* Positions in order. *)
LEMMA SlotsTakeAll ==
    ASSUME NEW S, IsFiniteSet(S), \A s \in S : s = <<s[1], s[2]>> /\ s[1] \in Int /\ s[2] \in Int
    PROVE  /\ Cardinality(S) \in Nat /\ DOMAIN SlotsInOrder(S) = 1 .. Cardinality(S)
           /\ \A i \in 1 .. Cardinality(S) : SlotsInOrder(S)[i] \in S
           /\ \A i, j \in 1 .. Cardinality(S) : SlotsInOrder(S)[i] = SlotsInOrder(S)[j] => i = j
           /\ \A s \in S : \E i \in 1 .. Cardinality(S) : SlotsInOrder(S)[i] = s
<1> DEFINE order == {p \in S \X S : Follows(p[2], p[1])}
<1>1. SlotsInOrder(S) = LineUp(S, order)
  BY DEF SlotsInOrder
<1>2. \A x, y \in S : <<x, y>> \in order <=> x[1] < y[1] \/ (x[1] = y[1] /\ x[2] < y[2])
  BY DEF Follows
<1> HIDE DEF order
<1>3. IsLine(S, order)
  <2>1. \A x, y \in S : x = y \/ <<x, y>> \in order \/ <<y, x>> \in order
    <3> SUFFICES ASSUME NEW x \in S, NEW y \in S, x # y PROVE <<x, y>> \in order \/ <<y, x>> \in order
      OBVIOUS
    <3>1. x[1] # y[1] \/ x[2] # y[2]
      OBVIOUS
    <3> QED  BY <1>2, <3>1
  <2>2. \A x \in S : <<x, x>> \notin order
    BY <1>2
  <2>3. \A x, y, z \in S : <<x, y>> \in order /\ <<y, z>> \in order => <<x, z>> \in order
    BY <1>2
  <2> QED  BY <2>1, <2>2, <2>3 DEF IsLine
<1>4. Cardinality(S) \in Nat /\ SlotsInOrder(S) \in Bijection(1 .. Cardinality(S), S)
  BY <1>1, <1>3, LinedUp
<1> QED  BY <1>4 DEF Bijection, Injection, IsInjective, Surjection

(* With one the heap has the newest of them. *)
LEMMA LimitedFindsNewest ==
    ASSUME NEW used \in SUBSET Int, NEW vectors, NEW held, WellKept(store, used, vectors, held),
           NEW e, NEW start, NEW end, NEW limit \in Nat
    PROVE  LET C == Records(e, start, end)
               groups == EvaluateLimited(store, e, start, end, limit)
           IN  /\ IsNewest(C, Moments(C), Members(groups), limit)
               /\ IsVector(groups)
               /\ \A g \in DOMAIN groups : groups[g].entries # {}
<1> DEFINE S == CandidatesAt(store, e, start, end)
           C == Records(e, start, end)
           groups == EvaluateLimited(store, e, start, end, limit)
           slots == SlotsInOrder(S)
           n == Cardinality(S)
           offered == Candidates(store, e, start, end)
           time == OfferTimes(offered)
           chosen == {offered[i] : i \in Newest(offered, limit)}
<1>1. /\ IsFiniteSet(S)
      /\ \A s \in S : s = <<s[1], s[2]>> /\ s[1] \in Int /\ s[2] \in Int
      /\ \A s, t \in S : RecordOf(s) = RecordOf(t) => s = t
      /\ Apart(C)
  BY RecordsAreApart
<1>2. C = {RecordOf(s) : s \in S}
  BY DEF Records
<1>3. groups = IF limit = 0 THEN << >> ELSE Regroup(store, chosen)
  BY DEF EvaluateLimited
<1>5. offered = [i \in DOMAIN slots |-> RecordOf(slots[i])]
  BY DEF Candidates, RecordOf
<1> HIDE DEF S, C, groups
<1>8. n \in Nat
  BY <1>1, FS_CardinalityType
<1>9. /\ DOMAIN slots = 1 .. n /\ \A i \in 1 .. n : slots[i] \in S
      /\ \A i, j \in 1 .. n : slots[i] = slots[j] => i = j
      /\ \A s \in S : \E i \in 1 .. n : slots[i] = s
  BY <1>1, SlotsTakeAll
<1> HIDE DEF slots
<1>10. /\ offered = [i \in 1 .. n |-> RecordOf(slots[i])]
       /\ \A i \in 1 .. n : offered[i] = RecordOf(slots[i])
  BY <1>5, <1>9
<1>11. offered \in Bijection(1 .. n, C)
  <2>1. \A i \in 1 .. n : offered[i] \in C
    BY <1>2, <1>9, <1>10
  <2>2. \A i, j \in 1 .. n : offered[i] = offered[j] => i = j
    BY <1>1, <1>9, <1>10
  <2>3. \A c \in C : \E i \in 1 .. n : offered[i] = c
    BY <1>2, <1>9, <1>10
  <2>4. offered \in [1 .. n -> C]
    BY <1>10, <2>1
  <2> HIDE DEF offered
  <2> QED  BY <2>2, <2>3, <2>4 DEF Bijection, Injection, IsInjective, Surjection
<1>12. offered \in Seq(C) /\ Len(offered) = n /\ DOMAIN offered = 1 .. n
  <2>1. offered \in [1 .. n -> C]
    BY <1>11 DEF Bijection, Injection
  <2> HIDE DEF offered
  <2> QED  BY <1>8, <2>1
<1> HIDE DEF offered, n
<1>13. \A i \in 1 .. n : /\ time[i] = offered[i].entry.ts /\ offered[i] \in C
                         /\ time[i] \in Int /\ Moments(C)[offered[i]] = time[i]
  BY <1>1, <1>11, <1>12 DEF OfferTimes, Moments, Apart, Bijection, Injection
<1>14. Offered(offered, time)
  BY <1>8, <1>12, <1>13 DEF Offered
<1>15. IsFiniteSet(C)
  BY <1>1 DEF Apart
<1> HIDE DEF time
<1>16. CASE limit = 0
  <2>1. groups = << >> /\ Members(groups) = {}
    BY <1>3, <1>16 DEF Members
  <2>2. Cardinality(C) \in Nat /\ Cardinality({}) = 0
    BY <1>15, FS_CardinalityType, FS_EmptySet
  <2>3. IsNewest(C, Moments(C), Members(groups), limit)
    <3>1. Cardinality({}) = IF Cardinality(C) < limit THEN Cardinality(C) ELSE limit
      BY <1>16, <2>2
    <3> QED  BY <2>1, <3>1 DEF IsNewest
  <2>4. IsVector(groups)
    BY <2>1 DEF IsVector
  <2>5. \A g \in DOMAIN groups : groups[g].entries # {}
    BY <2>1
  <2> QED  BY <2>3, <2>4, <2>5 DEF C, groups
<1>17. CASE limit # 0
  <2>1. IsNewest(1 .. n, time, Newest(offered, limit), limit)
    BY <1>12, <1>14, <1>17, HeapKeepsNewest
  <2>2. IsFiniteSet(1 .. n)
    BY <1>8, IntervalCount
  <2> DEFINE kept == Newest(offered, limit)
  <2>8. \A i \in 1 .. n : Moments(C)[offered[i]] = time[i]
    BY <1>13
  <2>10. IsNewest(1 .. n, time, kept, limit)
    BY <2>1
  <2> DEFINE moments == Moments(C)
             numbers == 1 .. n
  <2> HIDE DEF kept, moments, numbers
  <2>11. \A i \in numbers : moments[offered[i]] = time[i]
    BY <2>8 DEF moments, numbers
  <2>13. offered \in Bijection(numbers, C) /\ IsFiniteSet(numbers) /\ IsNewest(numbers, time, kept, limit)
    BY <1>11, <2>2, <2>10 DEF numbers
  <2>12. IsNewest(C, moments, {offered[i] : i \in kept}, limit)
    BY <2>11, <2>13, NewestRenamed
  <2>9. IsNewest(C, Moments(C), {offered[i] : i \in kept}, limit)
    BY <2>12 DEF moments
  <2>3. IsNewest(C, Moments(C), chosen, limit)
    BY <2>9 DEF kept
  <2> HIDE DEF chosen
  <2>4. chosen \in SUBSET C /\ IsFiniteSet(chosen)
    BY <1>15, <2>3, FS_Subset DEF IsNewest
  <2>5. \A c \in chosen : c = [id |-> c.id, entry |-> c.entry] /\ c.id \in Int
    BY <1>1, <2>4 DEF Apart
  <2>6. groups = Regroup(store, chosen)
    BY <1>3, <1>17
  <2>7. /\ Members(groups) = chosen
        /\ IsVector(groups)
        /\ \A g \in DOMAIN groups : groups[g].entries # {}
    BY <2>4, <2>5, <2>6, RegroupKeepsAll
  <2> QED  BY <2>3, <2>7 DEF C, groups
<1> QED  BY <1>16, <1>17
-----------------------------------------------------------------------------
(* NewestAreKept, of such a store. *)
LEMMA NewestAreKeptNow ==
    ASSUME NEW used \in SUBSET Int, NEW vectors, NEW held, WellKept(store, used, vectors, held)
    PROVE  NewestAreKept
<1> SUFFICES ASSUME NEW query \in StreamQueries, NEW limit \in Limits
             PROVE  LET all == EvaluateUnlimited(store, query, Earliest, MaxI64)
                        found == EntriesIn(all)
                        groups == Evaluate(store, query, Earliest, MaxI64, << >>, limit).result
                        kept == EntriesIn(groups)
                        formatted == EntriesIn(FormatStreams(store, all, limit))
                        at(entries, t) == Cardinality({x \in entries : x.ts = t})
                    IN  /\ kept \subseteq found
                        /\ Cardinality(kept) = IF Cardinality(found) < limit THEN Cardinality(found) ELSE limit
                        /\ ~\E x \in found \ kept, y \in kept : Newer(x, y)
                        /\ \A x \in found : at(kept, x.ts) = at(formatted, x.ts)
                        /\ \A g \in ToSet(groups) : g.entries \subseteq ToSet(store[g.id].entries)
  BY DEF NewestAreKept
<1> DEFINE C == Records(query, Earliest, MaxI64)
           all == EvaluateUnlimited(store, query, Earliest, MaxI64)
           found == EntriesIn(all)
           limited == EvaluateLimited(store, query, Earliest, MaxI64, limit)
           groups == Evaluate(store, query, Earliest, MaxI64, << >>, limit).result
           kept == EntriesIn(groups)
           shown == FormatStreams(store, all, limit)
           formatted == EntriesIn(shown)
<1>1. limit \in Nat /\ query.is = "streams"
  BY RequestConstants
<1>2. Apart(C)
  BY RecordsAreApart
<1>3. \A c \in C : c.id \in DOMAIN store /\ c.entry \in ToSet(store[c.id].entries)
  <2> SUFFICES ASSUME NEW s \in CandidatesAt(store, query, Earliest, MaxI64)
               PROVE  /\ RecordOf(s).id \in DOMAIN store
                      /\ RecordOf(s).entry \in ToSet(store[RecordOf(s).id].entries)
    BY DEF Records
  <2>1. s[1] \in DOMAIN store /\ s[2] \in DOMAIN store[s[1]].entries
    BY RecordsAreApart
  <2> QED  BY <2>1 DEF RecordOf, ToSet
<1>4. Members(all) = C
  BY UnlimitedFindsAll
<1>5. IsNewest(C, Moments(C), Members(limited), limit)
  BY <1>1, LimitedFindsNewest
<1>6. groups = FormatStreams(store, limited, limit)
  BY <1>1 DEF Evaluate
<1>7. IsNewest(C, Moments(C), Members(shown), limit)
  BY <1>1, <1>2, <1>4, FormatKeepsNewest
<1> HIDE DEF C, all, limited, groups, shown
<1>8. IsFiniteSet(C) /\ Cardinality(C) \in Nat
  BY <1>2, FS_CardinalityType DEF Apart
<1>9. groups = limited
  <2>1. Cardinality(Members(limited)) <= limit
    BY <1>1, <1>5, <1>8 DEF IsNewest
  <2> QED  BY <1>6, <2>1 DEF FormatStreams, Members
<1>10. /\ found = {c.entry : c \in C} /\ kept = {c.entry : c \in Members(groups)}
       /\ formatted = {c.entry : c \in Members(shown)}
  BY <1>4, EntriesOfMembers
<1> HIDE DEF found, kept, formatted
<1>11. IsFiniteSet(found) /\ IsNewest(found, EntryTimes(found), kept, limit)
  BY <1>1, <1>2, <1>5, <1>9, <1>10, EntriesAreNewest
<1>12. IsNewest(found, EntryTimes(found), formatted, limit)
  BY <1>1, <1>2, <1>7, <1>10, EntriesAreNewest
<1>13. \A x \in found : x.ts \in Int /\ EntryTimes(found)[x] = x.ts
  BY <1>2, <1>10 DEF Apart, EntryTimes
<1>14. kept \subseteq found /\ formatted \subseteq found
  BY <1>11, <1>12 DEF IsNewest
<1>15. Cardinality(kept) = IF Cardinality(found) < limit THEN Cardinality(found) ELSE limit
  BY <1>11 DEF IsNewest
<1>16. ~\E x \in found \ kept, y \in kept : Newer(x, y)
  <2> SUFFICES ASSUME NEW x \in found \ kept, NEW y \in kept, Newer(x, y) PROVE FALSE
    OBVIOUS
  <2>1. EntryTimes(found)[x] <= EntryTimes(found)[y]
    BY <1>11 DEF IsNewest
  <2> QED  BY <1>13, <1>14, <2>1 DEF Newer
<1>17. \A x \in found : Cardinality({y \in kept : y.ts = x.ts}) = Cardinality({y \in formatted : y.ts = x.ts})
  <2> SUFFICES ASSUME NEW x \in found
               PROVE  Cardinality({y \in kept : y.ts = x.ts}) = Cardinality({y \in formatted : y.ts = x.ts})
    OBVIOUS
  <2> DEFINE time == EntryTimes(found)
             t == x.ts
  <2>1. \A y \in found : time[y] \in Int /\ time[y] = y.ts
    BY <1>13
  <2>2. t \in Int
    BY <1>13
  <2> HIDE DEF time, t
  <2>3. Cardinality({y \in kept : time[y] = t}) = Cardinality({y \in formatted : time[y] = t})
    BY <1>1, <1>11, <1>12, <2>1, <2>2, NewestAgree DEF time
  <2>4. /\ {y \in kept : time[y] = t} = {y \in kept : y.ts = t}
        /\ {y \in formatted : time[y] = t} = {y \in formatted : y.ts = t}
    BY <1>14, <2>1
  <2>5. Cardinality({y \in kept : y.ts = t}) = Cardinality({y \in formatted : y.ts = t})
    BY <2>3, <2>4
  <2> QED  BY <2>5 DEF t
<1>18. \A g \in ToSet(groups) : g.entries \subseteq ToSet(store[g.id].entries)
  <2> SUFFICES ASSUME NEW i \in DOMAIN groups, NEW x \in groups[i].entries
               PROVE  x \in ToSet(store[groups[i].id].entries)
    BY DEF ToSet
  <2>1. [id |-> groups[i].id, entry |-> x] \in Members(groups)
    BY DEF Members
  <2>2. Members(groups) \in SUBSET C
    BY <1>5, <1>9 DEF IsNewest
  <2>3. [id |-> groups[i].id, entry |-> x] \in C
    BY <2>1, <2>2
  <2> QED  BY <1>3, <2>3
<1> QED  BY <1>14, <1>15, <1>16, <1>17, <1>18 DEF all, found, groups, kept, shown, formatted

(* QueryLogsIsHonest, of such a store. *)
LEMMA QueryLogsHonestNow ==
    ASSUME NEW used \in SUBSET Int, NEW vectors, NEW held, WellKept(store, used, vectors, held)
    PROVE  QueryLogsIsHonest
<1> SUFFICES ASSUME NEW query \in StreamQueries, NEW asked \in {<< >>} \cup {<<n>> : n \in Limits},
                    NEW a \in QueryLogs(store, query, asked)
             PROVE  LET found == Found(query)
                        limit == QueryLogsLimit(asked)
                    IN  /\ a.logs \subseteq found
                        /\ a.total_count = Cardinality(found)
                        /\ a.truncated <=> a.total_count > limit
                        /\ a.shown = IF a.truncated THEN limit ELSE a.total_count
                        /\ Cardinality({x \in found \ a.logs : \E y \in a.logs : Newer(x, y)}) <= 1
  BY DEF QueryLogsIsHonest
<1> DEFINE C == Records(query, Earliest, MaxI64)
           all == EvaluateUnlimited(store, query, Earliest, MaxI64)
           found == EntriesIn(all)
           limit == QueryLogsLimit(asked)
           groups == EvaluateLimited(store, query, Earliest, MaxI64, limit + 1)
           kept == EntriesIn(groups)
           number == Cardinality(kept)
           truncated == number > limit
           total == IF truncated THEN Cardinality(found) ELSE number
           missed == {x \in found \ a.logs : \E y \in a.logs : Newer(x, y)}
<1>1. limit \in Nat
  <2>1. asked = << >> \/ (asked[1] \in Limits)
    OBVIOUS
  <2> QED  BY <2>1, RequestConstants, LogQLConstants DEF QueryLogsLimit
<1>2. Apart(C)
  BY RecordsAreApart
<1>3. Members(all) = C
  BY UnlimitedFindsAll
<1> HIDE DEF limit
<1>4. /\ IsNewest(C, Moments(C), Members(groups), limit + 1)
      /\ IsVector(groups)
      /\ \A g \in DOMAIN groups : groups[g].entries # {}
  BY <1>1, LimitedFindsNewest
<1>5. PICK shown \in IF truncated THEN Truncated(groups) ELSE {kept} :
         a = [logs |-> shown, shown |-> Cardinality(shown), total_count |-> total, truncated |-> truncated]
  <2>1. query.is = "streams"
    BY RequestConstants
  <2> QED  BY <2>1, Zenon DEF QueryLogs, Probe, Earliest, limit
<1>6. Found(query) = found
  BY DEF Found
<1> HIDE DEF C, all, groups
<1>7. found = {c.entry : c \in C} /\ kept = {c.entry : c \in Members(groups)}
  BY <1>3, EntriesOfMembers
<1> HIDE DEF found, kept
<1>8. IsFiniteSet(found) /\ IsNewest(found, EntryTimes(found), kept, limit + 1)
  BY <1>1, <1>2, <1>4, <1>7, EntriesAreNewest
<1>9. \A x \in found : x.ts \in Int /\ EntryTimes(found)[x] = x.ts
  BY <1>2, <1>7 DEF Apart, EntryTimes
<1>10. /\ kept \in SUBSET found /\ IsFiniteSet(kept)
       /\ number = IF Cardinality(found) < limit + 1 THEN Cardinality(found) ELSE limit + 1
       /\ \A x \in found \ kept, y \in kept : EntryTimes(found)[x] <= EntryTimes(found)[y]
  BY <1>8, FS_Subset DEF IsNewest
<1>11. Cardinality(found) \in Nat /\ number \in Nat
  BY <1>8, <1>10, FS_CardinalityType
<1>12. (truncated <=> Cardinality(found) > limit) /\ total = Cardinality(found)
  BY <1>1, <1>10, <1>11
<1>13. \A x \in found \ kept, y \in kept : ~ Newer(x, y)
  BY <1>9, <1>10 DEF Newer
<1> HIDE DEF number, total, truncated
<1>14. a.logs = shown /\ a.shown = Cardinality(shown) /\ a.total_count = total /\ a.truncated = truncated
  BY <1>5
<1>15. CASE ~ truncated
  <2>1. shown = kept
    BY <1>5, <1>15
  <2>2. missed = {}
    BY <1>13, <1>14, <2>1
  <2>3. Cardinality(missed) <= 1
    <3> HIDE DEF missed
    <3>1. Cardinality({}) = 0
      BY FS_EmptySet
    <3> QED  BY <2>2, <3>1
  <2>4. Cardinality(shown) = total
    BY <1>15, <2>1 DEF total, number
  <2> HIDE DEF missed
  <2>5. /\ a.logs \subseteq found /\ a.total_count = Cardinality(found)
        /\ (a.truncated <=> a.total_count > limit)
        /\ a.shown = IF a.truncated THEN limit ELSE a.total_count
    BY <1>10, <1>12, <1>14, <1>15, <2>1, <2>4
  <2> QED  BY <1>6, <2>3, <2>5 DEF missed, limit
<1>16. CASE truncated
  <2>1. number = limit + 1 /\ kept # {}
    <3>1. number = limit + 1
      BY <1>1, <1>10, <1>11, <1>16 DEF truncated
    <3>2. Cardinality({}) = 0
      BY FS_EmptySet
    <3>3. ASSUME kept = {} PROVE FALSE
      BY <1>1, <3>1, <3>2, <3>3 DEF number
    <3> QED  BY <3>1, <3>3
  <2>2. Len(groups) \in Nat /\ DOMAIN groups = 1 .. Len(groups)
    BY <1>4, VectorDomain
  <2>3. \A g \in DOMAIN groups : groups[g].entries \in SUBSET kept
    BY DEF kept, EntriesIn
  <2>4. PICK x \in kept : shown = kept \ {x}
    <3>1. shown \in Truncated(groups)
      BY <1>5, <1>16
    <3>2. Len(groups) \in DOMAIN groups
      <4>1. Len(groups) # 0
        BY <2>1, <2>2 DEF kept, EntriesIn
      <4> QED  BY <2>2, <4>1
    <3>3. PICK x \in groups[Len(groups)].entries : shown = EntriesIn(groups) \ {x}
      BY <3>1 DEF Truncated
    <3> QED  BY <2>3, <3>2, <3>3 DEF kept
  <2>5. Cardinality(shown) = limit
    <3>1. Cardinality(kept \ {x}) = Cardinality(kept) - 1
      BY <1>10, FS_RemoveElement
    <3> QED  BY <1>1, <2>1, <2>4, <3>1 DEF number
  <2>6. missed \in SUBSET {x}
    BY <1>13, <1>14, <2>4
  <2> HIDE DEF missed
  <2>7. Cardinality(missed) <= 1
    <3>1. IsFiniteSet({x}) /\ Cardinality({x}) = 1
      BY FS_Singleton
    <3>2. Cardinality(missed) <= Cardinality({x})
      BY <2>6, <3>1, FS_Subset
    <3> QED  BY <3>1, <3>2
  <2>8. /\ a.logs \subseteq found /\ a.total_count = Cardinality(found)
        /\ (a.truncated <=> a.total_count > limit)
        /\ a.shown = IF a.truncated THEN limit ELSE a.total_count
    BY <1>10, <1>12, <1>14, <1>16, <2>4, <2>5
  <2> QED  BY <1>6, <2>7, <2>8 DEF missed, limit
<1> QED  BY <1>15, <1>16
-----------------------------------------------------------------------------
(* ingest_stream keeps a store well: of a batch whose numbers are new, sorted
   in, and of the one stream that has its labels.                          *)
ComesFrom(out, items, batch) ==
    \A k \in DOMAIN out : \/ \E i \in DOMAIN items : items[i] = out[k]
                          \/ \E i \in DOMAIN batch : batch[i] = out[k]

LEMMA BatchIsSortedIn ==
    ASSUME NEW used, NEW fresh, used \cap fresh = {}, NEW labels, NEW held,
           NEW items, Numbered(items, labels, used, held), TimeSorted(items),
           NEW batch, Numbered(batch, labels, fresh, held)
    PROVE  /\ Numbered(AppendBatch(items, batch), labels, used \cup fresh, held)
           /\ TimeSorted(AppendBatch(items, batch))
           /\ ComesFrom(AppendBatch(items, batch), items, batch)
<1> DEFINE T == {items[i] : i \in DOMAIN items} \cup {batch[i] : i \in DOMAIN batch}
           s == items \o batch
           n == Len(items)
           m == Len(batch)
           out == AppendBatch(items, batch)
<1>1. /\ n \in Nat /\ m \in Nat /\ DOMAIN items = 1 .. n /\ DOMAIN batch = 1 .. m
      /\ items \in Seq(T) /\ batch \in Seq(T)
  <2>1. /\ n \in Nat /\ m \in Nat /\ DOMAIN items = 1 .. n /\ DOMAIN batch = 1 .. m
    BY VectorDomain DEF Numbered
  <2>2. \A i \in 1 .. n : items[i] \in T
    BY <2>1
  <2>3. \A i \in 1 .. m : batch[i] \in T
    BY <2>1
  <2>4. items = [i \in 1 .. n |-> items[i]] /\ batch = [i \in 1 .. m |-> batch[i]]
    BY DEF Numbered, IsVector
  <2> HIDE DEF T, n, m
  <2>5. items \in [1 .. n -> T] /\ batch \in [1 .. m -> T]
    BY <2>2, <2>3, <2>4
  <2>6. items \in Seq(T) /\ batch \in Seq(T)
    BY <2>1, <2>5
  <2> QED  BY <2>1, <2>6
<1>3. \A x \in T : x.ts \in I64 /\ x.seq \in used \cup fresh /\ <<labels, x>> \in held
  BY DEF Numbered
<1>2. \A x \in T : x.ts \in Int
  <2>1. \A t \in I64 : t \in Int
    BY DEF I64
  <2> HIDE DEF T
  <2> QED  BY <1>3, <2>1
<1>4. \A i \in 1 .. n : items[i].seq \in used /\ items[i].seq \notin fresh
  BY <1>1 DEF Numbered
<1>5. \A i \in 1 .. m : batch[i].seq \in fresh
  BY <1>1 DEF Numbered
<1>6. \A i, j \in 1 .. n : items[i].seq = items[j].seq => i = j
  BY <1>1 DEF Numbered
<1>7. \A i, j \in 1 .. m : batch[i].seq = batch[j].seq => i = j
  BY <1>1 DEF Numbered
<1>8. PICK from : Rearranges(from, s, out)
  <2> HIDE DEF T
  <2> QED  BY <1>1, <1>2, AppendBatchIsPermutation
<1> HIDE DEF T, n, m, s, out
<1>9. /\ s \in Seq(T) /\ Len(s) = n + m
      /\ \A i \in 1 .. n + m : s[i] = IF i <= n THEN items[i] ELSE batch[i - n]
  BY <1>1 DEF s, n, m
<1>10. \A i, j \in 1 .. n + m : s[i].seq = s[j].seq => i = j
  <2> SUFFICES ASSUME NEW i \in 1 .. n + m, NEW j \in 1 .. n + m, s[i].seq = s[j].seq PROVE i = j
    OBVIOUS
  <2>1. CASE i <= n /\ j <= n
    BY <1>1, <1>6, <1>9, <2>1
  <2>2. CASE i <= n /\ ~ (j <= n)
    <3>1. j - n \in 1 .. m /\ i \in 1 .. n /\ s[i] = items[i] /\ s[j] = batch[j - n]
      BY <1>1, <1>9, <2>2
    <3> QED  BY <1>4, <1>5, <3>1
  <2>3. CASE ~ (i <= n) /\ j <= n
    <3>1. i - n \in 1 .. m /\ j \in 1 .. n /\ s[j] = items[j] /\ s[i] = batch[i - n]
      BY <1>1, <1>9, <2>3
    <3> QED  BY <1>4, <1>5, <3>1
  <2>4. CASE ~ (i <= n) /\ ~ (j <= n)
    <3>1. i - n \in 1 .. m /\ j - n \in 1 .. m /\ s[i] = batch[i - n] /\ s[j] = batch[j - n]
      BY <1>1, <1>9, <2>4
    <3>2. i - n = j - n
      BY <1>7, <3>1
    <3> QED  BY <1>1, <3>2
  <2> QED  BY <2>1, <2>2, <2>3, <2>4
<1>11. /\ out = [r \in 1 .. n + m |-> s[from[r]]]
       /\ \A r \in 1 .. n + m : from[r] \in 1 .. n + m
       /\ \A r, q \in 1 .. n + m : from[r] = from[q] => r = q
       /\ \A r, q \in 1 .. n + m : r < q => SortsBefore(s, from[r], from[q])
  BY <1>8, <1>9 DEF Rearranges, Bijection, Injection, IsInjective
<1>12. n + m \in Nat /\ \A i \in 1 .. n + m : s[i] \in T
  BY <1>1, <1>9
<1>13. IsVector(out) /\ Len(out) = n + m /\ DOMAIN out = 1 .. n + m
  <2>1. out = [r \in 1 .. n + m |-> out[r]]
    BY <1>11
  <2> QED  BY <1>12, <2>1, FunctionIsVector
<1>14. \A r \in 1 .. n + m : out[r] = s[from[r]] /\ out[r] \in T
  BY <1>11, <1>12
<1>15. TimeSorted(out)
  <2>1. \A r, q \in 1 .. n + m : r < q => s[from[r]].ts <= s[from[q]].ts
    BY <1>2, <1>11, <1>12 DEF SortsBefore
  <2> QED  BY <1>13, <1>14, <2>1 DEF TimeSorted
<1>16. \A r, q \in 1 .. n + m : out[r].seq = out[q].seq => r = q
  BY <1>10, <1>11, <1>14
<1>17. Numbered(out, labels, used \cup fresh, held)
  BY <1>3, <1>13, <1>14, <1>16 DEF Numbered
<1>18. ComesFrom(out, items, batch)
  BY <1>13, <1>14 DEF ComesFrom, T
<1> QED  BY <1>15, <1>17, <1>18 DEF out

LEMMA KeptWithMore ==
    ASSUME NEW used, NEW vectors, NEW held, NEW more, used \subseteq more,
           NEW vectorsToo, vectors \subseteq vectorsToo, NEW heldToo, held \subseteq heldToo,
           NEW streams, WellKept(streams, used, vectors, held)
    PROVE  WellKept(streams, more, vectorsToo, heldToo)
BY DEF WellKept, StreamKept, Numbered

LEMMA IngestKeepsWell ==
    ASSUME NEW used, NEW fresh, used \cap fresh = {}, NEW vectors, NEW held,
           NEW streams, WellKept(streams, used, vectors, held),
           NEW pairs, LabelVector(pairs) \in vectors,
           NEW batch, Numbered(batch, LabelVector(pairs), fresh, held)
    PROVE  WellKept(IngestStream(streams, pairs, batch), used \cup fresh, vectors, held)
<1> DEFINE labels == LabelVector(pairs)
           known == {i \in DOMAIN streams : streams[i].labels = labels}
           all == used \cup fresh
           n == Len(streams)
           new == [labels |-> labels, entries |-> AppendBatch(<< >>, batch)]
           at(i) == [labels |-> labels, entries |-> AppendBatch(streams[i].entries, batch)]
           out == IngestStream(streams, pairs, batch)
<1>1. out = IF known = {} THEN Append(streams, new)
            ELSE [i \in DOMAIN streams |-> IF i \in known THEN at(i) ELSE streams[i]]
  BY DEF IngestStream
<1>2. n \in Nat /\ DOMAIN streams = 1 .. n
  BY VectorDomain DEF WellKept
<1>3. WellKept(streams, all, vectors, held)
  BY KeptWithMore
<1>4. /\ \A i \in 1 .. n : StreamKept(streams[i], all, vectors, held)
      /\ \A i, j \in 1 .. n : streams[i].labels = streams[j].labels => i = j
      /\ \A i, j \in 1 .. n : i # j =>
            \A k \in DOMAIN streams[i].entries, l \in DOMAIN streams[j].entries :
               streams[i].entries[k].seq # streams[j].entries[l].seq
  BY <1>2, <1>3 DEF WellKept
<1>5. \A i \in 1 .. n : \A k \in DOMAIN streams[i].entries : streams[i].entries[k].seq \in used
  BY <1>2 DEF WellKept, StreamKept, Numbered
<1> HIDE DEF out, new, at, labels
<1>6. CASE known = {}
  <2>1. Numbered(<< >>, labels, {}, held) /\ TimeSorted(<< >>)
    BY DEF Numbered, IsVector, TimeSorted
  <2>2. Numbered(batch, labels, fresh, held)
    BY DEF labels
  <2>3. /\ Numbered(AppendBatch(<< >>, batch), labels, {} \cup fresh, held)
        /\ TimeSorted(AppendBatch(<< >>, batch))
    BY <2>1, <2>2, BatchIsSortedIn
  <2>4. /\ new.labels = labels /\ new.entries = AppendBatch(<< >>, batch)
    BY DEF new
  <2>5. StreamKept(new, all, vectors, held)
    BY <2>3, <2>4 DEF StreamKept, Numbered, labels
  <2>6. \A l \in DOMAIN new.entries : new.entries[l].seq \in fresh
    BY <2>3, <2>4 DEF Numbered
  <2>7. out = Append(streams, new)
    BY <1>1, <1>6
  <2>8. /\ DOMAIN out = 1 .. n + 1 /\ out[n + 1] = new
        /\ \A i \in 1 .. n : out[i] = streams[i]
        /\ out = [i \in 1 .. n + 1 |-> out[i]]
    <3> DEFINE T == {streams[i] : i \in DOMAIN streams} \cup {new}
    <3>1. streams \in Seq(T) /\ new \in T
      <4>1. streams = [i \in 1 .. n |-> streams[i]]
        BY <1>2 DEF WellKept, IsVector
      <4>2. \A i \in 1 .. n : streams[i] \in T
        BY <1>2
      <4> HIDE DEF T, n
      <4>3. streams \in [1 .. n -> T]
        BY <4>1, <4>2
      <4> QED  BY <1>2, <4>3 DEF T
    <3> HIDE DEF T
    <3>2. /\ Append(streams, new) \in Seq(T) /\ Len(Append(streams, new)) = Len(streams) + 1
          /\ Append(streams, new)[Len(streams) + 1] = new
          /\ \A i \in 1 .. Len(streams) : Append(streams, new)[i] = streams[i]
      BY <3>1
    <3>3. out \in Seq(T) /\ Len(out) = n + 1
      BY <2>7, <3>2
    <3>4. DOMAIN out = 1 .. n + 1 /\ out = [i \in 1 .. n + 1 |-> out[i]]
      BY <3>3
    <3> QED  BY <2>7, <3>2, <3>4
  <2>9. IsVector(out)
    BY <1>2, <2>8, FunctionIsVector
  <2>10. \A i \in 1 .. n : streams[i].labels # labels
    BY <1>2, <1>6
  <2> HIDE DEF n
  <2>11. \A i \in 1 .. n + 1 : i \in 1 .. n \/ i = n + 1
    BY <1>2
  <2>12. \A i \in DOMAIN out : StreamKept(out[i], all, vectors, held)
    BY <1>4, <2>5, <2>8, <2>11
  <2>13. \A i, j \in DOMAIN out : out[i].labels = out[j].labels => i = j
    BY <1>4, <2>4, <2>8, <2>10, <2>11
  <2>14. ASSUME NEW i \in DOMAIN out, NEW j \in DOMAIN out,
                NEW k \in DOMAIN out[i].entries, NEW l \in DOMAIN out[j].entries,
                out[i].entries[k].seq = out[j].entries[l].seq
         PROVE  i = j
    <3>1. CASE i \in 1 .. n /\ j \in 1 .. n
      BY <1>4, <2>8, <2>14, <3>1
    <3>2. CASE i \in 1 .. n /\ j = n + 1
      BY <1>5, <2>6, <2>8, <2>14, <3>2
    <3>3. CASE i = n + 1 /\ j \in 1 .. n
      BY <1>5, <2>6, <2>8, <2>14, <3>3
    <3> QED  BY <2>8, <2>11, <3>1, <3>2, <3>3
  <2>15. WellKept(out, all, vectors, held)
    BY <2>9, <2>12, <2>13, <2>14 DEF WellKept
  <2> QED  BY <2>15 DEF out
<1>7. CASE known # {}
  <2>1. PICK one \in known : TRUE
    BY <1>7
  <2>2. one \in 1 .. n /\ streams[one].labels = labels /\ known = {one}
    BY <1>2, <1>4, <2>1
  <2>3. StreamKept(streams[one], used, vectors, held)
    BY <1>2, <2>2 DEF WellKept
  <2>4. /\ Numbered(AppendBatch(streams[one].entries, batch), labels, all, held)
        /\ TimeSorted(AppendBatch(streams[one].entries, batch))
        /\ ComesFrom(AppendBatch(streams[one].entries, batch), streams[one].entries, batch)
    <3>1. Numbered(streams[one].entries, labels, used, held) /\ TimeSorted(streams[one].entries)
      BY <2>2, <2>3 DEF StreamKept
    <3>2. Numbered(batch, labels, fresh, held)
      BY DEF labels
    <3> QED  BY <3>1, <3>2, BatchIsSortedIn
  <2> DEFINE grown == at(one)
  <2>5. grown.labels = labels /\ grown.entries = AppendBatch(streams[one].entries, batch)
    BY DEF at
  <2>6. out = [i \in 1 .. n |-> IF i = one THEN grown ELSE streams[i]]
    BY <1>1, <1>2, <1>7, <2>2
  <2> HIDE DEF grown
  <2>7. StreamKept(grown, all, vectors, held)
    BY <2>4, <2>5 DEF StreamKept, labels
  <2>8. IsVector(out)
    <3>1. out = [i \in 1 .. n |-> out[i]]
      BY <2>6
    <3> QED  BY <1>2, <3>1, FunctionIsVector
  <2>9. /\ DOMAIN out = 1 .. n /\ out[one] = grown
        /\ \A i \in 1 .. n : i # one => out[i] = streams[i]
    BY <2>2, <2>6
  <2>10. ASSUME NEW k \in DOMAIN grown.entries
         PROVE  \/ grown.entries[k].seq \in fresh
                \/ \E l \in DOMAIN streams[one].entries : streams[one].entries[l].seq = grown.entries[k].seq
    <3>1. Numbered(batch, labels, fresh, held)
      BY DEF labels
    <3> QED  BY <2>4, <2>5, <3>1 DEF ComesFrom, Numbered
  <2>11. \A i \in DOMAIN out : StreamKept(out[i], all, vectors, held)
    BY <1>4, <2>7, <2>9
  <2>12. \A i, j \in DOMAIN out : out[i].labels = out[j].labels => i = j
    BY <1>4, <2>2, <2>5, <2>9
  <2>13. ASSUME NEW i \in 1 .. n, i # one, NEW k \in DOMAIN streams[i].entries, NEW l \in DOMAIN grown.entries,
                streams[i].entries[k].seq = grown.entries[l].seq
         PROVE  FALSE
    <3>1. streams[i].entries[k].seq \in used
      BY <1>5, <2>13
    <3>2. PICK p \in DOMAIN streams[one].entries : streams[one].entries[p].seq = grown.entries[l].seq
      BY <2>10, <2>13, <3>1
    <3> QED  BY <1>4, <2>2, <2>13, <3>2
  <2>14. ASSUME NEW i \in DOMAIN out, NEW j \in DOMAIN out,
                NEW k \in DOMAIN out[i].entries, NEW l \in DOMAIN out[j].entries,
                out[i].entries[k].seq = out[j].entries[l].seq
         PROVE  i = j
    BY <1>4, <2>9, <2>13, <2>14
  <2>15. WellKept(out, all, vectors, held)
    BY <2>8, <2>11, <2>12, <2>14 DEF WellKept
  <2> QED  BY <2>15 DEF out
<1> QED  BY <1>6, <1>7
(* Both handlers store one batch after the other.  A batch has the entries of
   some of the prepared records, and no record is in two batches.          *)
LEMMA EntriesAtNumbered ==
    ASSUME NEW m \in Nat, NEW last \in Nat, NEW prepared, prepared = [n \in 1 .. m |-> prepared[n]],
           NEW numbers \in SUBSET (1 .. m), NEW labels, NEW held,
           \A n \in 1 .. m : prepared[n].entry.ts \in I64 /\ prepared[n].entry.seq = last + n,
           \A n \in numbers : <<labels, prepared[n].entry>> \in held
    PROVE  Numbered(EntriesAt(prepared, numbers), labels, {last + n : n \in numbers}, held)
<1> DEFINE all == [n \in DOMAIN prepared |-> prepared[n].entry]
           k == Cardinality(numbers)
           out == EntriesAt(prepared, numbers)
<1>1. out = ItemsAt(all, numbers)
  BY DEF EntriesAt
<1>2. \A n \in 1 .. m : all[n] = prepared[n].entry
  OBVIOUS
<1> HIDE DEF all, out
<1>3. k \in Nat /\ \E from : Selects(from, all, numbers, out)
  BY <1>1, ItemsAtKept
<1>4. PICK from : Selects(from, all, numbers, out)
  BY <1>3
<1> HIDE DEF k
<1>5. /\ out = [r \in 1 .. k |-> all[from[r]]]
      /\ \A r \in 1 .. k : from[r] \in numbers
      /\ \A r, q \in 1 .. k : from[r] = from[q] => r = q
  BY <1>4 DEF Selects, Bijection, Injection, IsInjective, k
<1>6. IsVector(out) /\ DOMAIN out = 1 .. k
  <2>1. out = [r \in 1 .. k |-> out[r]]
    BY <1>5
  <2> QED  BY <1>3, <1>5, <2>1, FunctionIsVector
<1>7. \A r \in 1 .. k : out[r] = prepared[from[r]].entry /\ from[r] \in 1 .. m
  BY <1>2, <1>5
<1>8. \A r \in 1 .. k : /\ out[r].ts \in I64 /\ out[r].seq = last + from[r]
                        /\ <<labels, out[r]>> \in held
  BY <1>5, <1>7
<1>9. \A r, q \in 1 .. k : out[r].seq = out[q].seq => r = q
  <2> SUFFICES ASSUME NEW r \in 1 .. k, NEW q \in 1 .. k, out[r].seq = out[q].seq PROVE r = q
    OBVIOUS
  <2>1. last + from[r] = last + from[q] /\ from[r] \in Int /\ from[q] \in Int
    BY <1>7, <1>8
  <2>2. from[r] = from[q]
    BY <2>1
  <2> QED  BY <1>5, <2>2
<1>10. Numbered(out, labels, {last + n : n \in numbers}, held)
  BY <1>5, <1>6, <1>8, <1>9 DEF Numbered
<1> QED  BY <1>10 DEF out

(* The batches a handler may store. *)
Prepared(prepared, m, last) ==
    /\ m \in Nat /\ last \in Nat /\ prepared = [n \in 1 .. m |-> prepared[n]]
    /\ \A n \in 1 .. m : prepared[n].entry.ts \in I64 /\ prepared[n].entry.seq = last + n

Batched(batches, prepared, m, vectors, held, chosen) ==
    /\ IsVector(batches)
    /\ \A i \in DOMAIN batches :
          /\ LabelVector(batches[i].labels) \in vectors
          /\ chosen[i] \in SUBSET (1 .. m)
          /\ batches[i].entries = EntriesAt(prepared, chosen[i])
          /\ \A n \in chosen[i] : <<LabelVector(batches[i].labels), prepared[n].entry>> \in held
    /\ \A i, j \in DOMAIN batches : i # j => chosen[i] \cap chosen[j] = {}

LEMMA BatchesKeepWell ==
    ASSUME NEW vectors, NEW held, NEW last, WellKept(store, 1 .. last, vectors, held),
           NEW m, NEW prepared, Prepared(prepared, m, last),
           NEW batches, NEW chosen, Batched(batches, prepared, m, vectors, held, chosen),
           StoreBatches(batches)
    PROVE  WellKept(store', 1 .. last + m, vectors, held)
<1> DEFINE N == Len(batches)
           value(i, x) == IngestStream(x, batches[i].labels, batches[i].entries)
           Good(f, k) == f = [n \in 0 .. k |-> IF n = 0 THEN store ELSE value(n, f[n - 1])]
           fresh(i) == {last + n : n \in chosen[i]}
           used(k) == (1 .. last) \cup UNION {fresh(i) : i \in 1 .. k}
           upTo == CHOOSE f : Good(f, N)
<1>1. N \in Nat /\ DOMAIN batches = 1 .. N
  BY VectorDomain DEF Batched
<1>2. store' = upTo[N]
  BY DEF StoreBatches
<1>3. /\ m \in Nat /\ last \in Nat
      /\ \A i \in 1 .. N : chosen[i] \in SUBSET (1 .. m)
      /\ \A i, j \in 1 .. N : i # j => chosen[i] \cap chosen[j] = {}
  BY <1>1 DEF Prepared, Batched
<1>4. \A i \in 1 .. N : LabelVector(batches[i].labels) \in vectors
  BY <1>1 DEF Batched
<1>5. \A i \in 1 .. N : Numbered(batches[i].entries, LabelVector(batches[i].labels), fresh(i), held)
  <2> SUFFICES ASSUME NEW i \in 1 .. N
               PROVE  Numbered(batches[i].entries, LabelVector(batches[i].labels), fresh(i), held)
    OBVIOUS
  <2>1. /\ batches[i].entries = EntriesAt(prepared, chosen[i])
        /\ \A n \in chosen[i] : <<LabelVector(batches[i].labels), prepared[n].entry>> \in held
    BY <1>1 DEF Batched
  <2>2. /\ prepared = [n \in 1 .. m |-> prepared[n]]
        /\ \A n \in 1 .. m : prepared[n].entry.ts \in I64 /\ prepared[n].entry.seq = last + n
    BY DEF Prepared
  <2> DEFINE numbers == chosen[i]
             labels == LabelVector(batches[i].labels)
  <2>3. /\ numbers \in SUBSET (1 .. m)
        /\ \A n \in numbers : <<labels, prepared[n].entry>> \in held
    BY <1>3, <2>1
  <2> HIDE DEF numbers, labels
  <2>4. Numbered(EntriesAt(prepared, numbers), labels, {last + n : n \in numbers}, held)
    BY <1>3, <2>2, <2>3, EntriesAtNumbered
  <2> QED  BY <2>1, <2>4 DEF numbers, labels
<1>6. \A i \in 1 .. N : \A k \in 0 .. N : k < i => used(k) \cap fresh(i) = {}
  <2> SUFFICES ASSUME NEW i \in 1 .. N, NEW k \in 0 .. N, k < i, NEW x \in used(k), x \in fresh(i)
               PROVE  FALSE
    OBVIOUS
  <2>1. PICK n \in chosen[i] : x = last + n
    OBVIOUS
  <2>2. n \in Nat /\ n > 0
    BY <1>3
  <2>3. x \notin 1 .. last
    BY <1>3, <2>1, <2>2
  <2>4. PICK j \in 1 .. k : x \in fresh(j)
    BY <2>3
  <2>5. PICK p \in chosen[j] : x = last + p
    BY <2>4
  <2>6. j \in 1 .. N /\ j # i
    BY <1>1
  <2>7. p \in Nat
    BY <1>3, <2>6
  <2>8. p = n
    BY <1>3, <2>1, <2>2, <2>5, <2>7
  <2> QED  BY <1>3, <2>5, <2>6, <2>8
<1>7. \A k \in 0 .. N : k < N => used(k + 1) = used(k) \cup fresh(k + 1)
  <2> SUFFICES ASSUME NEW k \in 0 .. N, k < N PROVE used(k + 1) = used(k) \cup fresh(k + 1)
    OBVIOUS
  <2>1. \A i : i \in 1 .. k + 1 <=> i \in 1 .. k \/ i = k + 1
    BY <1>1
  <2> HIDE DEF fresh
  <2> QED  BY <2>1
<1>8. used(0) = 1 .. last
  OBVIOUS
<1>9. used(N) \subseteq 1 .. last + m
  <2> SUFFICES ASSUME NEW x \in used(N), x \notin 1 .. last PROVE x \in 1 .. last + m
    BY <1>3
  <2>1. PICK i \in 1 .. N : x \in fresh(i)
    OBVIOUS
  <2>2. PICK n \in chosen[i] : x = last + n
    BY <2>1
  <2>3. n \in 1 .. m
    BY <1>3
  <2> QED  BY <1>3, <2>2, <2>3
<1> HIDE DEF value, fresh, used
<1>10. \E f : Good(f, N)
  <2> DEFINE reached == {k \in 0 .. N : \E f : Good(f, k)}
  <2>1. 0 \in reached
    <3>1. Good([n \in 0 .. 0 |-> store], 0)
      OBVIOUS
    <3>2. 0 \in 0 .. N
      BY <1>1
    <3> QED  BY <3>1, <3>2
  <2>2. ASSUME NEW k \in 0 .. N, k \in reached, k < N PROVE k + 1 \in reached
    <3>1. PICK f : Good(f, k)
      BY <2>2
    <3> DEFINE g == [n \in 0 .. k + 1 |-> IF n = k + 1 THEN value(k + 1, f[k]) ELSE f[n]]
    <3>2. k + 1 \in 0 .. N /\ k \in Nat
      BY <1>1, <2>2
    <3>3. \A n \in 0 .. k : f[n] = IF n = 0 THEN store ELSE value(n, f[n - 1])
      BY <3>1
    <3>4. \A n \in 0 .. k + 1 : g[n] = IF n = k + 1 THEN value(k + 1, f[k]) ELSE f[n]
      OBVIOUS
    <3>5. DOMAIN g = 0 .. k + 1 /\ g = [n \in 0 .. k + 1 |-> g[n]]
      OBVIOUS
    <3> HIDE DEF g
    <3>6. ASSUME NEW n \in 0 .. k + 1 PROVE g[n] = IF n = 0 THEN store ELSE value(n, g[n - 1])
      <4>1. CASE n = k + 1
        <5>1. k \in 0 .. k + 1 /\ n - 1 = k /\ k # k + 1 /\ n # 0
          BY <3>2, <4>1
        <5>2. g[n - 1] = f[k] /\ g[n] = value(k + 1, f[k])
          BY <3>4, <4>1, <5>1
        <5> QED  BY <4>1, <5>1, <5>2
      <4>2. CASE n # k + 1
        <5>1. n \in 0 .. k /\ g[n] = f[n]
          BY <3>2, <3>4, <4>2
        <5>2. n # 0 => n - 1 \in 0 .. k + 1 /\ n - 1 # k + 1
          BY <3>2, <5>1
        <5>3. n # 0 => g[n - 1] = f[n - 1]
          BY <3>4, <5>2
        <5> QED  BY <3>3, <5>1, <5>3
      <4> QED  BY <4>1, <4>2
    <3>7. Good(g, k + 1)
      BY <3>5, <3>6
    <3> QED  BY <3>2, <3>7
  <2>3. \A k \in 0 .. N : k \in reached /\ k < N => k + 1 \in reached
    BY <2>2
  <2> HIDE DEF reached
  <2>4. \A k \in 0 .. N : k \in reached
    BY <1>1, <2>1, <2>3, CountUp
  <2>5. N \in reached
    BY <1>1, <2>4
  <2> QED  BY <2>5 DEF reached
<1> HIDE DEF Good
<1>11. Good(upTo, N)
  BY <1>10
<1> HIDE DEF upTo
<1>12. \A n \in 0 .. N : upTo[n] = IF n = 0 THEN store ELSE value(n, upTo[n - 1])
  BY <1>11 DEF Good
<1> DEFINE right == {n \in 0 .. N : WellKept(upTo[n], used(n), vectors, held)}
<1>13. 0 \in right
  <2>1. 0 \in 0 .. N
    BY <1>1
  <2>2. upTo[0] = store
    BY <1>12, <2>1
  <2> QED  BY <1>8, <2>1, <2>2
<1>14. ASSUME NEW k \in 0 .. N, k \in right, k < N PROVE k + 1 \in right
  <2>1. k + 1 \in 1 .. N /\ k + 1 \in 0 .. N /\ k + 1 # 0 /\ (k + 1) - 1 = k /\ k < k + 1
    BY <1>1, <1>14
  <2>2. upTo[k + 1] = IngestStream(upTo[k], batches[k + 1].labels, batches[k + 1].entries)
    BY <1>12, <2>1 DEF value
  <2> DEFINE u == used(k)
             v == fresh(k + 1)
             pairs == batches[k + 1].labels
             batch == batches[k + 1].entries
  <2>3. /\ WellKept(upTo[k], u, vectors, held) /\ u \cap v = {}
        /\ LabelVector(pairs) \in vectors /\ Numbered(batch, LabelVector(pairs), v, held)
    BY <1>4, <1>5, <1>6, <1>14, <2>1
  <2>4. used(k + 1) = u \cup v
    BY <1>7, <1>14
  <2>5. upTo[k + 1] = IngestStream(upTo[k], pairs, batch)
    BY <2>2
  <2> HIDE DEF u, v, pairs, batch
  <2>6. WellKept(IngestStream(upTo[k], pairs, batch), u \cup v, vectors, held)
    BY <2>3, IngestKeepsWell
  <2> QED  BY <2>1, <2>4, <2>5, <2>6
<1>15. \A k \in 0 .. N : k \in right /\ k < N => k + 1 \in right
  BY <1>14
<1> HIDE DEF right
<1>16. \A k \in 0 .. N : k \in right
  BY <1>1, <1>13, <1>15, CountUp
<1>17. WellKept(upTo[N], used(N), vectors, held)
  <2>1. N \in right
    BY <1>1, <1>16
  <2> QED  BY <2>1 DEF right
<1>18. WellKept(upTo[N], 1 .. last + m, vectors, held)
  <2>1. vectors \subseteq vectors /\ held \subseteq held
    OBVIOUS
  <2> DEFINE streams == upTo[N]
             u == used(N)
             more == 1 .. last + m
  <2>2. WellKept(streams, u, vectors, held) /\ u \subseteq more
    BY <1>9, <1>17
  <2> HIDE DEF streams, u, more
  <2>3. WellKept(streams, more, vectors, held)
    BY <2>1, <2>2, KeptWithMore
  <2> QED  BY <2>3 DEF streams, more
<1> QED  BY <1>2, <1>18
-----------------------------------------------------------------------------
(* The label vectors of the store: no name is without a value. *)
IsLabels(v) == \A n \in DOMAIN v : IsVector(v[n]) /\ v[n] # << >>

(* The level that counts for a filter is the last. *)
HasLevel(v, level) == "level" \in DOMAIN v /\ v["level"][Len(v["level"])] = level

AsMeant(labels, entry) ==
    /\ entry.seq \in 1 .. Len(meant)
    /\ Recognised(meant[entry.seq].instant) => entry.ts = meant[entry.seq].instant
    /\ meant[entry.seq].level # NoLevel => HasLevel(labels, meant[entry.seq].level)

(* The inductive invariant: the store is a well kept one, its entries have
   the numbers of what was meant with them, and the level a record came with
   is the last one of its labels.                                          *)
LogInv ==
    /\ IsVector(meant)
    /\ \E vectors, held :
          /\ WellKept(store, 1 .. Len(meant), vectors, held)
          /\ \A v \in vectors : IsLabels(v)
          /\ \A p \in held : AsMeant(p[1], p[2])

LEMMA LabelVectorIsLabels ==
    ASSUME NEW pairs, IsVector(pairs)
    PROVE  /\ IsLabels(LabelVector(pairs))
           /\ \A name : pairs # << >> /\ pairs[Len(pairs)][1] = name =>
                 /\ name \in DOMAIN LabelVector(pairs)
                 /\ LabelVector(pairs)[name][Len(LabelVector(pairs)[name])] = pairs[Len(pairs)][2]
<1> DEFINE n == Len(pairs)
           names == {pairs[i][1] : i \in DOMAIN pairs}
           these(name) == {i \in DOMAIN pairs : pairs[i][1] = name}
           ofName(name) == ItemsAt(pairs, these(name))
           v == LabelVector(pairs)
<1>1. n \in Nat /\ DOMAIN pairs = 1 .. n
  BY VectorDomain
<1>2. v = [name \in names |-> [i \in DOMAIN ofName(name) |-> ofName(name)[i][2]]]
  BY DEF LabelVector
<1>3. ASSUME NEW name \in names
      PROVE  /\ IsVector(v[name]) /\ v[name] # << >>
             /\ n # 0 /\ pairs[n][1] = name => v[name][Len(v[name])] = pairs[n][2]
  <2> DEFINE keep == these(name)
             k == Cardinality(keep)
             got == ofName(name)
  <2>1. keep \in SUBSET (1 .. n) /\ keep # {}
    BY <1>1
  <2>2. v[name] = [i \in DOMAIN got |-> got[i][2]]
    BY <1>2
  <2>3. n # 0 /\ pairs[n][1] = name => n \in keep
    BY <1>1
  <2> HIDE DEF keep
  <2>4. IsFiniteSet(keep) /\ k \in Nat /\ \E from : Selects(from, pairs, keep, got)
    BY <1>1, <2>1, ItemsAtKept DEF keep
  <2>5. PICK from : Selects(from, pairs, keep, got)
    BY <2>4
  <2>6. k # 0
    BY <2>1, <2>4, FS_EmptySet
  <2> HIDE DEF k, got, n, v
  <2>7. /\ got = [r \in 1 .. k |-> pairs[from[r]]]
        /\ \A r \in 1 .. k : from[r] \in keep /\ from[r] \in 1 .. n
        /\ \A r, q \in 1 .. k : r < q => from[r] < from[q]
        /\ \A i \in keep : \E r \in 1 .. k : from[r] = i
    BY <2>1, <2>5 DEF Selects, Bijection, Injection, IsInjective, Surjection, k
  <2>8. /\ DOMAIN got = 1 .. k /\ \A r \in 1 .. k : v[name][r] = pairs[from[r]][2]
        /\ v[name] = [r \in 1 .. k |-> v[name][r]]
    BY <2>2, <2>7
  <2> DEFINE values == v[name]
  <2>9. IsVector(values) /\ Len(values) = k
    <3>1. values = [r \in 1 .. k |-> values[r]]
      BY <2>8
    <3> HIDE DEF values
    <3> QED  BY <2>4, <3>1, FunctionIsVector
  <2>10. values # << >>
    <3>1. Len(<< >>) = 0
      OBVIOUS
    <3> QED  BY <2>6, <2>9, <3>1
  <2>11. ASSUME n # 0, pairs[n][1] = name PROVE values[Len(values)] = pairs[n][2]
    <3>1. PICK r \in 1 .. k : from[r] = n
      BY <2>3, <2>7, <2>11
    <3>2. r = k
      <4>1. ASSUME r # k PROVE FALSE
        <5>1. k \in 1 .. k /\ r < k
          BY <2>4, <2>6, <4>1
        <5>2. from[r] < from[k] /\ from[k] \in 1 .. n
          BY <2>7, <5>1
        <5> QED  BY <1>1, <3>1, <5>2 DEF n
      <4> QED  BY <4>1
    <3> QED  BY <2>8, <2>9, <3>1, <3>2
  <2> QED  BY <2>9, <2>10, <2>11
<1> HIDE DEF v
<1>4. DOMAIN v = names
  BY <1>2
<1>5. IsLabels(v)
  BY <1>3, <1>4 DEF IsLabels
<1>6. ASSUME NEW name, pairs # << >>, pairs[n][1] = name
      PROVE  name \in DOMAIN v /\ v[name][Len(v[name])] = pairs[n][2]
  <2>1. n # 0
    <3>1. ASSUME n = 0 PROVE FALSE
      <4>1. pairs = [i \in 1 .. n |-> pairs[i]]
        BY <1>1 DEF IsVector
      <4> QED  BY <1>6, <3>1, <4>1
    <3> QED  BY <3>1
  <2>2. n \in DOMAIN pairs
    BY <1>1, <2>1
  <2>3. name \in names
    BY <1>6, <2>2
  <2> QED  BY <1>3, <1>4, <1>6, <2>1, <2>3
<1> QED  BY <1>5, <1>6 DEF v
(* Vectors one after the other. *)
LEMMA VectorsJoined ==
    ASSUME NEW s, IsVector(s), NEW t, IsVector(t)
    PROVE  /\ IsVector(s \o t) /\ Len(s \o t) = Len(s) + Len(t)
           /\ \A i \in 1 .. Len(s) : (s \o t)[i] = s[i]
           /\ \A i \in 1 .. Len(t) : (s \o t)[Len(s) + i] = t[i]
<1> DEFINE T == {s[i] : i \in DOMAIN s} \cup {t[i] : i \in DOMAIN t}
           n == Len(s)
           m == Len(t)
           out == s \o t
<1>1. n \in Nat /\ m \in Nat /\ DOMAIN s = 1 .. n /\ DOMAIN t = 1 .. m
  BY VectorDomain
<1>2. s = [i \in 1 .. n |-> s[i]] /\ t = [i \in 1 .. m |-> t[i]]
  BY <1>1 DEF IsVector
<1>3. (\A i \in 1 .. n : s[i] \in T) /\ (\A i \in 1 .. m : t[i] \in T)
  BY <1>1
<1> HIDE DEF T, n, m
<1>4. s \in [1 .. n -> T] /\ t \in [1 .. m -> T]
  BY <1>2, <1>3
<1>5. s \in Seq(T) /\ t \in Seq(T) /\ Len(s) = n /\ Len(t) = m
  BY <1>1, <1>4
<1>6. /\ out \in Seq(T) /\ Len(out) = n + m
      /\ \A i \in 1 .. n + m : out[i] = IF i <= n THEN s[i] ELSE t[i - n]
  BY <1>5, ConcatProperties, Zenon
<1> HIDE DEF out
<1>7. n + m \in Nat /\ out = [i \in 1 .. n + m |-> out[i]]
  BY <1>1, <1>6
<1>8. IsVector(out)
  BY <1>7, FunctionIsVector
<1>9. \A i \in 1 .. n : i \in 1 .. n + m /\ i <= n
  BY <1>1
<1>10. \A i \in 1 .. m : n + i \in 1 .. n + m /\ ~ (n + i <= n) /\ (n + i) - n = i
  BY <1>1
<1>11. (\A i \in 1 .. n : out[i] = s[i]) /\ (\A i \in 1 .. m : out[n + i] = t[i])
  BY <1>6, <1>9, <1>10
<1> QED  BY <1>6, <1>8, <1>11 DEF out, n, m

(* What the prepared records mean to their senders: the level of each is the
   last one of the labels it is stored under.                              *)
Meant(extra, m, prepared, batches, chosen) ==
    /\ IsVector(extra) /\ Len(extra) = m
    /\ \A n \in 1 .. m : Recognised(extra[n].instant) => prepared[n].entry.ts = extra[n].instant
    /\ \A i \in DOMAIN batches :
          LET labels == LabelVector(batches[i].labels)
          IN  /\ IsLabels(labels)
              /\ \A n \in chosen[i] : extra[n].level # NoLevel => HasLevel(labels, extra[n].level)

Taken(batches, prepared, m, chosen) ==
    /\ IsVector(batches)
    /\ \A i \in DOMAIN batches :
          /\ chosen[i] \in SUBSET (1 .. m)
          /\ batches[i].entries = EntriesAt(prepared, chosen[i])
    /\ \A i, j \in DOMAIN batches : i # j => chosen[i] \cap chosen[j] = {}

LEMMA HandlerKeepsInv ==
    ASSUME LogInv, NEW m, NEW prepared, Prepared(prepared, m, Len(meant)),
           NEW batches, NEW chosen, Taken(batches, prepared, m, chosen),
           NEW extra, Meant(extra, m, prepared, batches, chosen),
           StoreBatches(batches), meant' = meant \o extra
    PROVE  LogInv'
<1> DEFINE last == Len(meant)
           labels(i) == LabelVector(batches[i].labels)
<1>1. PICK vectors, held : /\ WellKept(store, 1 .. last, vectors, held)
                           /\ \A v \in vectors : IsLabels(v)
                           /\ \A p \in held : AsMeant(p[1], p[2])
  BY DEF LogInv
<1> DEFINE vectorsToo == vectors \cup {labels(i) : i \in DOMAIN batches}
           stored(i) == {<<labels(i), prepared[n].entry>> : n \in chosen[i]}
           heldToo == held \cup UNION {stored(i) : i \in DOMAIN batches}
<1>2. /\ last \in Nat /\ IsVector(meant) /\ m \in Nat
      /\ \A n \in 1 .. m : prepared[n].entry.seq = last + n
  BY VectorDomain DEF LogInv, Prepared
<1>3. /\ IsVector(meant') /\ Len(meant') = last + m
      /\ \A i \in 1 .. last : meant'[i] = meant[i]
      /\ \A i \in 1 .. m : meant'[last + i] = extra[i]
  <2>1. IsVector(extra) /\ Len(extra) = m
    BY DEF Meant
  <2> DEFINE whole == meant \o extra
  <2>2. /\ IsVector(whole) /\ Len(whole) = Len(meant) + Len(extra)
        /\ \A i \in 1 .. Len(meant) : whole[i] = meant[i]
        /\ \A i \in 1 .. Len(extra) : whole[Len(meant) + i] = extra[i]
    <3> DEFINE told == meant
    <3>1. IsVector(told) /\ IsVector(extra)
      BY <1>2, <2>1
    <3> HIDE DEF told
    <3>2. /\ IsVector(told \o extra) /\ Len(told \o extra) = Len(told) + Len(extra)
          /\ \A i \in 1 .. Len(told) : (told \o extra)[i] = told[i]
          /\ \A i \in 1 .. Len(extra) : (told \o extra)[Len(told) + i] = extra[i]
      BY ONLY <3>1, VectorsJoined
    <3> QED  BY <3>2 DEF told
  <2>3. meant' = whole
    OBVIOUS
  <2> HIDE DEF whole
  <2> QED  BY <2>1, <2>2, <2>3
<1>4. \A i \in DOMAIN batches : /\ labels(i) \in vectorsToo /\ IsLabels(labels(i))
                                /\ chosen[i] \in SUBSET (1 .. m)
  BY DEF Meant, Taken
<1>5. \A i \in DOMAIN batches : \A n \in chosen[i] : <<labels(i), prepared[n].entry>> \in heldToo
  OBVIOUS
<1>6. vectors \subseteq vectorsToo /\ held \subseteq heldToo
  OBVIOUS
<1>7. Batched(batches, prepared, m, vectorsToo, heldToo, chosen)
  <2> HIDE DEF vectorsToo, heldToo
  <2> QED  BY <1>4, <1>5 DEF Batched, Taken
<1>8. \A v \in vectorsToo : IsLabels(v)
  BY <1>1, <1>4
<1>9. ASSUME NEW p \in heldToo PROVE AsMeant(p[1], p[2])'
  <2>1. CASE p \in held
    <3>1. AsMeant(p[1], p[2])
      BY <1>1, <2>1
    <3>2. /\ p[2].seq \in 1 .. last
          /\ Recognised(meant[p[2].seq].instant) => p[2].ts = meant[p[2].seq].instant
          /\ meant[p[2].seq].level # NoLevel => HasLevel(p[1], meant[p[2].seq].level)
      BY <3>1 DEF AsMeant
    <3>3. p[2].seq \in 1 .. last + m
      BY <1>2, <3>2
    <3>4. meant'[p[2].seq] = meant[p[2].seq]
      BY <1>3, <3>2
    <3> QED  BY <1>3, <3>2, <3>3, <3>4 DEF AsMeant, HasLevel
  <2>2. CASE p \notin held
    <3>1. PICK i \in DOMAIN batches : p \in stored(i)
      BY <2>2
    <3>2. PICK n \in chosen[i] : p = <<labels(i), prepared[n].entry>>
      BY <3>1
    <3> DEFINE v == labels(i)
    <3>3. p[1] = v /\ p[2] = prepared[n].entry
      BY <3>2
    <3>4. extra[n].level # NoLevel => HasLevel(v, extra[n].level)
      BY DEF Meant
    <3> HIDE DEF v
    <3>5. n \in 1 .. m
      BY <1>4
    <3>6. p[2].seq = last + n /\ meant'[last + n] = extra[n] /\ last + n \in 1 .. last + m
      BY <1>2, <1>3, <3>3, <3>5
    <3>7. p[2].seq \in 1 .. Len(meant') /\ meant'[p[2].seq] = extra[n]
      BY <1>3, <3>6
    <3>8. Recognised(extra[n].instant) => p[2].ts = extra[n].instant
      BY <3>3, <3>5 DEF Meant
    <3> QED  BY <3>3, <3>4, <3>7, <3>8 DEF AsMeant, HasLevel
  <2> QED  BY <2>1, <2>2
<1> HIDE DEF vectorsToo, heldToo, last
<1>10. WellKept(store, 1 .. last, vectorsToo, heldToo)
  <2> DEFINE used == 1 .. last
  <2>1. used \subseteq used /\ WellKept(store, used, vectors, held)
    BY <1>1
  <2> HIDE DEF used
  <2>2. WellKept(store, used, vectorsToo, heldToo)
    BY <1>6, <2>1, KeptWithMore
  <2> QED  BY <2>2 DEF used
<1>11. Prepared(prepared, m, last)
  BY DEF last
<1>12. WellKept(store', 1 .. last + m, vectorsToo, heldToo)
  BY <1>7, <1>10, <1>11, BatchesKeepWell
<1>13. WellKept(store, 1 .. Len(meant), vectorsToo, heldToo)'
  BY <1>3, <1>12 DEF WellKept, StreamKept, Numbered
<1>14. \A v \in vectorsToo : IsLabels(v)'
  BY <1>8 DEF IsLabels, IsVector
<1> QED  BY <1>3, <1>9, <1>13, <1>14 DEF LogInv, IsVector
-----------------------------------------------------------------------------
(* An instant reads the same in every unit it is a whole number of. *)
LEMMA Cancel ==
    ASSUME NEW a \in Int, NEW b \in Int, NEW c \in Int, c > 0, a * c < b * c
    PROVE  a < b
OBVIOUS

LEMMA ProductGrows ==
    ASSUME NEW a \in Int, NEW b \in Int, NEW c \in Int, c > 0, a <= b
    PROVE  a * c <= b * c
OBVIOUS

LEMMA WholeNumber ==
    ASSUME NEW x \in Int, NEW d \in Int, d > 0, x % d = 0
    PROVE  x \div d \in Int /\ (x \div d) * d = x
OBVIOUS

LEMMA QuotientOf ==
    ASSUME NEW q \in Int, NEW d \in Int, d > 0
    PROVE  (q * d) \div d = q
OBVIOUS

LEMMA Grouped ==
    ASSUME NEW q \in Int, NEW d \in Int
    PROVE  /\ (q * d) * d = q * (d * d) /\ (q * d) * (d * d) = q * (d * d * d)
           /\ (q * (d * d)) * d = q * (d * d * d)
OBVIOUS

(* The limits between the units against the largest time. *)
LEMMA UnitLimits ==
    LET R == UnitRatio
        S == SecondsMax
        X == SearchSeconds
    IN  /\ R \in Int /\ R > 1 /\ R * R \in Int /\ R * R > 0 /\ R * R * R \in Int /\ R * R * R > 0
        /\ S \in Int /\ S * R \in Int /\ S * (R * R) \in Int /\ X \in Int /\ X * R \in Int
        /\ X <= S /\ 0 < S /\ S <= S * R /\ S * R <= S * (R * R) /\ X <= X * R /\ X * R <= S * R
        /\ MaxI64 < X * (R * R * R) /\ MaxI64 < S * (R * R * R) /\ MaxI64 \in Int
<1> DEFINE R == UnitRatio
           S == SecondsMax
           X == SearchSeconds
           R2 == R * R
           R3 == R2 * R
<1>1. /\ R \in Int /\ R > 1 /\ S \in Int /\ S > 0 /\ X \in Int /\ X > 0 /\ X <= S
      /\ MaxI64 < X * R3 /\ MaxI64 \in Int
  BY UnitConstants
<1> HIDE DEF R, S, X
<1>2. R2 \in Int /\ R2 > 0 /\ R3 \in Int /\ R3 > 0
  <2>1. R2 \in Int /\ R2 > 0
    BY <1>1
  <2> HIDE DEF R2
  <2> QED  BY <1>1, <2>1
<1>3. S <= S * R /\ X <= X * R
  BY <1>1
<1>4. X * R <= S * R
  <2>1. X \in Int /\ S \in Int /\ R \in Int /\ R > 0 /\ X <= S
    BY <1>1
  <2> QED  BY <2>1, ProductGrows
<1>5. S * R \in Int /\ X * R \in Int /\ S * R <= (S * R) * R
  <2>1. S * R \in Int /\ X * R \in Int /\ S * R > 0
    BY <1>1
  <2> DEFINE q == S * R
  <2> HIDE DEF q
  <2>2. q \in Int /\ q > 0 => q <= q * R
    BY <1>1
  <2> QED  BY <2>1, <2>2 DEF q
<1>6. (S * R) * R = S * R2
  BY <1>1, Grouped
<1>7. X * R3 <= S * R3
  <2>1. X \in Int /\ S \in Int /\ R3 \in Int /\ R3 > 0 /\ X <= S
    BY <1>1, <1>2
  <2> HIDE DEF R3
  <2> QED  BY <2>1, ProductGrows
<1>8. S * R2 \in Int /\ S * R3 \in Int /\ X * R3 \in Int
  <2> HIDE DEF R2, R3
  <2> QED  BY <1>1, <1>2
<1>9. MaxI64 < S * R3
  <2> HIDE DEF R3
  <2> QED  BY <1>1, <1>7, <1>8
<1> QED  BY <1>1, <1>2, <1>3, <1>4, <1>5, <1>6, <1>8, <1>9 DEF R, S, X

(* An instant in nanoseconds, and as a whole number of a larger unit. *)
LEMMA InNanoseconds ==
    ASSUME NEW i \in Int, Recognised(i)
    PROVE  /\ ClassifyToNs(i) = i /\ ParamToNs(i) = i
           /\ ClassifyToMs(i) = i \div UnitNs("ms")
           /\ FloatSecondsToNs(i) = <<i>> /\ FloatSecondsToMs(i) = <<i \div UnitNs("ms")>>
<1> DEFINE R == UnitRatio
           S == SecondsMax
           X == SearchSeconds
<1>1. UnitNs("us") = R /\ UnitNs("ms") = R * R /\ UnitNs("s") = R * R * R
  BY DEF UnitNs
<1>2. S * (R * R) < i /\ i <= MaxI64
  BY <1>1 DEF Recognised
<1> DEFINE R2 == R * R
           a == S * R
           b == S * R2
           c == X * R
<1>3. /\ R2 \in Int /\ R2 > 0 /\ S \in Int /\ X \in Int /\ a \in Int /\ b \in Int /\ c \in Int
      /\ X <= c /\ c <= a /\ a <= b /\ 0 < S /\ S <= a /\ MaxI64 \in Int
  BY UnitLimits
<1> HIDE DEF R, S, X
<1>4. UnitNs("us") = R /\ UnitNs("ms") = R2
  BY <1>1
<1>5. b < i
  BY <1>2
<1> HIDE DEF R2, a, b, c
<1>6. Saturate(i) = i /\ 0 < i
  BY <1>2, <1>3, <1>5 DEF Saturate
<1>7. ClassifyToNs(i) = i
  BY <1>4, <1>5 DEF ClassifyToNs, S, b
<1>8. ParamToNs(i) = i
  <2>1. ~ (i < X) /\ ~ (i < c)
    BY <1>3, <1>5
  <2> QED  BY <1>6, <2>1 DEF ParamToNs, X, c, R
<1>9. ClassifyToMs(i) = i \div UnitNs("ms")
  <2>1. i > a
    BY <1>3, <1>5
  <2> QED  BY <2>1 DEF ClassifyToMs, S, R, a
<1>10. FloatSecondsToNs(i) = <<i>>
  BY <1>2, <1>3, <1>6 DEF FloatSecondsToNs
<1>11. FloatSecondsToMs(i) = <<i \div UnitNs("ms")>>
  <2>1. MaxI64 >= 0
    BY UnitConstants
  <2>2. MaxI64 <= MaxI64 * R2 /\ MaxI64 * R2 \in Int /\ 0 <= (MaxI64 + 1) * R2 /\ (MaxI64 + 1) * R2 \in Int
    BY <1>3, <2>1
  <2> DEFINE top == MaxI64 * R2
             bottom == (MaxI64 + 1) * R2
  <2>3. -(MaxI64 + 1) * R2 = - bottom
    BY <1>3
  <2> HIDE DEF top, bottom
  <2>4. ~ (i > top) /\ ~ (i < - bottom) /\ ~ (i < 0)
    BY <1>2, <1>3, <1>6, <2>2 DEF top, bottom
  <2>5. ~ (i > MaxI64 * UnitNs("ms")) /\ ~ (i < -(MaxI64 + 1) * UnitNs("ms"))
    BY <1>4, <2>3, <2>4 DEF top
  <2> QED  BY <2>4, <2>5 DEF FloatSecondsToMs
<1> QED  BY <1>7, <1>8, <1>9, <1>10, <1>11

LEMMA InLargerUnits ==
    ASSUME NEW i \in Int, Recognised(i), NEW u \in {"us", "ms", "s"}, i % UnitNs(u) = 0
    PROVE  LET n == i \div UnitNs(u)
           IN  /\ ClassifyToNs(n) = i
               /\ u # "us" => ParamToNs(n) = i /\ ClassifyToMs(n) = i \div UnitNs("ms")
<1> DEFINE R == UnitRatio
           S == SecondsMax
           X == SearchSeconds
           U == UnitNs(u)
           n == i \div U
<1>1. UnitNs("us") = R /\ UnitNs("ms") = R * R /\ UnitNs("s") = R * R * R
  BY DEF UnitNs
<1>2. S * (R * R) < i /\ i <= MaxI64
  BY <1>1 DEF Recognised
<1> DEFINE R2 == R * R
           R3 == R * R * R
           a == S * R
           b == S * R2
           c == X * R
           d == S * R3
           e == X * R3
<1>3. /\ R \in Int /\ R > 0 /\ R2 \in Int /\ R2 > 0 /\ R3 \in Int /\ R3 > 0
      /\ S \in Int /\ X \in Int /\ a \in Int /\ b \in Int /\ c \in Int
      /\ X <= c /\ c <= a /\ a <= b /\ 0 < S /\ S <= a /\ MaxI64 \in Int /\ X <= S
  BY UnitLimits
<1>4. d \in Int /\ e \in Int
  <2> HIDE DEF R, S, X, R3
  <2> QED  BY <1>3
<1>5. b < i /\ i < d /\ i < e /\ 0 < i
  <2>1. MaxI64 < d /\ MaxI64 < e
    BY UnitLimits
  <2> HIDE DEF d, e
  <2>2. b < i
    BY <1>2
  <2> HIDE DEF b
  <2> QED  BY <1>2, <1>3, <1>4, <2>1, <2>2
<1>6. U \in Int /\ U > 0 /\ (U = R \/ U = R2 \/ U = R3)
  BY <1>1, <1>3
<1>7. UnitNs("us") = R /\ UnitNs("ms") = R2 /\ UnitNs("s") = R3
  BY <1>1
<1> HIDE DEF U
<1>8. n \in Int /\ n * U = i
  BY <1>6, WholeNumber DEF U
<1>9. Saturate(i) = i
  BY <1>2, <1>3, <1>5 DEF Saturate
<1>10. /\ a * R = b /\ b * R = d /\ S * R2 = b /\ a * R2 = d /\ c * R2 = e
  BY <1>3, Grouped
<1>11. UnitNs("ms") = R2 /\ ParamToNs(n) = IF n < X THEN Saturate(n * R3)
                                           ELSE IF n < c THEN Saturate(n * R2) ELSE Saturate(n)
  BY <1>7 DEF ParamToNs
<1>12. ClassifyToNs(n) = IF n > b THEN n ELSE IF n > a THEN Saturate(n * R)
                         ELSE IF n > S THEN Saturate(n * R2) ELSE Saturate(n * R3)
  BY <1>7 DEF ClassifyToNs
<1>13. ClassifyToMs(n) = IF n > a THEN n \div R2 ELSE IF n > S THEN n ELSE Saturate(n * R)
  BY <1>7 DEF ClassifyToMs
<1>14. R2 * R = R3 /\ R * R2 = R3
  BY <1>3
<1> HIDE DEF R, S, X, R2, R3, a, b, c, d, e, n
<1>15. CASE u = "us"
  <2>1. U = R
    BY <1>7, <1>15 DEF U
  <2>2. a < n
    BY <1>3, <1>5, <1>8, <1>10, <2>1, Cancel
  <2>3. n < b
    BY <1>3, <1>5, <1>8, <1>10, <2>1, Cancel
  <2>4. ClassifyToNs(n) = Saturate(i)
    BY <1>3, <1>8, <1>12, <2>1, <2>2, <2>3
  <2> QED  BY <1>9, <1>15, <2>4 DEF n, U
<1>16. CASE u = "ms"
  <2>1. U = R2
    BY <1>7, <1>16 DEF U
  <2>2. S < n
    BY <1>3, <1>5, <1>8, <1>10, <2>1, Cancel
  <2>3. n < a
    BY <1>3, <1>5, <1>8, <1>10, <2>1, Cancel
  <2>4. n < c
    BY <1>3, <1>5, <1>8, <1>10, <2>1, Cancel
  <2>5. ClassifyToNs(n) = Saturate(i)
    BY <1>3, <1>8, <1>12, <2>1, <2>2, <2>3
  <2>6. ParamToNs(n) = Saturate(i)
    BY <1>3, <1>8, <1>11, <2>1, <2>2, <2>4
  <2>7. ClassifyToMs(n) = n
    BY <1>3, <1>8, <1>13, <2>2, <2>3
  <2> QED  BY <1>7, <1>9, <2>1, <2>5, <2>6, <2>7 DEF n, U
<1>17. CASE u = "s"
  <2>1. U = R3
    BY <1>7, <1>17 DEF U
  <2>2. n < X
    BY <1>3, <1>5, <1>8, <1>10, <2>1, Cancel DEF d, e
  <2>3. ClassifyToNs(n) = Saturate(i)
    BY <1>3, <1>8, <1>12, <2>1, <2>2
  <2>4. ParamToNs(n) = Saturate(i)
    BY <1>8, <1>11, <2>1, <2>2
  <2> DEFINE q == n * R
  <2>5. q \in Int /\ q * R2 = i
    <3>1. n * R3 = i
      BY <1>8, <2>1
    <3>2. (n * R) * R2 = n * (R * R2)
      BY <1>3, <1>8
    <3> QED  BY <1>3, <1>8, <1>14, <3>1, <3>2
  <2>6. ClassifyToMs(n) = Saturate(q)
    BY <1>3, <1>8, <1>13, <2>2
  <2> HIDE DEF q
  <2>7. i \div R2 = q
    BY <1>3, <2>5, QuotientOf
  <2>8. q <= i
    BY <1>3, <1>5, <2>5
  <2>9. 0 < q
    BY <1>3, <1>5, <2>5
  <2>10. Saturate(q) = q
    BY <1>2, <1>3, <2>5, <2>8, <2>9 DEF Saturate
  <2> QED  BY <1>7, <1>9, <2>3, <2>4, <2>6, <2>7, <2>10 DEF n, U
<1> QED  BY <1>15, <1>16, <1>17 DEF n, U

LEMMA WritingsAreRead ==
    ASSUME NEW i \in Int, Recognised(i)
    PROVE  /\ \A w \in Writings(i, Units) \cup {WrittenFloat(i)} : ParseTimestampNs(w) = <<i>>
           /\ \A w \in Writings(i, Units \ {"us"}) :
                 ParamToNs(w.n) = i /\ ParseTimestampMs(w) = ParseTimestampMs(WrittenFloat(i))
<1> DEFINE reads(n) == ClassifyToNs(n) = i
           agrees(n) == ParamToNs(n) = i /\ ClassifyToMs(n) = i \div UnitNs("ms")
<1>1. i \div UnitNs("ns") = i
  <2>1. UnitNs("ns") = 1
    BY DEF UnitNs
  <2> QED  BY <2>1
<1>2. \A u \in Units : i % UnitNs(u) = 0 =>
         reads(i \div UnitNs(u)) /\ (u # "us" => agrees(i \div UnitNs(u)))
  <2> SUFFICES ASSUME NEW u \in Units, i % UnitNs(u) = 0
               PROVE  reads(i \div UnitNs(u)) /\ (u # "us" => agrees(i \div UnitNs(u)))
    OBVIOUS
  <2>1. CASE u = "ns"
    BY <1>1, <2>1, InNanoseconds
  <2>2. CASE u # "ns"
    <3>1. u \in {"us", "ms", "s"}
      BY <2>2 DEF Units
    <3> QED  BY <3>1, InLargerUnits
  <2> QED  BY <2>1, <2>2
<1>3. ParseTimestampNs(WrittenFloat(i)) = <<i>>
  <2> DEFINE w == WrittenFloat(i)
  <2>1. w.is = "float" /\ w.n = i
    BY DEF WrittenFloat
  <2> HIDE DEF w
  <2>2. ParseTimestampNs(w) = FloatSecondsToNs(i)
    BY <2>1 DEF ParseTimestampNs
  <2> QED  BY <2>2, InNanoseconds DEF w
<1>4. ParseTimestampMs(WrittenFloat(i)) = <<i \div UnitNs("ms")>>
  <2> DEFINE w == WrittenFloat(i)
  <2>1. w.is = "float" /\ w.n = i
    BY DEF WrittenFloat
  <2> HIDE DEF w
  <2>2. ParseTimestampMs(w) = FloatSecondsToMs(i)
    BY <2>1 DEF ParseTimestampMs
  <2> QED  BY <2>2, InNanoseconds DEF w
<1>5. \A n : LET w == WrittenInteger(n)
             IN  /\ w.n = n /\ ParseTimestampNs(w) = <<ClassifyToNs(n)>>
                 /\ ParseTimestampMs(w) = <<ClassifyToMs(n)>>
  <2> SUFFICES ASSUME NEW n
               PROVE  LET w == WrittenInteger(n)
                      IN  /\ w.n = n /\ ParseTimestampNs(w) = <<ClassifyToNs(n)>>
                          /\ ParseTimestampMs(w) = <<ClassifyToMs(n)>>
    OBVIOUS
  <2> DEFINE w == WrittenInteger(n)
  <2>1. w.is = "integer" /\ w.n = n
    BY DEF WrittenInteger
  <2> HIDE DEF w
  <2>2. ParseTimestampNs(w) = <<ClassifyToNs(n)>>
    BY <2>1 DEF ParseTimestampNs
  <2>3. ParseTimestampMs(w) = <<ClassifyToMs(n)>>
    BY <2>1 DEF ParseTimestampMs
  <2> QED  BY <2>1, <2>2, <2>3 DEF w
<1>6. ASSUME NEW w \in Writings(i, Units) PROVE ParseTimestampNs(w) = <<i>>
  <2>1. PICK u \in Units : i % UnitNs(u) = 0 /\ w = WrittenInteger(i \div UnitNs(u))
    BY DEF Writings
  <2> DEFINE n == i \div UnitNs(u)
  <2>2. reads(n)
    BY <1>2, <2>1
  <2> HIDE DEF n
  <2>3. ParseTimestampNs(WrittenInteger(n)) = <<i>>
    BY <1>5, <2>2
  <2> QED  BY <2>1, <2>3 DEF n
<1>7. ASSUME NEW w \in Writings(i, Units \ {"us"})
      PROVE  ParamToNs(w.n) = i /\ ParseTimestampMs(w) = ParseTimestampMs(WrittenFloat(i))
  <2>1. PICK u \in Units \ {"us"} : i % UnitNs(u) = 0 /\ w = WrittenInteger(i \div UnitNs(u))
    BY DEF Writings
  <2> DEFINE n == i \div UnitNs(u)
  <2>2. agrees(n)
    BY <1>2, <2>1
  <2> HIDE DEF n
  <2>3. w.n = n /\ ParseTimestampMs(w) = <<ClassifyToMs(n)>>
    BY <1>5, <2>1 DEF n
  <2> QED  BY <1>4, <2>2, <2>3
<1> QED  BY <1>3, <1>6, <1>7

-----------------------------------------------------------------------------
(* A time that is read fits an i64. *)
LEMMA SaturatedFits ==
    ASSUME NEW n \in Int
    PROVE  Saturate(n) \in I64
BY UnitConstants DEF Saturate, I64

LEMMA UnitIsInt ==
    ASSUME NEW u \in Units
    PROVE  UnitNs(u) \in Int
<1>1. UnitRatio \in Int
  BY UnitConstants
<1>2. UnitRatio * UnitRatio \in Int
  BY <1>1
<1>3. (UnitRatio * UnitRatio) * UnitRatio \in Int
  BY <1>1, <1>2
<1> QED  BY <1>1, <1>2, <1>3 DEF Units, UnitNs

LEMMA ClassifiedFits ==
    ASSUME NEW n \in I64
    PROVE  ClassifyToNs(n) \in I64
<1>1. n \in Int
  BY UnitConstants DEF I64
<1>2. \A u \in Units : n * UnitNs(u) \in Int
  <2> SUFFICES ASSUME NEW u \in Units PROVE n * UnitNs(u) \in Int
    OBVIOUS
  <2>1. UnitNs(u) \in Int
    BY UnitIsInt
  <2> QED  BY <1>1, <2>1
<1>3. \A u \in Units : Saturate(n * UnitNs(u)) \in I64
  BY <1>2, SaturatedFits
<1>4. "us" \in Units /\ "ms" \in Units /\ "s" \in Units
  BY DEF Units
<1> QED  BY <1>3, <1>4 DEF ClassifyToNs

LEMMA ParsedFits ==
    ASSUME NEW t, t.is \in {"integer", "float", "text"}, t.n \in Int,
           t.is = "integer" => t.n \in I64, ParseTimestampNs(t) # << >>
    PROVE  ParseTimestampNs(t)[1] \in I64
<1>1. CASE t.is = "integer"
  <2>1. ParseTimestampNs(t) = <<ClassifyToNs(t.n)>>
    BY <1>1 DEF ParseTimestampNs
  <2> QED  BY <1>1, <2>1, ClassifiedFits
<1>2. CASE t.is = "float"
  <2>1. ParseTimestampNs(t) = FloatSecondsToNs(t.n)
    BY <1>2 DEF ParseTimestampNs
  <2>2. ParseTimestampNs(t) = <<t.n>> /\ ~ (t.n > MaxI64) /\ ~ (t.n < -MaxI64 - 1)
    BY <2>1 DEF FloatSecondsToNs
  <2> QED  BY <2>2, UnitConstants DEF I64
<1>3. CASE t.is = "text"
  BY <1>3 DEF ParseTimestampNs
<1> QED  BY <1>1, <1>2, <1>3

LEMMA ReadableIsFinite ==
    ASSUME NEW push \in LokiPushes
    PROVE  /\ IsVector(push) /\ IsFiniteSet(Readable(push))
           /\ \A slot \in Readable(push) :
                 /\ slot \in Int \X Int /\ slot[1] \in DOMAIN push
                 /\ ParseTimestampNs(push[slot[1]].values[slot[2]].ts)[1] \in I64
<1>1. /\ push \in Seq(Range(push))
      /\ \A i \in DOMAIN push :
            /\ push[i].values \in Seq(Range(push[i].values))
            /\ \A k \in DOMAIN push[i].values :
                  LET t == push[i].values[k].ts
                  IN  /\ t.is \in {"integer", "float", "text"}
                      /\ t.n \in Int /\ (t.is = "integer" => t.n \in I64)
  BY RequestConstants
<1>2. IsVector(push) /\ \A i \in DOMAIN push : IsVector(push[i].values)
  BY <1>1 DEF IsVector, Range
<1> DEFINE values == [i \in DOMAIN push |-> push[i].values]
<1>3. IsFiniteSet(DOMAIN values) /\ DOMAIN values = DOMAIN push
  BY <1>2, VectorDomain
<1>4. \A i \in DOMAIN values : \E n \in Nat : DOMAIN values[i] = 1 .. n
  BY <1>2, VectorDomain
<1>5. \A slot \in Readable(push) :
         \E i \in DOMAIN push : \E k \in DOMAIN push[i].values :
            slot = <<i, k>> /\ ParseTimestampNs(push[i].values[k].ts) # << >>
  BY DEF Readable
<1>6. Readable(push) \subseteq Slots(values)
  <2> SUFFICES ASSUME NEW slot \in Readable(push) PROVE slot \in Slots(values)
    OBVIOUS
  <2>1. PICK i \in DOMAIN push : \E k \in DOMAIN push[i].values : slot = <<i, k>>
    BY <1>5
  <2>2. PICK k \in DOMAIN push[i].values : slot = <<i, k>>
    BY <2>1
  <2>3. i \in DOMAIN values /\ k \in DOMAIN values[i]
    OBVIOUS
  <2> QED  BY <2>2, <2>3, PairInSlots
<1>7. IsFiniteSet(Readable(push))
  <2> HIDE DEF values
  <2>1. IsFiniteSet(Slots(values))
    BY <1>3, <1>4, SlotsFinite
  <2> QED  BY <1>6, <2>1, FS_Subset
<1>8. ASSUME NEW slot \in Readable(push)
      PROVE  /\ slot \in Int \X Int /\ slot[1] \in DOMAIN push
             /\ ParseTimestampNs(push[slot[1]].values[slot[2]].ts)[1] \in I64
  <2>1. PICK i \in DOMAIN push : \E k \in DOMAIN push[i].values :
            slot = <<i, k>> /\ ParseTimestampNs(push[i].values[k].ts) # << >>
    BY <1>5
  <2>2. PICK k \in DOMAIN push[i].values :
            slot = <<i, k>> /\ ParseTimestampNs(push[i].values[k].ts) # << >>
    BY <2>1
  <2>3. i \in Int /\ k \in Int
    <3>1. DOMAIN push = 1 .. Len(push) /\ Len(push) \in Nat
      BY <1>2, VectorDomain
    <3> DEFINE own == push[i].values
    <3>2. IsVector(own)
      BY <1>2
    <3>3. k \in DOMAIN own
      OBVIOUS
    <3> HIDE DEF own
    <3>4. DOMAIN own = 1 .. Len(own) /\ Len(own) \in Nat
      BY <3>2, VectorDomain
    <3> QED  BY <3>1, <3>3, <3>4
  <2> DEFINE t == push[i].values[k].ts
  <2>4. /\ t.is \in {"integer", "float", "text"} /\ t.n \in Int
        /\ (t.is = "integer" => t.n \in I64) /\ ParseTimestampNs(t) # << >>
    BY <1>1, <2>2
  <2> HIDE DEF t
  <2>5. ParseTimestampNs(t)[1] \in I64
    BY <2>4, ParsedFits
  <2> QED  BY <2>2, <2>3, <2>5 DEF t
<1> QED  BY <1>2, <1>7, <1>8
(* A time that is read is the one that was meant. *)
LEMMA ReadAsMeant ==
    ASSUME NEW push \in LokiPushes, NEW slot \in Readable(push)
    PROVE  LET value == push[slot[1]].values[slot[2]]
           IN  Recognised(value.instant) => ParseTimestampNs(value.ts)[1] = value.instant
<1>1. PICK i \in DOMAIN push : \E k \in DOMAIN push[i].values :
          slot = <<i, k>> /\ ParseTimestampNs(push[i].values[k].ts) # << >>
  BY DEF Readable
<1>2. PICK k \in DOMAIN push[i].values :
          slot = <<i, k>> /\ ParseTimestampNs(push[i].values[k].ts) # << >>
  BY <1>1
<1> DEFINE t == push[i].values[k].ts
           instant == push[i].values[k].instant
<1>3. /\ instant \in Int
      /\ Recognised(instant) /\ t.is # "text" =>
            t \in Writings(instant, Units) \cup {WrittenFloat(instant)}
  BY RequestConstants
<1>4. ParseTimestampNs(t) # << >>
  BY <1>2
<1> HIDE DEF t, instant
<1>5. t.is # "text"
  BY <1>4 DEF ParseTimestampNs
<1>6. Recognised(instant) => ParseTimestampNs(t) = <<instant>>
  BY <1>3, <1>5, WritingsAreRead
<1>7. Recognised(instant) => ParseTimestampNs(t)[1] = instant
  BY <1>6
<1> QED  BY <1>2, <1>7 DEF t, instant

-----------------------------------------------------------------------------
(* push_handler: no level is meant. *)
LEMMA PushKeepsInv ==
    ASSUME LogInv, NEW push \in LokiPushes, PushLoki(push)
    PROVE  LogInv'
<1> DEFINE prepared == PreparedValues(push)
           m == Cardinality(Readable(push))
           slots == SlotsInOrder(Readable(push))
           value(n) == push[slots[n][1]].values[slots[n][2]]
           chosen == [i \in DOMAIN push |-> {n \in DOMAIN prepared : prepared[n].stream = i}]
           batches == [i \in DOMAIN push |->
                          [labels |-> push[i].labels, entries |-> EntriesAt(prepared, chosen[i])]]
           extra == [n \in DOMAIN prepared |->
                        [instant |-> prepared[n].instant, level |-> NoLevel]]
<1>1. /\ IsVector(push) /\ IsFiniteSet(Readable(push))
      /\ \A slot \in Readable(push) :
            /\ slot = <<slot[1], slot[2]>> /\ slot[1] \in Int /\ slot[2] \in Int
            /\ slot[1] \in DOMAIN push
            /\ ParseTimestampNs(push[slot[1]].values[slot[2]].ts)[1] \in I64
  <2>1. \A slot \in Int \X Int : slot = <<slot[1], slot[2]>> /\ slot[1] \in Int /\ slot[2] \in Int
    OBVIOUS
  <2> QED  BY <2>1, ReadableIsFinite
<1>2. /\ m \in Nat /\ DOMAIN slots = 1 .. m
      /\ \A n \in 1 .. m : slots[n] \in Readable(push)
  <2> DEFINE S == Readable(push)
  <2>1. IsFiniteSet(S) /\ \A s \in S : s = <<s[1], s[2]>> /\ s[1] \in Int /\ s[2] \in Int
    BY <1>1
  <2> HIDE DEF S
  <2>2. /\ Cardinality(S) \in Nat /\ DOMAIN SlotsInOrder(S) = 1 .. Cardinality(S)
        /\ \A i \in 1 .. Cardinality(S) : SlotsInOrder(S)[i] \in S
    BY <2>1, SlotsTakeAll
  <2> QED  BY <2>2 DEF S
<1>3. prepared = [n \in 1 .. m |->
            [stream |-> slots[n][1], instant |-> value(n).instant,
             entry |-> [ts |-> ParseTimestampNs(value(n).ts)[1], seq |-> Len(meant) + n,
                        line |-> value(n).line]]]
  BY <1>2 DEF PreparedValues
<1>4. \A n \in 1 .. m : ParseTimestampNs(value(n).ts)[1] \in I64
  BY <1>1, <1>2
<1>5. \A n \in 1 .. m : Recognised(value(n).instant) =>
          ParseTimestampNs(value(n).ts)[1] = value(n).instant
  BY <1>2, ReadAsMeant
<1>6. Len(meant) \in Nat /\ IsVector(meant)
  BY VectorDomain DEF LogInv
<1>7. StoreBatches(batches) /\ meant' = meant \o extra
  <2>1. batches = [i \in DOMAIN push |->
               [labels |-> push[i].labels,
                entries |-> EntriesAt(prepared, {n \in DOMAIN prepared : prepared[n].stream = i})]]
    OBVIOUS
  <2> HIDE DEF batches
  <2> QED  BY <2>1 DEF PushLoki
<1> HIDE DEF prepared, m, slots
<1>8. /\ DOMAIN prepared = 1 .. m /\ prepared = [n \in 1 .. m |-> prepared[n]]
      /\ \A n \in 1 .. m : prepared[n].entry.ts \in I64 /\ prepared[n].entry.seq = Len(meant) + n
  BY <1>3, <1>4
<1> HIDE DEF value
<1>9. Prepared(prepared, m, Len(meant))
  BY <1>2, <1>6, <1>8 DEF Prepared
<1>10. IsVector(batches) /\ DOMAIN batches = DOMAIN push
  <2>1. DOMAIN push = 1 .. Len(push) /\ Len(push) \in Nat
    BY <1>1, VectorDomain
  <2>2. DOMAIN batches = DOMAIN push /\ batches = [i \in 1 .. Len(push) |-> batches[i]]
    BY <2>1
  <2> HIDE DEF batches
  <2> QED  BY <2>1, <2>2, FunctionIsVector
<1>11. Taken(batches, prepared, m, chosen)
  <2>1. ASSUME NEW i \in DOMAIN batches
        PROVE  chosen[i] \in SUBSET (1 .. m) /\ batches[i].entries = EntriesAt(prepared, chosen[i])
    BY <1>8
  <2>2. ASSUME NEW i \in DOMAIN batches, NEW j \in DOMAIN batches, i # j
        PROVE  chosen[i] \cap chosen[j] = {}
    BY <2>2
  <2> HIDE DEF batches, chosen
  <2> QED  BY <1>10, <2>1, <2>2 DEF Taken
<1>12. Meant(extra, m, prepared, batches, chosen)
  <2>1. IsVector(extra) /\ Len(extra) = m
    <3>1. extra = [n \in 1 .. m |-> extra[n]]
      BY <1>8
    <3> HIDE DEF extra
    <3> QED  BY <1>2, <3>1, FunctionIsVector
  <2>2. ASSUME NEW i \in DOMAIN batches PROVE IsLabels(LabelVector(batches[i].labels))
    <3> DEFINE pairs == push[i].labels
    <3>1. pairs \in Seq(Range(pairs))
      BY RequestConstants
    <3>2. IsVector(pairs) /\ batches[i].labels = pairs
      BY <3>1 DEF IsVector, Range
    <3> HIDE DEF pairs
    <3> QED  BY <3>2, LabelVectorIsLabels
  <2>3. ASSUME NEW n \in 1 .. m, Recognised(extra[n].instant)
        PROVE  prepared[n].entry.ts = extra[n].instant
    <3>1. extra[n].instant = value(n).instant /\ prepared[n].entry.ts = ParseTimestampNs(value(n).ts)[1]
      BY <1>3, <1>8
    <3> QED  BY <1>5, <2>3, <3>1
  <2>4. \A n \in 1 .. m : extra[n].level = NoLevel
    BY <1>8
  <2>5. \A i \in DOMAIN batches : chosen[i] \subseteq 1 .. m
    BY <1>8
  <2> HIDE DEF batches, chosen, extra
  <2> QED  BY <2>1, <2>2, <2>3, <2>4, <2>5 DEF Meant
<1> HIDE DEF batches, chosen, extra
<1> QED  BY <1>7, <1>9, <1>11, <1>12, HandlerKeepsInv
-----------------------------------------------------------------------------
(* The labels of a record are a vector that ends with its level. *)
LEMMA KeptIsVector ==
    ASSUME NEW s, IsVector(s), NEW keep \in SUBSET DOMAIN s
    PROVE  IsVector(ItemsAt(s, keep))
<1> DEFINE k == Cardinality(keep)
           out == ItemsAt(s, keep)
<1>1. k \in Nat
  <2>1. DOMAIN s = 1 .. Len(s) /\ Len(s) \in Nat
    BY VectorDomain
  <2> QED  BY <2>1, ItemsAtKept
<1>2. out = [r \in 1 .. k |-> out[r]]
  BY DEF ItemsAt
<1> HIDE DEF k, out
<1>3. IsVector(out)
  BY <1>1, <1>2, FunctionIsVector
<1> QED  BY <1>3 DEF out

LEMMA MappedIsVector ==
    ASSUME NEW s, IsVector(s), NEW t, DOMAIN t = DOMAIN s, t = [i \in DOMAIN s |-> t[i]]
    PROVE  IsVector(t)
<1>1. DOMAIN s = 1 .. Len(s) /\ Len(s) \in Nat
  BY VectorDomain
<1> QED  BY <1>1, FunctionIsVector

LEMMA LastOfVector ==
    ASSUME NEW s, IsVector(s), NEW x
    PROVE  IsVector(s \o <<x>>) /\ (s \o <<x>>) # << >> /\ (s \o <<x>>)[Len(s \o <<x>>)] = x
<1> DEFINE one == <<x>>
           out == s \o one
<1>1. Len(one) = 1 /\ one[1] = x /\ IsVector(one)
  <2>1. one = [i \in 1 .. 1 |-> one[i]] /\ Len(one) = 1 /\ one[1] = x
    OBVIOUS
  <2> HIDE DEF one
  <2> QED  BY <2>1, FunctionIsVector
<1>2. Len(s) \in Nat
  BY VectorDomain
<1> HIDE DEF one
<1>3. /\ IsVector(out) /\ Len(out) = Len(s) + Len(one)
      /\ \A i \in 1 .. Len(one) : out[Len(s) + i] = one[i]
  <2>1. IsVector(s) /\ IsVector(one)
    BY <1>1
  <2>2. /\ IsVector(s \o one) /\ Len(s \o one) = Len(s) + Len(one)
        /\ \A i \in 1 .. Len(s) : (s \o one)[i] = s[i]
        /\ \A i \in 1 .. Len(one) : (s \o one)[Len(s) + i] = one[i]
    BY ONLY <2>1, VectorsJoined
  <2> QED  BY <2>2
<1> HIDE DEF out
<1>4. Len(out) = Len(s) + 1 /\ out[Len(s) + 1] = x
  BY <1>1, <1>3
<1>5. out # << >>
  <2>1. Len(<< >>) = 0
    OBVIOUS
  <2> QED  BY <1>2, <1>4, <2>1
<1> QED  BY <1>3, <1>4, <1>5 DEF out, one

LEMMA ResourceLabelsAreVector ==
    ASSUME NEW attributes, IsVector(attributes)
    PROVE  IsVector(PromoteServiceName(ExtractResourceLabels(attributes)))
<1> DEFINE kept == {i \in DOMAIN attributes : attributes[i].value # "complex"}
           plain == ItemsAt(attributes, kept)
           pairs == ExtractResourceLabels(attributes)
           promoted == FirstNamed(pairs, "service.name")
           service == <<"service", pairs[CHOOSE i \in promoted : TRUE][2]>>
           rest == ItemsAt(pairs, DOMAIN pairs \ promoted)
           existing == FirstNamed(rest, "service")
           renamed == [i \in DOMAIN rest |-> IF i \in existing THEN service ELSE rest[i]]
<1>1. kept \in SUBSET DOMAIN attributes
  OBVIOUS
<1>2. IsVector(plain)
  <2> HIDE DEF kept
  <2> QED  BY <1>1, KeptIsVector
<1>3. pairs = [i \in DOMAIN plain |-> <<plain[i].key, plain[i].value>>]
  BY DEF ExtractResourceLabels
<1>4. IsVector(pairs)
  <2>1. DOMAIN pairs = DOMAIN plain /\ pairs = [i \in DOMAIN plain |-> pairs[i]]
    BY <1>3
  <2> HIDE DEF plain, pairs
  <2> QED  BY <1>2, <2>1, MappedIsVector
<1>5. PromoteServiceName(pairs) = IF promoted = {} THEN pairs
                                  ELSE IF existing = {} THEN Append(rest, service) ELSE renamed
  <2> HIDE DEF pairs
  <2> QED  BY DEF PromoteServiceName
<1> HIDE DEF pairs
<1>6. IsVector(rest)
  <2> DEFINE left == DOMAIN pairs \ promoted
  <2>1. left \in SUBSET DOMAIN pairs
    OBVIOUS
  <2> HIDE DEF left
  <2>2. IsVector(ItemsAt(pairs, left))
    BY <1>4, <2>1, KeptIsVector
  <2> QED  BY <2>2 DEF left
<1> HIDE DEF rest, promoted, service
<1>7. IsVector(Append(rest, service))
  <2> DEFINE T == {rest[i] : i \in DOMAIN rest} \cup {service}
             n == Len(rest)
             out == Append(rest, service)
  <2>1. n \in Nat /\ DOMAIN rest = 1 .. n /\ rest = [i \in 1 .. n |-> rest[i]]
    BY <1>6, VectorDomain DEF IsVector
  <2>2. (\A i \in 1 .. n : rest[i] \in T) /\ service \in T
    BY <2>1
  <2> HIDE DEF T, n
  <2>3. rest \in [1 .. n -> T]
    BY <2>1, <2>2
  <2>4. rest \in Seq(T) /\ Len(rest) = n
    BY <2>1, <2>3
  <2>5. out \in Seq(T) /\ Len(out) = n + 1
    BY <2>2, <2>4
  <2> HIDE DEF out
  <2>6. n + 1 \in Nat /\ out = [i \in 1 .. n + 1 |-> out[i]]
    BY <2>1, <2>5
  <2>7. IsVector(out)
    BY <2>6, FunctionIsVector
  <2> QED  BY <2>7 DEF out
<1>8. IsVector(renamed)
  <2>1. DOMAIN renamed = DOMAIN rest /\ renamed = [i \in DOMAIN rest |-> renamed[i]]
    OBVIOUS
  <2> HIDE DEF renamed
  <2> QED  BY <1>6, <2>1, MappedIsVector
<1> HIDE DEF existing, renamed
<1>9. IsVector(PromoteServiceName(pairs))
  BY <1>4, <1>5, <1>7, <1>8
<1> QED  BY <1>9 DEF pairs

LEMMA RecordLabelsEnd ==
    ASSUME NEW resource, IsVector(resource.attributes), NEW severity
    PROVE  LET pairs == RecordLabels(resource, severity)
           IN  /\ IsVector(pairs) /\ IsLabels(LabelVector(pairs))
               /\ HasLevel(LabelVector(pairs), SeverityToLevel(severity))
<1> DEFINE own == PromoteServiceName(ExtractResourceLabels(resource.attributes))
           level == <<"level", SeverityToLevel(severity)>>
           pairs == RecordLabels(resource, severity)
<1>1. IsVector(own)
  BY ResourceLabelsAreVector
<1>2. pairs = own \o <<level>>
  BY DEF RecordLabels
<1>3. level[1] = "level" /\ level[2] = SeverityToLevel(severity)
  OBVIOUS
<1> HIDE DEF own, level, pairs
<1>4. IsVector(pairs) /\ pairs # << >> /\ pairs[Len(pairs)] = level
  BY <1>1, <1>2, LastOfVector
<1> DEFINE v == LabelVector(pairs)
<1>5. /\ IsLabels(v)
      /\ \A name : pairs # << >> /\ pairs[Len(pairs)][1] = name =>
            /\ name \in DOMAIN v
            /\ v[name][Len(v[name])] = pairs[Len(pairs)][2]
  BY <1>4, LabelVectorIsLabels
<1> HIDE DEF v
<1>6. HasLevel(v, SeverityToLevel(severity))
  BY <1>3, <1>4, <1>5 DEF HasLevel
<1> QED  BY <1>4, <1>5, <1>6 DEF v, pairs
-----------------------------------------------------------------------------
(* ingest_logs: the batches are the classes of records with equal labels. *)
LEMMA TimeFits ==
    ASSUME NEW time \in Nat
    PROVE  RecordTime(time) \in I64
<1>1. Now \in I64
  BY RequestConstants, UnitConstants DEF I64
<1>2. Saturate(time) \in I64
  BY SaturatedFits
<1> QED  BY <1>1, <1>2 DEF RecordTime

LEMMA RecordsAreFinite ==
    ASSUME NEW export \in OtlpExports
    PROVE  LET S == UNION {{i} \X DOMAIN export[i].records : i \in DOMAIN export}
           IN  /\ IsFiniteSet(S)
               /\ \A slot \in S :
                     /\ slot = <<slot[1], slot[2]>> /\ slot[1] \in Int /\ slot[2] \in Int
                     /\ IsVector(export[slot[1]].attributes)
                     /\ export[slot[1]].records[slot[2]].time \in Nat
<1> DEFINE S == UNION {{i} \X DOMAIN export[i].records : i \in DOMAIN export}
           records == [i \in DOMAIN export |-> export[i].records]
<1>1. /\ export \in Seq(Range(export))
      /\ \A i \in DOMAIN export :
            /\ export[i].attributes \in Seq(Range(export[i].attributes))
            /\ export[i].records \in Seq(Range(export[i].records))
            /\ \A k \in DOMAIN export[i].records : export[i].records[k].time \in Nat
  BY RequestConstants
<1>2. /\ IsVector(export)
      /\ \A i \in DOMAIN export : IsVector(export[i].attributes) /\ IsVector(export[i].records)
  BY <1>1 DEF IsVector, Range
<1>3. IsFiniteSet(DOMAIN records) /\ DOMAIN records = DOMAIN export /\ DOMAIN export \subseteq Int
  BY <1>2, VectorDomain
<1>4. \A i \in DOMAIN export : \E n \in Nat : DOMAIN records[i] = 1 .. n
  <2> SUFFICES ASSUME NEW i \in DOMAIN export PROVE \E n \in Nat : DOMAIN records[i] = 1 .. n
    OBVIOUS
  <2>1. IsVector(records[i])
    BY <1>2
  <2> HIDE DEF records
  <2> QED  BY <2>1, VectorDomain
<1>5. ASSUME NEW slot \in S
      PROVE  \E i \in DOMAIN records : \E k \in DOMAIN records[i] : slot = <<i, k>>
  OBVIOUS
<1>6. ASSUME NEW slot \in S
      PROVE  /\ slot = <<slot[1], slot[2]>> /\ slot[1] \in Int /\ slot[2] \in Int
             /\ IsVector(export[slot[1]].attributes)
             /\ export[slot[1]].records[slot[2]].time \in Nat
  <2>1. PICK i \in DOMAIN records : \E k \in DOMAIN records[i] : slot = <<i, k>>
    BY <1>5
  <2>2. PICK k \in DOMAIN records[i] : slot = <<i, k>>
    BY <2>1
  <2>3. i \in DOMAIN export /\ k \in DOMAIN export[i].records
    OBVIOUS
  <2>4. k \in Int
    <3> HIDE DEF records
    <3>1. PICK n \in Nat : DOMAIN records[i] = 1 .. n
      BY <1>3, <1>4
    <3> QED  BY <3>1
  <2> QED  BY <1>1, <1>2, <1>3, <2>2, <2>3, <2>4
<1>7. IsFiniteSet(S)
  <2> HIDE DEF S, records
  <2>1. IsFiniteSet(Slots(records))
    BY <1>3, <1>4, SlotsFinite
  <2>2. S \subseteq Slots(records)
    <3> SUFFICES ASSUME NEW slot \in S PROVE slot \in Slots(records)
      OBVIOUS
    <3> QED  BY <1>5, PairInSlots
  <2> QED  BY <2>1, <2>2, FS_Subset
<1> QED  BY <1>6, <1>7 DEF S

(* The records that an export prepares. *)
LEMMA RecordsArePrepared ==
    ASSUME LogInv, NEW export \in OtlpExports
    PROVE  LET prepared == PreparedRecords(export)
           IN  \E m \in Nat :
                  /\ Prepared(prepared, m, Len(meant))
                  /\ \A n \in 1 .. m :
                        /\ IsLabels(LabelVector(prepared[n].labels))
                        /\ HasLevel(LabelVector(prepared[n].labels), prepared[n].level)
<1> DEFINE S == UNION {{i} \X DOMAIN export[i].records : i \in DOMAIN export}
           slots == SlotsInOrder(S)
           m == Cardinality(S)
           resource(n) == export[slots[n][1]]
           record(n) == resource(n).records[slots[n][2]]
           prepared == PreparedRecords(export)
<1>1. /\ IsFiniteSet(S)
      /\ \A slot \in S :
            /\ slot = <<slot[1], slot[2]>> /\ slot[1] \in Int /\ slot[2] \in Int
            /\ IsVector(export[slot[1]].attributes)
            /\ export[slot[1]].records[slot[2]].time \in Nat
  BY RecordsAreFinite
<1>2. prepared = [n \in DOMAIN slots |->
            [level |-> SeverityToLevel(record(n).severity),
             labels |-> RecordLabels(resource(n), record(n).severity),
             entry |-> [ts |-> RecordTime(record(n).time), seq |-> Len(meant) + n,
                        line |-> record(n).line]]]
  BY DEF PreparedRecords
<1> HIDE DEF S, prepared
<1>3. m \in Nat /\ DOMAIN slots = 1 .. m /\ \A n \in 1 .. m : slots[n] \in S
  <2>1. \A s \in S : s = <<s[1], s[2]>> /\ s[1] \in Int /\ s[2] \in Int
    BY <1>1
  <2> QED  BY <1>1, <2>1, SlotsTakeAll
<1> HIDE DEF m, slots
<1>4. \A n \in 1 .. m : IsVector(resource(n).attributes) /\ record(n).time \in Nat
  BY <1>1, <1>3
<1> HIDE DEF record, resource
<1>5. /\ DOMAIN prepared = 1 .. m /\ prepared = [n \in 1 .. m |-> prepared[n]]
      /\ \A n \in 1 .. m :
            /\ prepared[n].level = SeverityToLevel(record(n).severity)
            /\ prepared[n].labels = RecordLabels(resource(n), record(n).severity)
            /\ prepared[n].entry.ts = RecordTime(record(n).time)
            /\ prepared[n].entry.seq = Len(meant) + n
  BY <1>2, <1>3
<1>6. Len(meant) \in Nat
  BY VectorDomain DEF LogInv
<1>7. Prepared(prepared, m, Len(meant))
  <2>1. \A n \in 1 .. m : prepared[n].entry.ts \in I64
    BY <1>4, <1>5, TimeFits
  <2> QED  BY <1>3, <1>5, <1>6, <2>1 DEF Prepared
<1>8. ASSUME NEW n \in 1 .. m
      PROVE  /\ IsLabels(LabelVector(prepared[n].labels))
             /\ HasLevel(LabelVector(prepared[n].labels), prepared[n].level)
  <2> DEFINE of == resource(n)
             severity == record(n).severity
  <2>1. IsVector(of.attributes)
    BY <1>4
  <2>2. prepared[n].labels = RecordLabels(of, severity) /\ prepared[n].level = SeverityToLevel(severity)
    BY <1>5
  <2> HIDE DEF of, severity
  <2>3. /\ IsLabels(LabelVector(RecordLabels(of, severity)))
        /\ HasLevel(LabelVector(RecordLabels(of, severity)), SeverityToLevel(severity))
    BY <2>1, RecordLabelsEnd
  <2> QED  BY <2>2, <2>3
<1> QED  BY <1>3, <1>7, <1>8 DEF prepared

LEMMA ExportKeepsInv ==
    ASSUME LogInv, NEW export \in OtlpExports, ExportLogs(export)
    PROVE  LogInv'
<1> DEFINE prepared == PreparedRecords(export)
<1>1. PICK m \in Nat :
         /\ Prepared(prepared, m, Len(meant))
         /\ \A n \in 1 .. m :
               /\ IsLabels(LabelVector(prepared[n].labels))
               /\ HasLevel(LabelVector(prepared[n].labels), prepared[n].level)
  BY RecordsArePrepared
<1> DEFINE starts == {n \in DOMAIN prepared :
                         \A p \in 1 .. n - 1 : prepared[p].labels # prepared[n].labels}
           firsts == Ascending(starts)
           labels(g) == prepared[firsts[g]].labels
           chosen == [g \in DOMAIN firsts |-> {n \in DOMAIN prepared : prepared[n].labels = labels(g)}]
           batches == [g \in DOMAIN firsts |->
                          [labels |-> labels(g), entries |-> EntriesAt(prepared, chosen[g])]]
           extra == [n \in DOMAIN prepared |->
                        [instant |-> prepared[n].entry.ts, level |-> prepared[n].level]]
<1>2. StoreBatches(batches) /\ meant' = meant \o extra
  <2>1. batches = [g \in DOMAIN firsts |->
            [labels |-> labels(g),
             entries |-> EntriesAt(prepared, {n \in DOMAIN prepared : prepared[n].labels = labels(g)})]]
    OBVIOUS
  <2>2. GroupRecords(prepared) =
            [g \in DOMAIN firsts |->
                [labels |-> labels(g),
                 entries |-> EntriesAt(prepared, {n \in DOMAIN prepared : prepared[n].labels = labels(g)})]]
    <3> HIDE DEF prepared
    <3> QED  BY DEF GroupRecords
  <2>3. StoreBatches(GroupRecords(prepared)) /\ meant' = meant \o extra
    BY DEF ExportLogs
  <2> HIDE DEF batches
  <2>4. batches = GroupRecords(prepared)
    BY <2>1, <2>2
  <2> QED  BY <2>3, <2>4
<1> HIDE DEF prepared
<1>3. DOMAIN prepared = 1 .. m /\ prepared = [n \in 1 .. m |-> prepared[n]]
  BY <1>1 DEF Prepared
<1>4. /\ starts \in SUBSET (1 .. m) /\ IsFiniteSet(starts) /\ starts \in SUBSET Int
      /\ \A n, p \in starts : prepared[n].labels = prepared[p].labels => n = p
  <2>1. starts \in SUBSET (1 .. m)
    BY <1>3
  <2>2. IsFiniteSet(starts)
    BY <2>1, FS_Subset, IntervalCount
  <2>3. ASSUME NEW n \in starts, NEW p \in starts, prepared[n].labels = prepared[p].labels
        PROVE  ~ (n < p)
    <3>1. n < p => n \in 1 .. p - 1
      BY <2>1
    <3> QED  BY <2>3, <3>1
  <2>4. \A n, p \in starts : prepared[n].labels = prepared[p].labels => n = p
    BY <2>1, <2>3
  <2> QED  BY <2>1, <2>2, <2>4
<1> HIDE DEF starts
<1>5. /\ Cardinality(starts) \in Nat /\ DOMAIN firsts = 1 .. Cardinality(starts)
      /\ \A g \in DOMAIN firsts : firsts[g] \in starts
      /\ \A g, h \in DOMAIN firsts : firsts[g] = firsts[h] => g = h
  BY <1>4, AscendingTakesAll
<1> HIDE DEF firsts
<1>6. \A g, h \in DOMAIN firsts : labels(g) = labels(h) => g = h
  BY <1>4, <1>5
<1>7. IsVector(batches) /\ DOMAIN batches = DOMAIN firsts
  <2>1. batches = [g \in 1 .. Cardinality(starts) |-> batches[g]]
    BY <1>5
  <2>2. DOMAIN batches = DOMAIN firsts
    OBVIOUS
  <2> HIDE DEF batches
  <2> QED  BY <1>5, <2>1, <2>2, FunctionIsVector
<1> HIDE DEF labels
<1>8. Taken(batches, prepared, m, chosen)
  <2>1. ASSUME NEW g \in DOMAIN batches
        PROVE  chosen[g] \in SUBSET (1 .. m) /\ batches[g].entries = EntriesAt(prepared, chosen[g])
    BY <1>3
  <2>2. ASSUME NEW g \in DOMAIN batches, NEW h \in DOMAIN batches, g # h
        PROVE  chosen[g] \cap chosen[h] = {}
    BY <1>6, <2>2
  <2> HIDE DEF batches, chosen
  <2> QED  BY <1>7, <2>1, <2>2 DEF Taken
<1>9. Meant(extra, m, prepared, batches, chosen)
  <2>1. IsVector(extra) /\ Len(extra) = m
    <3>1. extra = [n \in 1 .. m |-> extra[n]]
      BY <1>3
    <3> HIDE DEF extra
    <3> QED  BY <3>1, FunctionIsVector
  <2>2. ASSUME NEW g \in DOMAIN batches PROVE IsLabels(LabelVector(batches[g].labels))
    <3>1. firsts[g] \in 1 .. m
      BY <1>4, <1>5
    <3>2. batches[g].labels = prepared[firsts[g]].labels
      BY DEF labels
    <3> QED  BY <1>1, <3>1, <3>2
  <2>3. ASSUME NEW g \in DOMAIN batches, NEW n \in chosen[g]
        PROVE  HasLevel(LabelVector(batches[g].labels), extra[n].level)
    <3>1. n \in 1 .. m /\ prepared[n].labels = batches[g].labels /\ extra[n].level = prepared[n].level
      BY <1>3
    <3> QED  BY <1>1, <3>1
  <2>4. \A n \in 1 .. m : prepared[n].entry.ts = extra[n].instant
    BY <1>3
  <2> HIDE DEF batches, chosen, extra
  <2> QED  BY <2>1, <2>2, <2>3, <2>4 DEF Meant
<1> HIDE DEF batches, chosen, extra
<1> QED  BY <1>1, <1>2, <1>8, <1>9, HandlerKeepsInv
-----------------------------------------------------------------------------
(* An emptied store is a well kept one. *)
LEMMA EmptyIsVector == IsVector(<< >>) /\ Len(<< >>) = 0 /\ DOMAIN << >> = {}
<1> DEFINE T == {<< >>[i] : i \in DOMAIN << >>}
<1>1. \A U : << >> \in Seq(U)
  OBVIOUS
<1>2. << >> \in Seq(T)
  BY <1>1
<1>3. IsVector(<< >>)
  BY <1>2 DEF IsVector
<1> QED  BY <1>3

LEMMA EmptyIsKept ==
    ASSUME NEW used, NEW vectors, NEW held
    PROVE  WellKept(<< >>, used, vectors, held)
BY EmptyIsVector DEF WellKept

LEMMA InitHasLogInv ==
    ASSUME Init
    PROVE  LogInv
<1>1. store = << >> /\ meant = << >>
  BY DEF Init
<1>2. WellKept(store, 1 .. Len(meant), {}, {})
  BY <1>1, EmptyIsKept
<1>3. IsVector(meant)
  BY <1>1, EmptyIsVector
<1> QED  BY <1>2, <1>3 DEF LogInv

LEMMA ClearKeepsInv ==
    ASSUME LogInv, Clear
    PROVE  LogInv'
<1> DEFINE used == 1 .. Len(meant)
<1>1. PICK vectors, held : /\ WellKept(store, used, vectors, held)
                           /\ \A v \in vectors : IsLabels(v)
                           /\ \A p \in held : AsMeant(p[1], p[2])
  BY DEF LogInv
<1>2. store' = << >> /\ meant' = meant
  BY DEF Clear
<1>3. WellKept(<< >>, used, vectors, held)
  BY EmptyIsKept
<1>4. WellKept(store, used, vectors, held)'
  <2>1. used' = used
    BY <1>2
  <2> HIDE DEF used
  <2> QED  BY <1>2, <1>3, <2>1 DEF WellKept, StreamKept, Numbered
<1>5. \A v \in vectors : IsLabels(v)'
  BY <1>1 DEF IsLabels, IsVector
<1>6. \A p \in held : AsMeant(p[1], p[2])'
  BY <1>1, <1>2 DEF AsMeant, HasLevel
<1>7. IsVector(meant)'
  BY <1>2 DEF LogInv, IsVector
<1> QED  BY <1>4, <1>5, <1>6, <1>7 DEF LogInv

LEMMA SameLogsKeepInv ==
    ASSUME LogInv, UNCHANGED <<store, meant>>
    PROVE  LogInv'
<1> DEFINE used == 1 .. Len(meant)
<1>1. PICK vectors, held : /\ WellKept(store, used, vectors, held)
                           /\ \A v \in vectors : IsLabels(v)
                           /\ \A p \in held : AsMeant(p[1], p[2])
  BY DEF LogInv
<1>2. store' = store /\ meant' = meant /\ used' = used
  OBVIOUS
<1>3. WellKept(store, used, vectors, held)'
  <2> HIDE DEF used
  <2>1. WellKept(store', used', vectors, held)
    BY <1>1, <1>2
  <2> QED  BY <2>1 DEF WellKept, StreamKept, Numbered
<1>4. \A v \in vectors : IsLabels(v)'
  BY <1>1 DEF IsLabels, IsVector
<1>5. \A p \in held : AsMeant(p[1], p[2])'
  BY <1>1, <1>2 DEF AsMeant, HasLevel
<1>6. IsVector(meant)'
  BY <1>2 DEF LogInv, IsVector
<1> QED  BY <1>3, <1>4, <1>5, <1>6 DEF LogInv

(* The store of the log side is well kept whatever comes in: pushes and
   exports, spans and samples of the other signals, and resets.            *)
THEOREM LogInvAlways == ReportSpec => []LogInv
<1>1. ReportInit => LogInv
  BY InitHasLogInv DEF ReportInit
<1>2. ASSUME LogInv, [ReportNext]_reportVars PROVE LogInv'
  <2>1. CASE \E push \in LokiPushes : PushLoki(push)
    BY <1>2, <2>1, PushKeepsInv
  <2>2. CASE \E export \in OtlpExports : ExportLogs(export)
    BY <1>2, <2>2, ExportKeepsInv
  <2>3. CASE \E batch \in SpanExports : ExportSpans(batch)
    BY <1>2, <2>3, SameLogsKeepInv DEF ExportSpans
  <2>4. CASE \E write \in SampleWrites : WriteSample(write)
    <3>1. UNCHANGED <<store, meant>>
      BY <2>4 DEF WriteSample
    <3> QED  BY <1>2, <3>1, SameLogsKeepInv
  <2>5. CASE ResetAll
    BY <1>2, <2>5, ClearKeepsInv DEF ResetAll
  <2>6. CASE UNCHANGED reportVars
    BY <1>2, <2>6, SameLogsKeepInv DEF reportVars
  <2> QED  BY <1>2, <2>1, <2>2, <2>3, <2>4, <2>5, <2>6 DEF ReportNext
<1> QED  BY <1>1, <1>2, PTL DEF ReportSpec

(* evaluate_limited_stream_query and the limit of format_logql_result keep
   the newest entries, as many of each time, each under its own stream.     *)
THEOREM LimitsAlwaysKeepNewest == ReportSpec => []NewestAreKept
<1>1. LogInv => NewestAreKept
  <2> SUFFICES ASSUME LogInv PROVE NewestAreKept
    OBVIOUS
  <2> DEFINE used == 1 .. Len(meant)
  <2>1. PICK vectors, held : WellKept(store, used, vectors, held)
    BY DEF LogInv
  <2>2. used \in SUBSET Int
    OBVIOUS
  <2> HIDE DEF used
  <2> QED  BY <2>1, <2>2, NewestAreKeptNow
<1> QED  BY <1>1, LogInvAlways, PTL

(* handle_query_logs counts the lines a query finds, says whether it shows
   them all, and leaves out at most one line newer than those it shows.    *)
THEOREM QueryLogsAlwaysHonest == ReportSpec => []QueryLogsIsHonest
<1>1. LogInv => QueryLogsIsHonest
  <2> SUFFICES ASSUME LogInv PROVE QueryLogsIsHonest
    OBVIOUS
  <2> DEFINE used == 1 .. Len(meant)
  <2>1. PICK vectors, held : WellKept(store, used, vectors, held)
    BY DEF LogInv
  <2>2. used \in SUBSET Int
    OBVIOUS
  <2> HIDE DEF used
  <2> QED  BY <2>1, <2>2, QueryLogsHonestNow
<1> QED  BY <1>1, LogInvAlways, PTL
-----------------------------------------------------------------------------
(* A selector, and the filter that states the same condition. *)
FilterOf(m) == [is |-> "label", key |-> m.name, op |-> m.op, operand |-> m.operand]

LastPasses(labels, m) ==
    m.name \in DOMAIN labels /\ CompareLabel(m.op, labels[m.name][Len(labels[m.name])], m.operand)

LEMMA NoStageKeeps ==
    ASSUME NEW line, NEW labels
    PROVE  ApplyStages(line, << >>, labels) # << >>
<1> DEFINE none == << >>
           seed == <<SeedLabels(labels)>>
           step(n, x) == IF x # << >> /\ PassesStage(none[n], line, x[1])
                         THEN <<ExtractedBy(none[n], line, x[1])>> ELSE << >>
           Good(f) == f = [n \in 0 .. Len(none) |-> IF n = 0 THEN seed ELSE step(n, f[n - 1])]
           upTo == CHOOSE f : Good(f)
<1>1. ApplyStages(line, none, labels) = upTo[Len(none)]
  BY DEF ApplyStages
<1>2. Len(none) = 0
  OBVIOUS
<1> HIDE DEF none, step, seed
<1>3. Good([n \in 0 .. 0 |-> seed])
  BY <1>2
<1> HIDE DEF Good
<1>4. Good(upTo)
  BY <1>3
<1> HIDE DEF upTo
<1>5. upTo[0] = seed
  BY <1>2, <1>4 DEF Good
<1>6. ApplyStages(line, none, labels) # << >>
  BY <1>1, <1>2, <1>5 DEF seed
<1> QED  BY <1>6 DEF none

LEMMA OneStageKeeps ==
    ASSUME NEW line, NEW labels, NEW stage
    PROVE  ApplyStages(line, <<stage>>, labels) # << >> <=> PassesStage(stage, line, SeedLabels(labels))
<1> DEFINE one == <<stage>>
           seed == <<SeedLabels(labels)>>
           step(n, x) == IF x # << >> /\ PassesStage(one[n], line, x[1])
                         THEN <<ExtractedBy(one[n], line, x[1])>> ELSE << >>
           Good(f) == f = [n \in 0 .. Len(one) |-> IF n = 0 THEN seed ELSE step(n, f[n - 1])]
           upTo == CHOOSE f : Good(f)
           end == step(1, seed)
           g == [n \in 0 .. 1 |-> IF n = 0 THEN seed ELSE end]
<1>1. ApplyStages(line, one, labels) = upTo[Len(one)]
  BY DEF ApplyStages
<1>2. Len(one) = 1 /\ one[1] = stage
  OBVIOUS
<1>3. seed # << >> /\ seed[1] = SeedLabels(labels)
  OBVIOUS
<1>4. end = IF PassesStage(stage, line, SeedLabels(labels))
            THEN <<ExtractedBy(stage, line, SeedLabels(labels))>> ELSE << >>
  <2> HIDE DEF seed, one
  <2> QED  BY <1>2, <1>3
<1> HIDE DEF one, step, seed
<1>5. Good(g)
  <2>1. g[0] = seed /\ g[1] = step(1, g[0])
    OBVIOUS
  <2>2. \A n \in 0 .. 1 : n = 0 \/ (n = 1 /\ n - 1 = 0)
    OBVIOUS
  <2>3. g = [n \in 0 .. 1 |-> g[n]]
    OBVIOUS
  <2> HIDE DEF g, end
  <2>4. \A n \in 0 .. 1 : g[n] = IF n = 0 THEN seed ELSE step(n, g[n - 1])
    BY <2>1, <2>2
  <2> QED  BY <1>2, <2>3, <2>4
<1> HIDE DEF Good, g
<1>6. Good(upTo)
  BY <1>5
<1> HIDE DEF upTo
<1>7. upTo[0] = seed /\ upTo[1] = step(1, upTo[0])
  BY <1>2, <1>6 DEF Good
<1>8. ApplyStages(line, one, labels) = end
  BY <1>1, <1>2, <1>7
<1> HIDE DEF end
<1>9. end # << >> <=> PassesStage(stage, line, SeedLabels(labels))
  BY <1>4
<1> QED  BY <1>8, <1>9 DEF one

LEMMA FilterPasses ==
    ASSUME NEW m, NEW line, NEW labels
    PROVE  ApplyStages(line, <<FilterOf(m)>>, labels) # << >> <=> LastPasses(labels, m)
<1> DEFINE stage == FilterOf(m)
           seed == SeedLabels(labels)
<1>1. stage.is = "label" /\ stage.key = m.name /\ stage.op = m.op /\ stage.operand = m.operand
  BY DEF FilterOf
<1>2. DOMAIN seed = DOMAIN labels /\ \A n \in DOMAIN labels : seed[n] = labels[n][Len(labels[n])]
  BY DEF SeedLabels
<1> HIDE DEF stage, seed
<1>3. PassesStage(stage, line, seed) <=>
         stage.key \in DOMAIN seed /\ CompareLabel(stage.op, seed[stage.key], stage.operand)
  BY <1>1 DEF PassesStage
<1>4. PassesStage(stage, line, seed) <=> LastPasses(labels, m)
  BY <1>1, <1>2, <1>3 DEF LastPasses
<1>5. ApplyStages(line, <<stage>>, labels) # << >> <=> PassesStage(stage, line, seed)
  BY OneStageKeeps DEF seed
<1> QED  BY <1>4, <1>5 DEF stage

(* What the unlimited query finds over all times. *)
LEMMA FoundEntries ==
    ASSUME NEW used \in SUBSET Int, NEW vectors, NEW held, WellKept(store, used, vectors, held),
           NEW query, NEW x
    PROVE  x \in Found(query) <=>
              \E i \in Selected(store, query.matchers) : \E k \in DOMAIN store[i].entries :
                 /\ x = store[i].entries[k]
                 /\ ApplyStages(x.line, query.stages, store[i].labels) # << >>
<1> DEFINE C == CandidatesAt(store, query, Earliest, MaxI64)
<1>1. x \in Found(query) <=> \E r \in Records(query, Earliest, MaxI64) : r.entry = x
  <2>1. Members(EvaluateUnlimited(store, query, Earliest, MaxI64)) = Records(query, Earliest, MaxI64)
    BY UnlimitedFindsAll
  <2> DEFINE groups == EvaluateUnlimited(store, query, Earliest, MaxI64)
  <2>2. Found(query) = EntriesIn(groups)
    BY DEF Found
  <2> HIDE DEF groups
  <2>3. EntriesIn(groups) = {r.entry : r \in Members(groups)}
    BY EntriesOfMembers
  <2>4. x \in Found(query) <=> \E r \in Members(groups) : r.entry = x
    BY <2>2, <2>3
  <2> QED  BY <2>1, <2>4 DEF groups
<1>2. (\E r \in Records(query, Earliest, MaxI64) : r.entry = x) <=>
         \E s \in C : store[s[1]].entries[s[2]] = x
  <2>1. ASSUME NEW r \in Records(query, Earliest, MaxI64), r.entry = x
        PROVE  \E s \in C : store[s[1]].entries[s[2]] = x
    <3>1. PICK s \in C : r = RecordOf(s)
      BY DEF Records
    <3>2. r.entry = store[s[1]].entries[s[2]]
      BY <3>1 DEF RecordOf
    <3> QED  BY <2>1, <3>2
  <2>2. ASSUME NEW s \in C, store[s[1]].entries[s[2]] = x
        PROVE  \E r \in Records(query, Earliest, MaxI64) : r.entry = x
    <3>1. RecordOf(s) \in Records(query, Earliest, MaxI64)
      BY DEF Records
    <3>2. RecordOf(s).entry = x
      BY <2>2 DEF RecordOf
    <3> QED  BY <3>1, <3>2
  <2> QED  BY <2>1, <2>2
<1>3. \A i, k : <<i, k>> \in C <=> i \in Selected(store, query.matchers)
                                   /\ k \in KeptAt(store[i], query.stages, Earliest, MaxI64)
  BY DEF CandidatesAt
<1>4. \A s \in C : s = <<s[1], s[2]>>
  BY DEF CandidatesAt
<1>5. ASSUME NEW i \in DOMAIN store, NEW k \in DOMAIN store[i].entries
      PROVE  Earliest <= store[i].entries[k].ts /\ store[i].entries[k].ts <= MaxI64
  <2>1. store[i].entries[k].ts \in I64
    BY DEF WellKept, StreamKept, Numbered
  <2> QED  BY <2>1, UnitConstants DEF I64, Earliest
<1>6. \A i \in DOMAIN store : \A k :
         k \in KeptAt(store[i], query.stages, Earliest, MaxI64) <=>
            /\ k \in DOMAIN store[i].entries
            /\ ApplyStages(store[i].entries[k].line, query.stages, store[i].labels) # << >>
  BY <1>5 DEF KeptAt
<1>7. Selected(store, query.matchers) \subseteq DOMAIN store
  BY DEF Selected
<1> HIDE DEF C
<1>8. ASSUME NEW s \in C, store[s[1]].entries[s[2]] = x
      PROVE  \E i \in Selected(store, query.matchers) : \E k \in DOMAIN store[i].entries :
                /\ x = store[i].entries[k]
                /\ ApplyStages(x.line, query.stages, store[i].labels) # << >>
  <2>1. s[1] \in Selected(store, query.matchers)
        /\ s[2] \in KeptAt(store[s[1]], query.stages, Earliest, MaxI64)
    BY <1>3, <1>4
  <2>2. s[2] \in DOMAIN store[s[1]].entries
        /\ ApplyStages(x.line, query.stages, store[s[1]].labels) # << >>
    BY <1>6, <1>7, <1>8, <2>1
  <2> QED  BY <1>8, <2>1, <2>2
<1>9. ASSUME NEW i \in Selected(store, query.matchers), NEW k \in DOMAIN store[i].entries,
             x = store[i].entries[k], ApplyStages(x.line, query.stages, store[i].labels) # << >>
      PROVE  \E s \in C : store[s[1]].entries[s[2]] = x
  <2>1. <<i, k>> \in C
    BY <1>3, <1>6, <1>7, <1>9
  <2> DEFINE s == <<i, k>>
  <2>2. s \in C /\ s[1] = i /\ s[2] = k
    BY <2>1
  <2> HIDE DEF s
  <2> QED  BY <1>9, <2>2
<1> QED  BY <1>1, <1>2, <1>8, <1>9
LEMMA SelectorFinds ==
    ASSUME NEW used \in SUBSET Int, NEW vectors, NEW held, WellKept(store, used, vectors, held),
           NEW m \in Matchers, NEW x
    PROVE  x \in Found(StreamQuery({m}, << >>)) <=>
              \E i \in DOMAIN store : \E k \in DOMAIN store[i].entries :
                 x = store[i].entries[k] /\ Satisfies(LabelPairs(store[i].labels), m)
<1> DEFINE query == StreamQuery({m}, << >>)
<1>1. query.matchers = {m} /\ query.stages = << >>
  BY DEF StreamQuery
<1> HIDE DEF query
<1>2. ValidMatcher(m)
  BY RequestConstants
<1>3. \A i : i \in Selected(store, query.matchers) <=>
                i \in DOMAIN store /\ Satisfies(LabelPairs(store[i].labels), m)
  BY <1>1, <1>2 DEF Selected
<1>4. \A i : ApplyStages(x.line, query.stages, store[i].labels) # << >>
  BY <1>1, NoStageKeeps
<1>5. x \in Found(query) <=>
         \E i \in Selected(store, query.matchers) : \E k \in DOMAIN store[i].entries :
            /\ x = store[i].entries[k]
            /\ ApplyStages(x.line, query.stages, store[i].labels) # << >>
  BY FoundEntries
<1>6. x \in Found(query) <=>
         \E i \in DOMAIN store : \E k \in DOMAIN store[i].entries :
            x = store[i].entries[k] /\ Satisfies(LabelPairs(store[i].labels), m)
  BY <1>3, <1>4, <1>5
<1> QED  BY <1>6 DEF query

LEMMA FilterFinds ==
    ASSUME NEW used \in SUBSET Int, NEW vectors, NEW held, WellKept(store, used, vectors, held),
           NEW m, NEW x
    PROVE  x \in Found(StreamQuery({}, <<FilterOf(m)>>)) <=>
              \E i \in DOMAIN store : \E k \in DOMAIN store[i].entries :
                 x = store[i].entries[k] /\ LastPasses(store[i].labels, m)
<1> DEFINE stages == <<FilterOf(m)>>
           query == StreamQuery({}, stages)
<1>1. query.matchers = {} /\ query.stages = stages
  BY DEF StreamQuery
<1> HIDE DEF query
<1>2. Selected(store, query.matchers) = DOMAIN store
  BY <1>1 DEF Selected
<1>3. \A i : ApplyStages(x.line, stages, store[i].labels) # << >> <=> LastPasses(store[i].labels, m)
  BY FilterPasses
<1> HIDE DEF stages
<1>4. x \in Found(query) <=>
         \E i \in Selected(store, query.matchers) : \E k \in DOMAIN store[i].entries :
            /\ x = store[i].entries[k]
            /\ ApplyStages(x.line, query.stages, store[i].labels) # << >>
  BY FoundEntries
<1>5. x \in Found(query) <=>
         \E i \in DOMAIN store : \E k \in DOMAIN store[i].entries :
            x = store[i].entries[k] /\ LastPasses(store[i].labels, m)
  BY <1>1, <1>2, <1>3, <1>4
<1> QED  BY <1>5 DEF query, stages

(* The pairs of the labels against the last value of a name. *)
LEMMA PairsOfLabels ==
    ASSUME NEW labels, NEW name, NEW v
    PROVE  <<name, v>> \in LabelPairs(labels) <=>
              name \in DOMAIN labels /\ \E r \in DOMAIN labels[name] : labels[name][r] = v
BY DEF LabelPairs, Range

LEMMA LastIsAPair ==
    ASSUME NEW labels, IsLabels(labels), NEW name \in DOMAIN labels
    PROVE  <<name, labels[name][Len(labels[name])]>> \in LabelPairs(labels)
<1> DEFINE values == labels[name]
           n == Len(values)
<1>1. IsVector(values) /\ values # << >>
  BY DEF IsLabels
<1> HIDE DEF values
<1>2. DOMAIN values = 1 .. n /\ n \in Nat
  BY <1>1, VectorDomain
<1>3. n # 0
  <2>1. ASSUME n = 0 PROVE FALSE
    <3>1. values \in Seq({values[i] : i \in DOMAIN values})
      BY <1>1 DEF IsVector
    <3> DEFINE T == {values[i] : i \in DOMAIN values}
    <3>2. values \in Seq(T) /\ Len(values) = 0
      BY <2>1, <3>1
    <3> HIDE DEF T
    <3>3. values = << >>
      BY <3>2, EmptySeq
    <3> QED  BY <1>1, <3>3
  <2> QED  BY <2>1
<1>4. n \in DOMAIN values
  BY <1>2, <1>3
<1>5. <<name, values[n]>> \in LabelPairs(labels)
  BY <1>4, PairsOfLabels DEF values
<1> QED  BY <1>5 DEF values

LEMMA SinglePair ==
    ASSUME NEW labels, IsLabels(labels), NEW name \in DOMAIN labels, Len(labels[name]) = 1, NEW v
    PROVE  <<name, v>> \in LabelPairs(labels) <=> v = labels[name][1]
<1>1. IsVector(labels[name])
  BY DEF IsLabels
<1> DEFINE values == labels[name]
<1>2. DOMAIN values = 1 .. 1
  <2> HIDE DEF values
  <2>1. IsVector(values) /\ Len(values) = 1
    BY <1>1 DEF values
  <2> QED  BY <2>1, VectorDomain
<1> QED  BY <1>2, PairsOfLabels

(* On a name with one value the two conditions agree, but for a regex found in
   the middle of the value.                                                *)
LEMMA ConditionsAgree ==
    ASSUME NEW m \in Matchers, NEW labels, IsLabels(labels),
           m.name \in DOMAIN labels, Len(labels[m.name]) = 1
    PROVE  /\ m.op \in {"Eq", "Neq"} =>
                 (Satisfies(LabelPairs(labels), m) <=> LastPasses(labels, m))
           /\ m.op = "Regex" => (Satisfies(LabelPairs(labels), m) => LastPasses(labels, m))
           /\ m.op = "NotRegex" => (LastPasses(labels, m) => Satisfies(LabelPairs(labels), m))
<1> DEFINE value == labels[m.name][1]
           pairs == LabelPairs(labels)
<1>1. \A v : <<m.name, v>> \in pairs <=> v = value
  BY SinglePair
<1>2. LastPasses(labels, m) <=> CompareLabel(m.op, value, m.operand)
  BY DEF LastPasses
<1>3. m.op \in {"Eq", "Neq", "Regex", "NotRegex"} /\ ValidMatcher(m)
  BY RequestConstants
<1> HIDE DEF value, pairs
<1>4. CASE m.op = "Eq"
  BY <1>1, <1>2, <1>4 DEF Satisfies, CompareLabel, pairs
<1>5. CASE m.op = "Neq"
  BY <1>1, <1>2, <1>5 DEF Satisfies, CompareLabel, pairs
<1>6. m.op \in {"Regex", "NotRegex"} => PatternMatches[m.operand] \subseteq PatternFinds[m.operand]
  BY <1>3, LogQLConstants DEF ValidMatcher
<1>7. CASE m.op = "Regex"
  <2>1. Satisfies(pairs, m) <=> \E v \in PatternMatches[m.operand] : <<m.name, v>> \in pairs
    BY <1>7 DEF Satisfies
  <2>2. CompareLabel(m.op, value, m.operand) <=> value \in PatternFinds[m.operand]
    BY <1>7 DEF CompareLabel
  <2>3. Satisfies(pairs, m) => LastPasses(labels, m)
    BY <1>1, <1>2, <1>6, <1>7, <2>1, <2>2
  <2> QED  BY <1>7, <2>3 DEF pairs
<1>8. CASE m.op = "NotRegex"
  <2>1. Satisfies(pairs, m) <=> \A v \in PatternMatches[m.operand] : <<m.name, v>> \notin pairs
    BY <1>8 DEF Satisfies
  <2>2. CompareLabel(m.op, value, m.operand) <=> value \notin PatternFinds[m.operand]
    BY <1>8 DEF CompareLabel
  <2>3. LastPasses(labels, m) => Satisfies(pairs, m)
    BY <1>1, <1>2, <1>6, <1>8, <2>1, <2>2
  <2> QED  BY <1>8, <2>3 DEF pairs
<1> QED  BY <1>3, <1>4, <1>5, <1>7, <1>8
(* The inductive invariant gives each entry one stream, and a level that is
   the last of its labels.                                                 *)
LEMMA EntryHasOneStream ==
    ASSUME LogInv
    PROVE  /\ \A i \in DOMAIN store : IsLabels(store[i].labels)
           /\ \A i, j \in DOMAIN store :
                 \A k \in DOMAIN store[i].entries, l \in DOMAIN store[j].entries :
                    store[i].entries[k] = store[j].entries[l] => i = j
           /\ \A i \in DOMAIN store : \A k \in DOMAIN store[i].entries :
                 AsMeant(store[i].labels, store[i].entries[k])
<1>1. PICK vectors, held : /\ WellKept(store, 1 .. Len(meant), vectors, held)
                           /\ \A v \in vectors : IsLabels(v)
                           /\ \A p \in held : AsMeant(p[1], p[2])
  BY DEF LogInv
<1>2. \A i \in DOMAIN store : store[i].labels \in vectors
  BY <1>1 DEF WellKept, StreamKept
<1>3. ASSUME NEW i \in DOMAIN store, NEW k \in DOMAIN store[i].entries
      PROVE  AsMeant(store[i].labels, store[i].entries[k])
  <2> DEFINE p == <<store[i].labels, store[i].entries[k]>>
  <2>1. p \in held
    BY <1>1 DEF WellKept, StreamKept, Numbered
  <2>2. p[1] = store[i].labels /\ p[2] = store[i].entries[k]
    OBVIOUS
  <2> HIDE DEF p
  <2> QED  BY <1>1, <2>1, <2>2
<1>4. \A i, j \in DOMAIN store :
         \A k \in DOMAIN store[i].entries, l \in DOMAIN store[j].entries :
            store[i].entries[k] = store[j].entries[l] => i = j
  BY <1>1 DEF WellKept
<1> QED  BY <1>1, <1>2, <1>3, <1>4

LEMMA FiltersFollowNow ==
    ASSUME LogInv
    PROVE  FiltersFollowSelectors
<1> SUFFICES ASSUME NEW m \in Matchers
             PROVE  LET selected == Found(StreamQuery({m}, << >>))
                        filtered == Found(StreamQuery({}, <<FilterOf(m)>>))
                        once == UNION {ToSet(store[i].entries) :
                                   i \in {j \in DOMAIN store :
                                             /\ m.name \in DOMAIN store[j].labels
                                             /\ Len(store[j].labels[m.name]) = 1}}
                    IN  /\ m.op \in {"Eq", "Regex"} => selected \cap once \subseteq filtered
                        /\ m.op \in {"Neq", "NotRegex"} => filtered \cap once \subseteq selected
                        /\ m.op \in {"Eq", "Neq"} => selected \cap once = filtered \cap once
                        /\ m.op = "Eq" /\ m.name = "level" =>
                              /\ filtered \subseteq selected
                              /\ \A x \in AllEntries :
                                    meant[x.seq].level # NoLevel =>
                                       (x \in filtered <=> meant[x.seq].level = m.operand)
  BY DEF FiltersFollowSelectors, FilterOf
<1> DEFINE selected == Found(StreamQuery({m}, << >>))
           filtered == Found(StreamQuery({}, <<FilterOf(m)>>))
           single == {j \in DOMAIN store : /\ m.name \in DOMAIN store[j].labels
                                           /\ Len(store[j].labels[m.name]) = 1}
           once == UNION {ToSet(store[i].entries) : i \in single}
           at(x, i) == \E k \in DOMAIN store[i].entries : x = store[i].entries[k]
           selects(i) == Satisfies(LabelPairs(store[i].labels), m)
           passes(i) == LastPasses(store[i].labels, m)
<1>1. PICK vectors, held : WellKept(store, 1 .. Len(meant), vectors, held)
  BY DEF LogInv
<1> DEFINE used == 1 .. Len(meant)
<1>2. used \in SUBSET Int /\ WellKept(store, used, vectors, held)
  BY <1>1
<1> HIDE DEF used
<1>3. \A x : x \in selected <=> \E i \in DOMAIN store : at(x, i) /\ selects(i)
  BY <1>2, SelectorFinds
<1>4. \A x : x \in filtered <=> \E i \in DOMAIN store : at(x, i) /\ passes(i)
  BY <1>2, FilterFinds
<1>5. \A x : x \in once <=> \E i \in single : at(x, i)
  BY DEF ToSet
<1>6. \A x : \A i, j \in DOMAIN store : at(x, i) /\ at(x, j) => i = j
  BY EntryHasOneStream
<1>7. \A i \in DOMAIN store : IsLabels(store[i].labels)
  BY EntryHasOneStream
<1>8. \A i \in single :
         /\ i \in DOMAIN store
         /\ m.op \in {"Eq", "Neq"} => (selects(i) <=> passes(i))
         /\ m.op = "Regex" => (selects(i) => passes(i))
         /\ m.op = "NotRegex" => (passes(i) => selects(i))
  <2> SUFFICES ASSUME NEW i \in single
               PROVE  /\ m.op \in {"Eq", "Neq"} => (selects(i) <=> passes(i))
                      /\ m.op = "Regex" => (selects(i) => passes(i))
                      /\ m.op = "NotRegex" => (passes(i) => selects(i))
    OBVIOUS
  <2> DEFINE labels == store[i].labels
  <2>1. IsLabels(labels) /\ m.name \in DOMAIN labels /\ Len(labels[m.name]) = 1
    BY <1>7
  <2> HIDE DEF labels
  <2>2. /\ m.op \in {"Eq", "Neq"} => (Satisfies(LabelPairs(labels), m) <=> LastPasses(labels, m))
        /\ m.op = "Regex" => (Satisfies(LabelPairs(labels), m) => LastPasses(labels, m))
        /\ m.op = "NotRegex" => (LastPasses(labels, m) => Satisfies(LabelPairs(labels), m))
    BY <2>1, ConditionsAgree
  <2> QED  BY <2>2 DEF labels
<1>9. ASSUME m.op = "Eq", m.name = "level"
      PROVE  \A i \in DOMAIN store : passes(i) => selects(i)
  <2> SUFFICES ASSUME NEW i \in DOMAIN store, passes(i) PROVE selects(i)
    OBVIOUS
  <2> DEFINE labels == store[i].labels
             value == labels[m.name][Len(labels[m.name])]
  <2>1. m.name \in DOMAIN labels /\ CompareLabel(m.op, value, m.operand)
    BY DEF LastPasses
  <2>2. value = m.operand
    BY <1>9, <2>1 DEF CompareLabel
  <2>3. <<m.name, value>> \in LabelPairs(labels)
    <3> HIDE DEF labels
    <3>1. IsLabels(labels) /\ m.name \in DOMAIN labels
      BY <1>7, <2>1 DEF labels
    <3> QED  BY <3>1, LastIsAPair
  <2> QED  BY <1>9, <2>2, <2>3 DEF Satisfies
<1>10. ASSUME m.op = "Eq", m.name = "level", NEW i \in DOMAIN store,
              NEW k \in DOMAIN store[i].entries, meant[store[i].entries[k].seq].level # NoLevel
       PROVE  passes(i) <=> meant[store[i].entries[k].seq].level = m.operand
  <2> DEFINE labels == store[i].labels
             level == meant[store[i].entries[k].seq].level
  <2>1. HasLevel(labels, level)
    BY <1>10, EntryHasOneStream DEF AsMeant
  <2>2. passes(i) <=> /\ m.name \in DOMAIN labels
                      /\ CompareLabel(m.op, labels[m.name][Len(labels[m.name])], m.operand)
    BY DEF LastPasses
  <2> HIDE DEF labels, level
  <2>3. "level" \in DOMAIN labels /\ labels["level"][Len(labels["level"])] = level
    BY <2>1 DEF HasLevel
  <2>4. passes(i) <=> level = m.operand
    BY <1>10, <2>2, <2>3 DEF CompareLabel
  <2> QED  BY <2>4 DEF level
<1>11. \A x : x \in AllEntries <=> \E i \in DOMAIN store : at(x, i)
  BY DEF AllEntries, ToSet
<1>12. ASSUME m.op = "Eq", m.name = "level", NEW x \in AllEntries, meant[x.seq].level # NoLevel
       PROVE  x \in filtered <=> meant[x.seq].level = m.operand
  <2> HIDE DEF filtered, passes
  <2>1. PICK i \in DOMAIN store : at(x, i)
    BY <1>11
  <2>2. PICK k \in DOMAIN store[i].entries : x = store[i].entries[k]
    BY <2>1
  <2>3. passes(i) <=> meant[x.seq].level = m.operand
    BY <1>10, <1>12, <2>2
  <2> HIDE DEF at
  <2>4. x \in filtered <=> passes(i)
    BY <1>4, <1>6, <2>1
  <2> QED  BY <2>3, <2>4
<1> HIDE DEF at, selects, passes, single, once, selected, filtered
<1>13. \A x \in once : \E i \in single : at(x, i) /\ (x \in selected <=> selects(i))
                                                  /\ (x \in filtered <=> passes(i))
  <2> SUFFICES ASSUME NEW x \in once
               PROVE  \E i \in single : at(x, i) /\ (x \in selected <=> selects(i))
                                                 /\ (x \in filtered <=> passes(i))
    OBVIOUS
  <2>1. PICK i \in single : at(x, i)
    BY <1>5
  <2>2. x \in selected <=> selects(i)
    BY <1>3, <1>6, <1>8, <2>1
  <2>3. x \in filtered <=> passes(i)
    BY <1>4, <1>6, <1>8, <2>1
  <2> QED  BY <2>1, <2>2, <2>3
<1>14. /\ m.op \in {"Eq", "Regex"} => selected \cap once \subseteq filtered
       /\ m.op \in {"Neq", "NotRegex"} => filtered \cap once \subseteq selected
       /\ m.op \in {"Eq", "Neq"} => selected \cap once = filtered \cap once
  BY <1>8, <1>13
<1>15. m.op = "Eq" /\ m.name = "level" => filtered \subseteq selected
  BY <1>3, <1>4, <1>9
<1>16. m.op = "Eq" /\ m.name = "level" =>
          \A x \in AllEntries : meant[x.seq].level # NoLevel =>
             (x \in filtered <=> meant[x.seq].level = m.operand)
  BY <1>12
<1> QED  BY <1>14, <1>15, <1>16 DEF selected, filtered, once, single

(* A label filter keeps what the selector of the same condition selects, and
   on the level of an OTLP record goes by its severity.                    *)
THEOREM FiltersAlwaysFollow == ReportSpec => []FiltersFollowSelectors
<1>1. LogInv => FiltersFollowSelectors
  BY FiltersFollowNow
<1> QED  BY <1>1, LogInvAlways, PTL
-----------------------------------------------------------------------------
(* A query for one instant finds the entries of this time, as long as the
   default limit is no less than the number of all entries.                *)
LEMMA EntriesOfInstant ==
    ASSUME LogInv, NEW i \in Int, NEW x
    PROVE  (\E c \in Records(StreamQuery({}, << >>), i, i) : c.entry = x) <=>
               x \in AllEntries /\ x.ts = i
<1> DEFINE query == StreamQuery({}, << >>)
           S == CandidatesAt(store, query, i, i)
<1>1. query.matchers = {} /\ query.stages = << >>
  BY DEF StreamQuery
<1> HIDE DEF query
<1>2. Selected(store, query.matchers) = DOMAIN store
  BY <1>1 DEF Selected
<1>3. \A j, k : <<j, k>> \in S <=> j \in DOMAIN store /\ k \in KeptAt(store[j], query.stages, i, i)
  BY <1>2 DEF CandidatesAt
<1>4. ASSUME NEW j \in DOMAIN store, NEW k
      PROVE  k \in KeptAt(store[j], query.stages, i, i) <=>
                k \in DOMAIN store[j].entries /\ store[j].entries[k].ts = i
  <2>1. PICK vectors, held : WellKept(store, 1 .. Len(meant), vectors, held)
    BY DEF LogInv
  <2>2. k \in DOMAIN store[j].entries => store[j].entries[k].ts \in I64
    BY <2>1 DEF WellKept, StreamKept, Numbered
  <2>3. \A t \in I64 : t \in Int /\ (i <= t /\ t <= i <=> t = i)
    BY DEF I64
  <2>4. ApplyStages(store[j].entries[k].line, query.stages, store[j].labels) # << >>
    BY <1>1, NoStageKeeps
  <2> QED  BY <2>2, <2>3, <2>4 DEF KeptAt
<1>5. \A s \in S : s = <<s[1], s[2]>>
  BY DEF CandidatesAt
<1> HIDE DEF S
<1>6. ASSUME NEW c \in Records(query, i, i), c.entry = x PROVE x \in AllEntries /\ x.ts = i
  <2>1. PICK s \in S : c = RecordOf(s)
    BY DEF Records, S
  <2>2. x = store[s[1]].entries[s[2]]
    BY <1>6, <2>1 DEF RecordOf
  <2>3. s[1] \in DOMAIN store /\ s[2] \in DOMAIN store[s[1]].entries /\ x.ts = i
    BY <1>3, <1>4, <1>5, <2>2
  <2> QED  BY <2>2, <2>3 DEF AllEntries, ToSet
<1>7. ASSUME x \in AllEntries, x.ts = i PROVE \E c \in Records(query, i, i) : c.entry = x
  <2>1. PICK j \in DOMAIN store : \E k \in DOMAIN store[j].entries : x = store[j].entries[k]
    BY <1>7 DEF AllEntries, ToSet
  <2>2. PICK k \in DOMAIN store[j].entries : x = store[j].entries[k]
    BY <2>1
  <2> DEFINE s == <<j, k>>
  <2>3. s \in S /\ s[1] = j /\ s[2] = k
    BY <1>3, <1>4, <1>7, <2>2
  <2> HIDE DEF s
  <2>4. RecordOf(s) \in Records(query, i, i) /\ RecordOf(s).entry = x
    BY <2>2, <2>3 DEF Records, RecordOf, S
  <2> QED  BY <2>4
<1> QED  BY <1>6, <1>7 DEF query

LEMMA EntriesAreNumbered ==
    ASSUME LogInv
    PROVE  /\ IsFiniteSet(AllEntries)
           /\ \A x, y \in AllEntries : x.seq = y.seq => x = y
<1> DEFINE used == 1 .. Len(meant)
           number == [x \in AllEntries |-> x.seq]
<1>1. PICK vectors, held : WellKept(store, used, vectors, held)
  BY DEF LogInv
<1>2. ASSUME NEW x \in AllEntries
      PROVE  \E i \in DOMAIN store : \E k \in DOMAIN store[i].entries : x = store[i].entries[k]
  BY DEF AllEntries, ToSet
<1>3. IsFiniteSet(used)
  BY VectorDomain, IntervalCount DEF LogInv
<1> HIDE DEF used
<1>4. ASSUME NEW x \in AllEntries PROVE x.seq \in used
  BY <1>1, <1>2 DEF WellKept, StreamKept, Numbered
<1>5. ASSUME NEW x \in AllEntries, NEW y \in AllEntries, x.seq = y.seq PROVE x = y
  <2>1. PICK i \in DOMAIN store : \E k \in DOMAIN store[i].entries : x = store[i].entries[k]
    BY <1>2
  <2>2. PICK k \in DOMAIN store[i].entries : x = store[i].entries[k]
    BY <2>1
  <2>3. PICK j \in DOMAIN store : \E l \in DOMAIN store[j].entries : y = store[j].entries[l]
    BY <1>2
  <2>4. PICK l \in DOMAIN store[j].entries : y = store[j].entries[l]
    BY <2>3
  <2>5. i = j
    BY <1>1, <1>5, <2>2, <2>4 DEF WellKept
  <2>6. k = l
    BY <1>1, <1>5, <2>2, <2>4, <2>5 DEF WellKept, StreamKept, Numbered
  <2> QED  BY <2>2, <2>4, <2>5, <2>6
<1>6. number \in Injection(AllEntries, used)
  BY <1>4, <1>5 DEF Injection, IsInjective
<1> HIDE DEF number
<1> QED  BY <1>3, <1>5, <1>6, FS_Injection

LEMMA NoMoreThanStored ==
    ASSUME LogInv, NEW i \in Int
    PROVE  LET C == Records(StreamQuery({}, << >>), i, i)
           IN  /\ Apart(C) /\ Cardinality(C) \in Nat /\ Cardinality(AllEntries) \in Nat
               /\ Cardinality(C) <= Cardinality(AllEntries)
<1> DEFINE query == StreamQuery({}, << >>)
           C == Records(query, i, i)
           entry == [c \in C |-> c.entry]
           used == 1 .. Len(meant)
<1>1. PICK vectors, held : WellKept(store, used, vectors, held)
  BY DEF LogInv
<1>2. used \in SUBSET Int
  OBVIOUS
<1>3. Apart(C)
  <2> HIDE DEF used, query
  <2> QED  BY <1>1, <1>2, RecordsAreApart
<1>4. \A c \in C : c.entry \in AllEntries
  BY EntriesOfInstant
<1> HIDE DEF C
<1>5. entry \in Injection(C, AllEntries)
  BY <1>3, <1>4 DEF Apart, Injection, IsInjective
<1>6. IsFiniteSet(AllEntries)
  BY EntriesAreNumbered
<1> HIDE DEF entry
<1>7. Cardinality(C) <= Cardinality(AllEntries)
  BY <1>5, <1>6, FS_Injection
<1>8. Cardinality(C) \in Nat /\ Cardinality(AllEntries) \in Nat
  BY <1>3, <1>6, FS_CardinalityType DEF Apart
<1> QED  BY <1>3, <1>7, <1>8 DEF C, query

LEMMA OneInstantIsAsked ==
    ASSUME NEW i \in Instants, NEW from, NEW to,
           from \in Writings(i, Units) \cup {WrittenFloat(i)},
           to \in Writings(i, Units) \cup {WrittenFloat(i)}
    PROVE  LET query == StreamQuery({}, << >>)
               limit == BoundedLimit(<< >>)
           IN  QueryRange(store, query, Asked(from, to), Now).result =
                  FormatStreams(store, EvaluateLimited(store, query, i, i, limit), limit)
<1> DEFINE query == StreamQuery({}, << >>)
           limit == BoundedLimit(<< >>)
           written == Asked(from, to)
<1>1. i \in Int /\ Recognised(i)
  BY RequestConstants
<1>2. ParseTimestampNs(from) = <<i>> /\ ParseTimestampNs(to) = <<i>>
  BY <1>1, WritingsAreRead
<1>3. /\ written.start = <<from>> /\ written.end = <<to>> /\ written.step = << >>
      /\ written.limit = << >>
  BY DEF Asked
<1>4. query.is = "streams"
  BY DEF StreamQuery
<1> HIDE DEF query, written, limit
<1>5. \A d : TimeOr(written.start, d) = <<i>> /\ TimeOr(written.end, d) = <<i>>
  BY <1>2, <1>3 DEF TimeOr
<1>6. ~ TooManySteps(query, i, i, << >>)
  BY <1>4 DEF TooManySteps
<1>7. QueryRange(store, query, written, Now) = Evaluate(store, query, i, i, << >>, BoundedLimit(<< >>))
  BY <1>3, <1>5, <1>6 DEF QueryRange
<1>8. Evaluate(store, query, i, i, << >>, limit).result =
          FormatStreams(store, EvaluateLimited(store, query, i, i, limit), limit)
  BY <1>4 DEF Evaluate
<1> QED  BY <1>7, <1>8 DEF query, written, limit

LEMMA InstantsFoundNow ==
    ASSUME LogInv, Cardinality(AllEntries) <= BoundedLimit(<< >>)
    PROVE  PushedInstantsAreFound
<1> SUFFICES ASSUME NEW i \in Instants,
                    NEW from \in Writings(i, Units) \cup {WrittenFloat(i)},
                    NEW to \in Writings(i, Units) \cup {WrittenFloat(i)}
             PROVE  LET found == EntriesIn(QueryRange(store, StreamQuery({}, << >>),
                                                      Asked(from, to), Now).result)
                    IN  /\ {x \in found : Recognised(meant[x.seq].instant)} =
                              {x \in AllEntries : meant[x.seq].instant = i}
                        /\ \A w \in Writings(i, Units \ {"us"}) :
                              /\ ParamToNs(w.n) = i
                              /\ ParseTimestampMs(w) = ParseTimestampMs(WrittenFloat(i))
  BY DEF PushedInstantsAreFound
<1> DEFINE query == StreamQuery({}, << >>)
           limit == BoundedLimit(<< >>)
           groups == QueryRange(store, query, Asked(from, to), Now).result
           limited == EvaluateLimited(store, query, i, i, limit)
           C == Records(query, i, i)
           stored == Cardinality(AllEntries)
<1>1. i \in Int /\ Recognised(i)
  BY RequestConstants
<1>2. limit \in Nat /\ stored \in Nat /\ stored <= limit
  <2>1. limit \in Nat
    BY LogQLConstants DEF BoundedLimit
  <2>2. stored \in Nat
    BY <1>1, NoMoreThanStored
  <2> QED  BY <2>1, <2>2
<1>3. groups = FormatStreams(store, limited, limit)
  BY OneInstantIsAsked
<1>4. Apart(C) /\ Cardinality(C) \in Nat /\ Cardinality(C) <= stored
  BY <1>1, NoMoreThanStored
<1>5. IsNewest(C, Moments(C), Members(limited), limit)
  <2>1. PICK vectors, held : WellKept(store, 1 .. Len(meant), vectors, held)
    BY DEF LogInv
  <2> DEFINE used == 1 .. Len(meant)
  <2>2. used \in SUBSET Int /\ WellKept(store, used, vectors, held)
    BY <2>1
  <2> HIDE DEF used, limit, query
  <2> QED  BY <1>2, <2>2, LimitedFindsNewest
<1>6. \A x : (\E c \in C : c.entry = x) <=> x \in AllEntries /\ x.ts = i
  BY <1>1, EntriesOfInstant
<1> HIDE DEF query, limit, groups, limited, C, stored
<1>7. Members(limited) = C /\ Cardinality(Members(limited)) <= limit
  <2>1. Members(limited) \subseteq C /\ Cardinality(Members(limited)) = Cardinality(C)
    BY <1>2, <1>4, <1>5 DEF IsNewest
  <2>2. IsFiniteSet(C)
    BY <1>4 DEF Apart
  <2>3. Members(limited) = C
    BY <2>1, <2>2, FS_Subset
  <2> QED  BY <1>2, <1>4, <2>3
<1>8. groups = limited
  BY <1>2, <1>3, <1>4, <1>7 DEF FormatStreams, Members
<1>9. \A x : x \in EntriesIn(groups) <=> x \in AllEntries /\ x.ts = i
  BY <1>6, <1>7, <1>8, EntriesOfMembers
<1>10. \A x \in AllEntries : Recognised(meant[x.seq].instant) => x.ts = meant[x.seq].instant
  <2> SUFFICES ASSUME NEW x \in AllEntries
               PROVE  Recognised(meant[x.seq].instant) => x.ts = meant[x.seq].instant
    OBVIOUS
  <2>1. PICK j \in DOMAIN store : \E k \in DOMAIN store[j].entries : x = store[j].entries[k]
    BY DEF AllEntries, ToSet
  <2>2. AsMeant(store[j].labels, x)
    BY <2>1, EntryHasOneStream
  <2> QED  BY <2>2 DEF AsMeant
<1>11. {x \in EntriesIn(groups) : Recognised(meant[x.seq].instant)} =
           {x \in AllEntries : meant[x.seq].instant = i}
  BY <1>1, <1>9, <1>10
<1>12. \A w \in Writings(i, Units \ {"us"}) :
          ParamToNs(w.n) = i /\ ParseTimestampMs(w) = ParseTimestampMs(WrittenFloat(i))
  BY <1>1, WritingsAreRead
<1> QED  BY <1>11, <1>12 DEF groups, query

(* As long as the store has no more entries than the default limit, an entry
   pushed with its time in any unit is found by a query for its instant in
   any unit.                                                               *)
THEOREM InstantsAlwaysFound ==
    ReportSpec => [](Cardinality(AllEntries) <= BoundedLimit(<< >>) => PushedInstantsAreFound)
<1>1. LogInv => (Cardinality(AllEntries) <= BoundedLimit(<< >>) => PushedInstantsAreFound)
  BY InstantsFoundNow
<1> QED  BY <1>1, LogInvAlways, PTL

=============================================================================
