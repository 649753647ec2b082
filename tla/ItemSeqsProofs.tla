---------------------------- MODULE ItemSeqsProofs ----------------------------
(***************************************************************************)
(* What the operations on vectors of items compute: a batch sorted in      *)
(* keeps every item and the order of time and arrival, `retain` keeps the  *)
(* items it should, and the items before a time are a prefix.               *)
(***************************************************************************)
EXTENDS ItemSeqs, Functions, FiniteSetTheorems, NaturalsInduction, SequenceTheorems, TLAPS

(* A vector in the order of time. *)
TimeSorted(s) == \A i, j \in 1 .. Len(s) : i < j => s[i].ts <= s[j].ts

(* `order` puts the elements of S in one line. *)
IsLine(S, order) ==
    /\ \A x \in S : <<x, x>> \notin order
    /\ \A x, y, z \in S : <<x, y>> \in order /\ <<y, z>> \in order => <<x, z>> \in order
    /\ \A x, y \in S : x = y \/ <<x, y>> \in order \/ <<y, x>> \in order

(* The place of x in that line. *)
Place(S, order, x) == Cardinality({y \in S : <<y, x>> \in order}) + 1

EveryPlaceIsTaken(S, order) ==
    \A k \in 1 .. Cardinality(S) : \E x \in S : Place(S, order, x) = k

(* `out` has the items of s, each once, by time and then in their order... *)
Rearranges(from, s, out) ==
    /\ from \in Bijection(1 .. Len(s), 1 .. Len(s))
    /\ out = [r \in 1 .. Len(s) |-> s[from[r]]]
    /\ \A r, q \in 1 .. Len(s) : r < q => SortsBefore(s, from[r], from[q])

(* ... or those at the positions of `keep`, in their order. *)
Selects(from, s, keep, out) ==
    /\ from \in Bijection(1 .. Cardinality(keep), keep)
    /\ out = [r \in 1 .. Cardinality(keep) |-> s[from[r]]]
    /\ \A r, q \in 1 .. Cardinality(keep) : r < q => from[r] < from[q]

-----------------------------------------------------------------------------
(* Counting up to n: what holds at 0 and at the next number holds. *)
LEMMA CountUp ==
    ASSUME NEW n \in Nat, NEW S, 0 \in S, \A k \in 0 .. n : k \in S /\ k < n => k + 1 \in S
    PROVE  \A k \in 0 .. n : k \in S
<1> SUFFICES ASSUME NEW k \in 0 .. n, k \notin S PROVE FALSE
  OBVIOUS
<1> DEFINE missed == {j \in Nat : j \in 0 .. n /\ j \notin S}
           R == OpToRel(<, Nat)
<1>1. missed \subseteq Nat /\ k \in missed
  OBVIOUS
<1>2. IsWellFoundedOn(R, Nat)
  BY NatLessThanWellFounded
<1>3. \E j \in missed : \A l \in missed : <<l, j>> \notin R
  <2> HIDE DEF missed, R
  <2>1. missed # {}
    BY <1>1
  <2> QED  BY <1>1, <1>2, <2>1, WFMin, Zenon
<1>4. PICK j \in missed : \A l \in missed : ~ (l < j)
  BY <1>3 DEF OpToRel
<1>5. j # 0 /\ j \in 0 .. n /\ j \notin S
  OBVIOUS
<1>6. j - 1 \in 0 .. n /\ j - 1 \in Nat /\ j - 1 < j /\ (j - 1) + 1 = j
  BY <1>5
<1>7. j - 1 \in S
  BY <1>4, <1>6
<1> QED  BY <1>5, <1>6, <1>7

(* A function defined step by step: f[0] is base, and every later value
   comes from the one before it.                                           *)
Stepwise(n, T, base, step, f) ==
    f \in [0 .. n -> T] /\ f[0] = base /\ \A i \in 1 .. n : f[i] = step[<<i, f[i - 1]>>]

(* It exists. *)
LEMMA StepwiseExists ==
    ASSUME NEW n \in Nat, NEW T, NEW base \in T, NEW step \in [(1 .. n) \X T -> T]
    PROVE  \E f : Stepwise(n, T, base, step, f)
<1> DEFINE Ends(f, k) == /\ f \in [0 .. k -> T] /\ f[0] = base
                         /\ \A i \in 1 .. k : f[i] = step[<<i, f[i - 1]>>]
           reached == {k \in 0 .. n : \E f : Ends(f, k)}
<1>1. Ends([i \in 0 .. 0 |-> base], 0)
  OBVIOUS
<1>2. ASSUME NEW k \in 0 .. n, NEW f, Ends(f, k), k < n PROVE \E g : Ends(g, k + 1)
  <2> DEFINE next == step[<<k + 1, f[k]>>]
             g == [i \in 0 .. k + 1 |-> IF i = k + 1 THEN next ELSE f[i]]
  <2>1. k \in Nat /\ k + 1 \in 1 .. n /\ f[k] \in T
    BY <1>2
  <2>2. next \in T
    BY <2>1
  <2>3. /\ g \in [0 .. k + 1 -> T] /\ g[k + 1] = next
        /\ \A i \in 0 .. k : g[i] = f[i]
    <3> HIDE DEF next
    <3> QED  BY <1>2, <2>1, <2>2
  <2>4. g[0] = base
    BY <1>2, <2>1, <2>3
  <2> HIDE DEF g
  <2>5. ASSUME NEW i \in 1 .. k + 1 PROVE g[i] = step[<<i, g[i - 1]>>]
    <3>1. CASE i = k + 1
      <4>1. i - 1 = k /\ k \in 0 .. k
        BY <2>1, <3>1
      <4>2. g[i - 1] = f[k]
        BY <2>3, <4>1
      <4> QED  BY <2>3, <3>1, <4>2
    <3>2. CASE i \in 1 .. k
      <4>1. i \in 0 .. k /\ i - 1 \in 0 .. k
        BY <2>1, <3>2
      <4>2. g[i] = f[i] /\ g[i - 1] = f[i - 1]
        BY <2>3, <4>1
      <4> QED  BY <1>2, <3>2, <4>2
    <3> QED  BY <2>1, <3>1, <3>2
  <2>6. Ends(g, k + 1)
    BY <2>3, <2>4, <2>5
  <2> HIDE DEF Ends
  <2> QED  BY <2>6
<1> HIDE DEF Ends
<1>3. 0 \in reached /\ \A k \in 0 .. n : k \in reached /\ k < n => k + 1 \in reached
  BY <1>1, <1>2
<1> HIDE DEF reached
<1>4. n \in reached
  BY <1>3, CountUp
<1> QED  BY <1>4 DEF reached, Ends, Stepwise

LEMMA StrictSubsetIsSmaller ==
    ASSUME NEW S, IsFiniteSet(S), NEW T \in SUBSET S, NEW x \in S, x \notin T
    PROVE  /\ Cardinality(T) \in Nat /\ Cardinality(S) \in Nat
           /\ Cardinality(T) < Cardinality(S)
<1>1. IsFiniteSet(T) /\ Cardinality(T) <= Cardinality(S)
  BY FS_Subset
<1>2. Cardinality(S) # Cardinality(T)
  BY FS_Subset
<1>3. Cardinality(T) \in Nat /\ Cardinality(S) \in Nat
  BY <1>1, FS_CardinalityType
<1> QED  BY <1>1, <1>2, <1>3

LEMMA IntervalCount ==
    ASSUME NEW n \in Nat
    PROVE  IsFiniteSet(1 .. n) /\ Cardinality(1 .. n) = n
BY FS_Interval

(* The places of a finite line are 1, 2, ... up to the number of elements:
   each is taken by one element, and they follow the line.                 *)
LEMMA PlacesFollowTheLine ==
    ASSUME NEW S, IsFiniteSet(S), NEW order, IsLine(S, order)
    PROVE  /\ Cardinality(S) \in Nat
           /\ \A x \in S : Place(S, order, x) \in 1 .. Cardinality(S)
           /\ \A x, y \in S : <<x, y>> \in order => Place(S, order, x) < Place(S, order, y)
           /\ \A x, y \in S : Place(S, order, x) = Place(S, order, y) => x = y
           /\ \A k \in 1 .. Cardinality(S) : \E x \in S : Place(S, order, x) = k
<1> DEFINE below(x) == {y \in S : <<y, x>> \in order}
           place == [x \in S |-> Place(S, order, x)]
           n == Cardinality(S)
<1>1. \A x \in S : below(x) \in SUBSET S /\ x \notin below(x) /\ IsFiniteSet(below(x))
  <2> SUFFICES ASSUME NEW x \in S
               PROVE  below(x) \in SUBSET S /\ x \notin below(x) /\ IsFiniteSet(below(x))
    OBVIOUS
  <2>1. below(x) \in SUBSET S /\ x \notin below(x)
    BY DEF IsLine
  <2> QED  BY <2>1, FS_Subset
<1>2. n \in Nat
  BY FS_CardinalityType
<1>3. \A x \in S : Place(S, order, x) \in 1 .. n
  <2> SUFFICES ASSUME NEW x \in S PROVE Place(S, order, x) \in 1 .. n
    OBVIOUS
  <2> HIDE DEF below
  <2>1. Cardinality(below(x)) \in Nat /\ Cardinality(below(x)) < n
    BY <1>1, StrictSubsetIsSmaller
  <2> QED  BY <1>2, <2>1 DEF Place, below
<1>4. \A x, y \in S : <<x, y>> \in order => Place(S, order, x) < Place(S, order, y)
  <2> SUFFICES ASSUME NEW x \in S, NEW y \in S, <<x, y>> \in order
               PROVE  Place(S, order, x) < Place(S, order, y)
    OBVIOUS
  <2>1. below(x) \subseteq below(y) /\ x \in below(y)
    BY DEF IsLine
  <2> HIDE DEF below
  <2>2. Cardinality(below(x)) \in Nat /\ Cardinality(below(y)) \in Nat
        /\ Cardinality(below(x)) < Cardinality(below(y))
    BY <1>1, <2>1, StrictSubsetIsSmaller
  <2> QED  BY <2>2 DEF Place, below
<1>5. \A x, y \in S : Place(S, order, x) = Place(S, order, y) => x = y
  <2> SUFFICES ASSUME NEW x \in S, NEW y \in S, Place(S, order, x) = Place(S, order, y), x # y
               PROVE  FALSE
    OBVIOUS
  <2>1. <<x, y>> \in order \/ <<y, x>> \in order
    BY DEF IsLine
  <2>2. Place(S, order, x) \in Int /\ Place(S, order, y) \in Int
    BY <1>2, <1>3
  <2> QED  BY <1>4, <2>1, <2>2
<1>6. \A k \in 1 .. n : \E x \in S : Place(S, order, x) = k
  <2>1. place \in Injection(S, 1 .. n)
    BY <1>3, <1>5 DEF Injection, IsInjective
  <2>2. IsFiniteSet(1 .. n) /\ Cardinality(1 .. n) = n
    BY <1>2, FS_Interval
  <2> HIDE DEF place, n
  <2>3. place \in Surjection(S, 1 .. n)
    BY <2>1, <2>2, FS_Injection DEF n
  <2> QED  BY <2>3 DEF Surjection, place
<1> QED  BY <1>2, <1>3, <1>4, <1>5, <1>6

LEMMA PlacesAreTaken ==
    ASSUME NEW S, IsFiniteSet(S), NEW order, IsLine(S, order)
    PROVE  EveryPlaceIsTaken(S, order)
BY PlacesFollowTheLine DEF EveryPlaceIsTaken

(* Who stands at a place: the line as a vector. *)
LEMMA LineInOrder ==
    ASSUME NEW S, IsFiniteSet(S), NEW order, IsLine(S, order),
           NEW at \in [1 .. Cardinality(S) -> S],
           \A r \in 1 .. Cardinality(S) : Place(S, order, at[r]) = r
    PROVE  /\ at \in Bijection(1 .. Cardinality(S), S)
           /\ \A r, q \in 1 .. Cardinality(S) : r < q => <<at[r], at[q]>> \in order
<1> DEFINE n == Cardinality(S)
           place(x) == Place(S, order, x)
<1>1. /\ n \in Nat
      /\ \A x \in S : place(x) \in 1 .. n
      /\ \A x, y \in S : <<x, y>> \in order => place(x) < place(y)
      /\ \A x, y \in S : place(x) = place(y) => x = y
      /\ \A r \in 1 .. n : \E x \in S : place(x) = r
  BY PlacesFollowTheLine
<1>2. at \in [1 .. n -> S]
  OBVIOUS
<1>3. \A r \in 1 .. n : at[r] \in S /\ place(at[r]) = r
  OBVIOUS
<1> HIDE DEF n, place
<1>4. \A r, q \in 1 .. n : r < q => <<at[r], at[q]>> \in order
  <2> SUFFICES ASSUME NEW r \in 1 .. n, NEW q \in 1 .. n, r < q PROVE <<at[r], at[q]>> \in order
    OBVIOUS
  <2>1. at[r] \in S /\ at[q] \in S /\ place(at[r]) = r /\ place(at[q]) = q
    BY <1>3
  <2>2. r \in Int /\ q \in Int
    BY <1>1
  <2>3. <<at[q], at[r]>> \in order => q < r
    <3>1. <<at[q], at[r]>> \in order => place(at[q]) < place(at[r])
      BY <1>1, <2>1, Zenon
    <3> QED  BY <2>1, <3>1
  <2>4. at[r] # at[q]
    BY <2>1, <2>2
  <2>5. <<at[q], at[r]>> \notin order
    BY <2>2, <2>3
  <2> QED  BY <2>1, <2>4, <2>5 DEF IsLine
<1>5. at \in Bijection(1 .. n, S)
  <2>1. at \in [1 .. n -> S] /\ \A r, q \in 1 .. n : at[r] = at[q] => r = q
    BY <1>2, <1>3
  <2>2. \A x \in S : \E r \in 1 .. n : at[r] = x
    <3> SUFFICES ASSUME NEW x \in S PROVE place(x) \in 1 .. n /\ at[place(x)] = x
      OBVIOUS
    <3> QED  BY <1>1, <1>3
  <2> QED  BY <2>1, <2>2 DEF Bijection, Injection, IsInjective, Surjection
<1> QED  BY <1>4, <1>5 DEF n

(* LineUp: the line as a vector. *)
LEMMA LinedUp ==
    ASSUME NEW S, IsFiniteSet(S), NEW order, IsLine(S, order)
    PROVE  /\ Cardinality(S) \in Nat
           /\ LineUp(S, order) \in Bijection(1 .. Cardinality(S), S)
           /\ \A r, q \in 1 .. Cardinality(S) :
                 r < q => <<LineUp(S, order)[r], LineUp(S, order)[q]>> \in order
<1> DEFINE n == Cardinality(S)
           ahead(x) == Cardinality({y \in S : <<y, x>> \in order})
           at == [r \in 1 .. n |-> CHOOSE x \in S : ahead(x) = r - 1]
<1>1. n \in Nat /\ \A x \in S : ahead(x) \in Nat
  BY FS_Subset, FS_CardinalityType
<1>2. ASSUME NEW r \in 1 .. n PROVE \E x \in S : ahead(x) = r - 1
  <2>1. PICK x \in S : Place(S, order, x) = r
    BY PlacesAreTaken DEF EveryPlaceIsTaken
  <2>2. ahead(x) + 1 = r
    BY <2>1 DEF Place
  <2> HIDE DEF ahead
  <2>3. ahead(x) = r - 1
    BY <1>1, <2>2
  <2> QED  BY <2>3
<1>3. \A r \in 1 .. n : at[r] \in S /\ ahead(at[r]) = r - 1
  <2> HIDE DEF ahead
  <2> QED  BY <1>2
<1>4. at \in [1 .. n -> S]
  <2> HIDE DEF ahead
  <2> QED  BY <1>2
<1>5. \A r \in 1 .. n : Place(S, order, at[r]) = r
  <2> HIDE DEF at
  <2> SUFFICES ASSUME NEW r \in 1 .. n PROVE Place(S, order, at[r]) = r
    OBVIOUS
  <2>1. Place(S, order, at[r]) = ahead(at[r]) + 1
    BY DEF Place
  <2> HIDE DEF ahead, n
  <2> QED  BY <1>1, <1>3, <2>1
<1>6. LineUp(S, order) = at
  BY DEF LineUp
<1> HIDE DEF at
<1> QED  BY <1>1, <1>4, <1>5, <1>6, LineInOrder

(* As many elements stand at one of the first k places as there are places. *)
LEMMA FirstPlaces ==
    ASSUME NEW S, IsFiniteSet(S), NEW order, IsLine(S, order), NEW k \in 0 .. Cardinality(S)
    PROVE  Cardinality({x \in S : Place(S, order, x) <= k}) = k
<1> DEFINE first == {x \in S : Place(S, order, x) <= k}
           place == [x \in first |-> Place(S, order, x)]
<1>1. k \in Nat /\ Cardinality(S) \in Nat
  BY FS_CardinalityType
<1>2. place \in Bijection(first, 1 .. k)
  BY <1>1, PlacesFollowTheLine DEF Bijection, Injection, IsInjective, Surjection
<1>3. IsFiniteSet(first)
  BY FS_Subset
<1>4. IsFiniteSet(1 .. k) /\ Cardinality(1 .. k) = k
  BY <1>1, FS_Interval
<1> HIDE DEF first, place
<1>5. ExistsBijection(first, 1 .. k)
  BY <1>2 DEF ExistsBijection
<1>6. Cardinality(1 .. k) = Cardinality(first)
  BY <1>3, <1>5, FS_Bijection
<1> QED  BY <1>4, <1>6 DEF first

-----------------------------------------------------------------------------
(* sort_by_key: the line of the stable order has the positions of s, and the
   sorted vector goes through it.                                          *)
LEMMA StableSortIsPermutation ==
    ASSUME NEW T, NEW s \in Seq(T), \A x \in T : x.ts \in Int
    PROVE  \E from : Rearranges(from, s, StableSortByTime(s))
<1> DEFINE S == 1 .. Len(s)
           order == {p \in S \X S : SortsBefore(s, p[1], p[2])}
<1>1. Len(s) \in Nat /\ \A i \in S : s[i].ts \in Int
  OBVIOUS
<1>2. IsFiniteSet(S) /\ Cardinality(S) = Len(s)
  BY <1>1, IntervalCount
<1>3. \A i, j \in S : <<i, j>> \in order <=> SortsBefore(s, i, j)
  OBVIOUS
<1>4. IsLine(S, order)
  <2> HIDE DEF order
  <2>1. \A i \in S : i \in Int
    BY <1>1
  <2>2. \A i \in S : <<i, i>> \notin order
    BY <1>1, <1>3, <2>1 DEF SortsBefore
  <2>3. \A i, j, k \in S : <<i, j>> \in order /\ <<j, k>> \in order => <<i, k>> \in order
    BY <1>1, <1>3, <2>1 DEF SortsBefore
  <2>4. \A i, j \in S : i = j \/ <<i, j>> \in order \/ <<j, i>> \in order
    <3>1. \A i, j \in S : i = j \/ SortsBefore(s, i, j) \/ SortsBefore(s, j, i)
      BY <1>1, <2>1 DEF SortsBefore
    <3> QED  BY <1>3, <3>1
  <2> QED  BY <2>2, <2>3, <2>4 DEF IsLine
<1>5. \A i \in S : SortRank(s, i) = Place(S, order, i)
  <2> SUFFICES ASSUME NEW i \in S PROVE SortRank(s, i) = Place(S, order, i)
    OBVIOUS
  <2>1. {j \in S : SortsBefore(s, j, i)} = {j \in S : <<j, i>> \in order}
    BY <1>3
  <2> QED  BY <2>1 DEF SortRank, Place
<1> DEFINE from == [r \in S |-> CHOOSE i \in S : SortRank(s, i) = r]
<1>6. StableSortByTime(s) = [r \in S |-> s[from[r]]]
  BY DEF StableSortByTime
<1> HIDE DEF order
<1>7. from \in Bijection(S, S) /\ \A r, q \in S : r < q => <<from[r], from[q]>> \in order
  <2>1. 1 .. Cardinality(S) = S
    BY <1>2
  <2> HIDE DEF S
  <2>2. \A r \in S : \E i \in S : Place(S, order, i) = r
    <3>1. \A r \in 1 .. Cardinality(S) : \E i \in S : Place(S, order, i) = r
      BY <1>2, <1>4, PlacesAreTaken DEF EveryPlaceIsTaken
    <3> QED  BY <2>1, <3>1
  <2>3. \A r \in S : \E i \in S : SortRank(s, i) = r
    BY <1>5, <2>2
  <2>4. \A r \in S : from[r] \in S /\ Place(S, order, from[r]) = r
    BY <1>5, <2>3
  <2>5. from \in [S -> S]
    BY <2>4
  <2> HIDE DEF from
  <2>6. from \in [1 .. Cardinality(S) -> S]
        /\ \A r \in 1 .. Cardinality(S) : Place(S, order, from[r]) = r
    BY <2>1, <2>4, <2>5
  <2>7. /\ from \in Bijection(1 .. Cardinality(S), S)
        /\ \A r, q \in 1 .. Cardinality(S) : r < q => <<from[r], from[q]>> \in order
    BY <1>2, <1>4, <2>6, LineInOrder, Zenon
  <2> QED  BY <2>1, <2>7, Zenon
<1> HIDE DEF from
<1>8. \A r, q \in S : r < q => SortsBefore(s, from[r], from[q])
  <2> HIDE DEF S
  <2>1. \A r \in S : from[r] \in S
    BY <1>7 DEF Bijection, Surjection
  <2> QED  BY <1>3, <1>7, <2>1
<1> HIDE DEF S
<1>9. Rearranges(from, s, StableSortByTime(s))
  BY <1>6, <1>7, <1>8 DEF S, Rearranges
<1> QED  BY <1>9

-----------------------------------------------------------------------------
(* Neighbours in order put the whole vector in order. *)
LEMMA NeighboursInOrder ==
    ASSUME NEW n \in Nat, NEW f, \A i \in 1 .. n : f[i] \in Int,
           \A i \in 1 .. n : i + 1 <= n => f[i] <= f[i + 1]
    PROVE  \A i, j \in 1 .. n : i < j => f[i] <= f[j]
<1> SUFFICES ASSUME NEW i \in 1 .. n, NEW k \in 1 .. n, i < k, ~ (f[i] <= f[k]) PROVE FALSE
  OBVIOUS
<1> DEFINE late == {j \in Nat : j \in 1 .. n /\ i < j /\ ~ (f[i] <= f[j])}
           R == OpToRel(<, Nat)
<1>1. late \subseteq Nat /\ k \in late
  OBVIOUS
<1>2. IsWellFoundedOn(R, Nat)
  BY NatLessThanWellFounded
<1>3. \E j \in late : \A l \in late : <<l, j>> \notin R
  <2> HIDE DEF late, R
  <2>1. late # {}
    BY <1>1
  <2> QED  BY <1>1, <1>2, <2>1, WFMin, Zenon
<1>4. PICK j \in late : \A l \in late : ~ (l < j)
  BY <1>3 DEF OpToRel
<1>5. j - 1 \in 1 .. n /\ j - 1 >= i /\ f[j - 1] <= f[j] /\ f[j - 1] \in Int
  <2> DEFINE m == j - 1
  <2>1. m \in 1 .. n /\ m >= i /\ j = m + 1 /\ m + 1 <= n
    BY <1>4
  <2> HIDE DEF m
  <2>2. f[m] <= f[j] /\ f[m] \in Int
    BY <2>1
  <2> QED  BY <2>1, <2>2 DEF m
<1>6. CASE j - 1 = i
  BY <1>4, <1>5, <1>6
<1>7. CASE j - 1 > i
  <2>1. j - 1 \notin late
    BY <1>4
  <2>2. f[i] <= f[j - 1]
    BY <1>5, <1>7, <2>1
  <2>3. f[i] \in Int /\ f[j] \in Int
    BY <1>4
  <2> QED  BY <1>4, <1>5, <2>2, <2>3
<1> QED  BY <1>5, <1>6, <1>7

(* A batch appended to a vector in order of time, sorted in only when
   batch_needs_sort looks at the boundary and at the batch: no item is lost
   or doubled, and the result is in order of time and then of arrival.     *)
LEMMA AppendBatchIsPermutation ==
    ASSUME NEW T, \A x \in T : x.ts \in Int,
           NEW items \in Seq(T), NEW batch \in Seq(T), TimeSorted(items)
    PROVE  \E from : Rearranges(from, items \o batch, AppendBatch(items, batch))
<1> DEFINE s == items \o batch
           n == Len(items) + Len(batch)
           m == Len(items)
<1>1. /\ s \in Seq(T) /\ Len(s) = n /\ m \in Nat /\ n \in Nat /\ m <= n
      /\ \A i \in 1 .. m : s[i] = items[i]
      /\ \A i \in 1 .. n : s[i].ts \in Int
  <2>1. /\ s \in Seq(T) /\ Len(s) = n
        /\ \A i \in 1 .. Len(s) : s[i] = IF i <= Len(items) THEN items[i] ELSE batch[i - Len(items)]
    BY ConcatProperties, Zenon
  <2>2. m \in Nat /\ n \in Nat /\ m <= n
    OBVIOUS
  <2> HIDE DEF s
  <2>3. \A i \in 1 .. n : s[i] \in T
    BY <2>1
  <2> QED  BY <2>1, <2>2, <2>3
<1> HIDE DEF s, n
<1>2. CASE BatchNeedsSort(s, m)
  <2>1. AppendBatch(items, batch) = StableSortByTime(s)
    BY <1>2 DEF AppendBatch, s
  <2>2. \E from : Rearranges(from, s, StableSortByTime(s))
    BY <1>1, StableSortIsPermutation
  <2> QED  BY <2>1, <2>2 DEF s
<1>3. CASE ~ BatchNeedsSort(s, m)
  <2>1. AppendBatch(items, batch) = s
    BY <1>3 DEF AppendBatch, s
  <2> DEFINE time == [i \in 1 .. n |-> s[i].ts]
             from == [r \in 1 .. n |-> r]
  <2>2. \A i \in 1 .. n : i + 1 <= n => s[i].ts <= s[i + 1].ts
    <3> SUFFICES ASSUME NEW i \in 1 .. n, i + 1 <= n PROVE s[i].ts <= s[i + 1].ts
      OBVIOUS
    <3>1. CASE i < m
      <4>1. i \in 1 .. m /\ i + 1 \in 1 .. m /\ i < i + 1
        BY <1>1, <3>1
      <4>2. items[i].ts <= items[i + 1].ts
        BY <4>1 DEF TimeSorted
      <4> QED  BY <1>1, <4>1, <4>2
    <3>2. CASE i = m
      BY <1>1, <1>3, <3>2 DEF BatchNeedsSort
    <3>3. CASE i > m
      <4>1. i \in m + 1 .. Len(s) - 1 /\ m < Len(s)
        BY <1>1, <3>3
      <4>2. ~ (s[i].ts > s[i + 1].ts)
        BY <1>3, <4>1 DEF BatchNeedsSort
      <4>3. i + 1 \in 1 .. n
        BY <1>1
      <4> QED  BY <1>1, <4>2, <4>3
    <3> QED  BY <1>1, <3>1, <3>2, <3>3
  <2>3. \A i, j \in 1 .. n : i < j => s[i].ts <= s[j].ts
    <3>1. \A i \in 1 .. n : time[i] \in Int
      BY <1>1
    <3>2. \A i \in 1 .. n : i + 1 <= n => time[i] <= time[i + 1]
      <4> SUFFICES ASSUME NEW i \in 1 .. n, i + 1 <= n PROVE time[i] <= time[i + 1]
        OBVIOUS
      <4>1. i + 1 \in 1 .. n
        BY <1>1
      <4> QED  BY <2>2, <4>1
    <3> HIDE DEF time
    <3>3. \A i, j \in 1 .. n : i < j => time[i] <= time[j]
      BY <1>1, <3>1, <3>2, NeighboursInOrder
    <3> QED  BY <3>3 DEF time
  <2>4. from \in Bijection(1 .. n, 1 .. n)
    BY DEF Bijection, Injection, IsInjective, Surjection
  <2>5. \A r, q \in 1 .. n : r < q => SortsBefore(s, from[r], from[q])
    BY <1>1, <2>3 DEF SortsBefore
  <2>6. s = [r \in 1 .. n |-> s[from[r]]]
    BY <1>1
  <2> HIDE DEF from
  <2>7. Rearranges(from, s, AppendBatch(items, batch))
    BY <1>1, <2>1, <2>4, <2>5, <2>6 DEF Rearranges
  <2> QED  BY <2>7 DEF s
<1> QED  BY <1>2, <1>3

-----------------------------------------------------------------------------
(* retain: the item at position r of the result is the r-th of those kept. *)
LEMMA ItemsAtKept ==
    ASSUME NEW n \in Nat, NEW s, NEW keep \in SUBSET (1 .. n)
    PROVE  /\ IsFiniteSet(keep) /\ Cardinality(keep) \in Nat /\ Cardinality(keep) <= n
           /\ \E from : Selects(from, s, keep, ItemsAt(s, keep))
<1> DEFINE k == Cardinality(keep)
           order == {p \in keep \X keep : p[1] < p[2]}
<1>1. IsFiniteSet(keep) /\ k \in Nat /\ k <= n
  <2>1. IsFiniteSet(1 .. n) /\ Cardinality(1 .. n) = n
    BY IntervalCount
  <2>2. IsFiniteSet(keep) /\ k <= n
    BY <2>1, FS_Subset
  <2> QED  BY <2>2, FS_CardinalityType
<1>2. (\A i \in keep : i \in Int) /\ (\A i, j \in keep : <<i, j>> \in order <=> i < j)
  OBVIOUS
<1> HIDE DEF order
<1>3. IsLine(keep, order)
  BY <1>2 DEF IsLine
<1>4. \A i \in keep : Cardinality({j \in keep : j <= i}) = Place(keep, order, i)
  <2> SUFFICES ASSUME NEW i \in keep
               PROVE  Cardinality({j \in keep : j <= i}) = Place(keep, order, i)
    OBVIOUS
  <2> DEFINE below == {j \in keep : <<j, i>> \in order}
  <2>1. {j \in keep : j <= i} = below \cup {i} /\ i \notin below
    <3>1. \A j \in keep : j <= i <=> (j = i \/ <<j, i>> \in order)
      BY <1>2
    <3>2. <<i, i>> \notin order
      BY <1>2
    <3> QED  BY <3>1, <3>2
  <2>2. IsFiniteSet(below)
    BY <1>1, FS_Subset
  <2> HIDE DEF below
  <2>3. Cardinality(below \cup {i}) = Cardinality(below) + 1
    BY <2>1, <2>2, FS_AddElement
  <2> QED  BY <2>1, <2>3 DEF Place, below
<1>9. \A r \in 1 .. k : \E i \in keep : Place(keep, order, i) = r
  <2>1. \A r \in 1 .. Cardinality(keep) : \E i \in keep : Place(keep, order, i) = r
    <3>1. EveryPlaceIsTaken(keep, order)
      BY <1>1, <1>3, PlacesAreTaken
    <3> QED  BY <3>1 DEF EveryPlaceIsTaken
  <2> QED  BY <2>1
<1> DEFINE from == [r \in 1 .. k |-> CHOOSE i \in keep : Cardinality({j \in keep : j <= i}) = r]
<1>5. ItemsAt(s, keep) = [r \in 1 .. k |-> s[from[r]]]
  BY DEF ItemsAt
<1>6. /\ from \in Bijection(1 .. k, keep)
      /\ \A r, q \in 1 .. k : r < q => <<from[r], from[q]>> \in order
  <2>2. \A r \in 1 .. k : \E i \in keep : Cardinality({j \in keep : j <= i}) = r
    BY <1>4, <1>9
  <2>3. \A r \in 1 .. k : from[r] \in keep /\ Cardinality({j \in keep : j <= from[r]}) = r
    BY <2>2
  <2>4. \A r \in 1 .. k : from[r] \in keep /\ Place(keep, order, from[r]) = r
    BY <1>4, <2>3
  <2>5. from \in [1 .. k -> keep]
    BY <2>3
  <2> HIDE DEF from
  <2> QED  BY <1>1, <1>3, <2>4, <2>5, LineInOrder, Zenon
<1> HIDE DEF from
<1>7. \A r, q \in 1 .. k : r < q => from[r] < from[q]
  <2>1. \A r \in 1 .. k : from[r] \in keep
    BY <1>6 DEF Bijection, Surjection
  <2> QED  BY <1>2, <1>6, <2>1
<1>8. Selects(from, s, keep, ItemsAt(s, keep))
  BY <1>5, <1>6, <1>7 DEF Selects
<1> QED  BY <1>1, <1>8

(* As a set, and as a vector of the same type. *)
LEMMA ItemsAtElements ==
    ASSUME NEW T, NEW s \in Seq(T), NEW keep \in SUBSET DOMAIN s
    PROVE  /\ ItemsAt(s, keep) \in Seq(T)
           /\ Len(ItemsAt(s, keep)) <= Len(s)
           /\ {ItemsAt(s, keep)[r] : r \in DOMAIN ItemsAt(s, keep)} = {s[i] : i \in keep}
<1> DEFINE out == ItemsAt(s, keep)
           k == Cardinality(keep)
<1>1. Len(s) \in Nat /\ DOMAIN s = 1 .. Len(s)
  OBVIOUS
<1>2. keep \in SUBSET (1 .. Len(s))
  BY <1>1
<1>3. k \in Nat /\ k <= Len(s) /\ \E from : Selects(from, s, keep, out)
  <2> HIDE DEF out
  <2> QED  BY <1>1, <1>2, ItemsAtKept DEF out
<1> PICK from : Selects(from, s, keep, out)
  BY <1>3
<1>4. /\ \A r \in 1 .. k : from[r] \in keep
      /\ \A i \in keep : \E r \in 1 .. k : from[r] = i
      /\ out = [r \in 1 .. k |-> s[from[r]]]
  BY DEF Bijection, Surjection, Selects
<1> HIDE DEF out, k
<1>5. DOMAIN out = 1 .. k /\ \A r \in 1 .. k : out[r] = s[from[r]] /\ out[r] \in T
  BY <1>4
<1>6. out \in Seq(T) /\ Len(out) = k
  BY <1>3, <1>4, <1>5
<1>7. {out[r] : r \in DOMAIN out} = {s[i] : i \in keep}
  BY <1>4, <1>5
<1> QED  BY <1>3, <1>6, <1>7 DEF out

(* The items of an interval of positions are a slice. *)
LEMMA ItemsAtInterval ==
    ASSUME NEW s, NEW a \in Nat, NEW b \in Nat, a <= b
    PROVE  ItemsAt(s, a + 1 .. b) = SubSeq(s, a + 1, b)
<1> DEFINE keep == a + 1 .. b
<1>1. \A i \in Int : Cardinality(a + 1 .. i) = IF a + 1 > i THEN 0 ELSE i - (a + 1) + 1
  <2> SUFFICES ASSUME NEW i \in Int
               PROVE  Cardinality(a + 1 .. i) = IF a + 1 > i THEN 0 ELSE i - (a + 1) + 1
    OBVIOUS
  <2>1. a + 1 \in Int
    OBVIOUS
  <2> QED  BY <2>1, FS_Interval
<1>2. Cardinality(keep) = b - a
  BY <1>1
<1>3. \A i \in keep : Cardinality({j \in keep : j <= i}) = i - a
  <2> SUFFICES ASSUME NEW i \in keep PROVE Cardinality({j \in keep : j <= i}) = i - a
    OBVIOUS
  <2>1. {j \in keep : j <= i} = a + 1 .. i /\ i \in Int /\ ~ (a + 1 > i) /\ i - (a + 1) + 1 = i - a
    OBVIOUS
  <2> QED  BY <1>1, <2>1
<1> DEFINE at(r) == CHOOSE i \in keep : Cardinality({j \in keep : j <= i}) = r
<1>4. ASSUME NEW r \in 1 .. b - a PROVE at(r) = a + r
  <2>1. a + r \in keep /\ r \in Int
    OBVIOUS
  <2>2. \A i \in keep : Cardinality({j \in keep : j <= i}) = r <=> i = a + r
    <3> SUFFICES ASSUME NEW i \in keep PROVE i - a = r <=> i = a + r
      BY <1>3
    <3> QED  BY <2>1
  <2> HIDE DEF keep
  <2> QED  BY <2>1, <2>2
<1>5. ItemsAt(s, keep) = [r \in 1 .. b - a |-> s[a + r]]
  <2>1. ItemsAt(s, keep) = [r \in 1 .. Cardinality(keep) |-> s[at(r)]]
    BY DEF ItemsAt
  <2>2. \A r \in 1 .. b - a : at(r) = a + r
    BY <1>4
  <2> HIDE DEF keep, at
  <2> QED  BY <1>2, <2>1, <2>2
<1>6. SubSeq(s, a + 1, b) = [r \in 1 .. b - a |-> s[a + r]]
  <2> DEFINE p == a + 1
  <2>1. p \in Int /\ b \in Int /\ b - p + 1 = b - a /\ \A r \in Int : p + r - 1 = a + r
    OBVIOUS
  <2> HIDE DEF p
  <2>2. SubSeq(s, p, b) = [r \in 1 .. b - p + 1 |-> s[p + r - 1]]
    BY <2>1
  <2>3. SubSeq(s, p, b) = [r \in 1 .. b - a |-> s[a + r]]
    BY <2>1, <2>2
  <2> QED  BY <2>3 DEF p
<1> QED  BY <1>5, <1>6

-----------------------------------------------------------------------------
(* partition_point: the items before a time are the first CountBelow ones. *)
LEMMA CountBelowIsPrefix ==
    ASSUME NEW T, \A x \in T : x.ts \in Int, NEW s \in Seq(T), TimeSorted(s), NEW bound \in Int
    PROVE  /\ CountBelow(s, bound) \in 0 .. Len(s)
           /\ \A i \in 1 .. Len(s) : s[i].ts < bound <=> i <= CountBelow(s, bound)
<1> DEFINE n == Len(s)
           time(i) == s[i].ts
           late == {k \in Nat : k \in 1 .. n + 1 /\ (k <= n => ~ (time(k) < bound))}
           R == OpToRel(<, Nat)
<1>1. n \in Nat /\ \A i \in 1 .. n : time(i) \in Int
  OBVIOUS
<1>2. \A i, j \in 1 .. n : i < j => time(i) <= time(j)
  BY DEF TimeSorted
<1>3. CountBelow(s, bound) = Cardinality({i \in 1 .. n : time(i) < bound})
  BY DEF CountBelow
<1> HIDE DEF n, time
<1>4. late \subseteq Nat /\ n + 1 \in late
  BY <1>1
<1>5. IsWellFoundedOn(R, Nat)
  BY NatLessThanWellFounded
<1>6. \E k \in late : \A l \in late : <<l, k>> \notin R
  <2> HIDE DEF late, R
  <2>1. late # {}
    BY <1>4
  <2> QED  BY <1>4, <1>5, <2>1, WFMin, Zenon
<1>7. PICK k \in late : \A l \in late : ~ (l < k)
  BY <1>6 DEF OpToRel
<1>8. \A i \in 1 .. n : time(i) < bound <=> i <= k - 1
  <2> SUFFICES ASSUME NEW i \in 1 .. n PROVE time(i) < bound <=> i <= k - 1
    OBVIOUS
  <2>1. i \in Nat /\ k \in Nat /\ k \in 1 .. n + 1
    BY <1>1, <1>7
  <2>2. ASSUME i <= k - 1 PROVE time(i) < bound
    <3>1. i < k /\ i \in 1 .. n + 1
      BY <1>1, <2>1, <2>2
    <3>2. i \notin late
      BY <1>7, <3>1
    <3> QED  BY <1>1, <2>1, <3>1, <3>2
  <2>3. ASSUME ~ (i <= k - 1) PROVE ~ (time(i) < bound)
    <3>1. k \in 1 .. n /\ (k = i \/ k < i)
      BY <1>1, <2>1, <2>3
    <3>2. ~ (time(k) < bound)
      BY <1>7, <3>1
    <3>3. time(k) <= time(i)
      BY <1>1, <1>2, <3>1
    <3>4. time(k) \in Int /\ time(i) \in Int
      BY <1>1, <3>1
    <3> QED  BY <3>2, <3>3, <3>4
  <2> QED  BY <2>2, <2>3
<1>9. k - 1 \in 0 .. n
  BY <1>1, <1>7
<1>10. {i \in 1 .. n : time(i) < bound} = 1 .. k - 1
  BY <1>1, <1>8, <1>9
<1>11. CountBelow(s, bound) = k - 1
  <2>1. k - 1 \in Nat
    BY <1>1, <1>9
  <2>2. Cardinality(1 .. k - 1) = k - 1
    BY <2>1, IntervalCount
  <2> QED  BY <1>3, <1>10, <2>2
<1> QED  BY <1>8, <1>9, <1>11 DEF n, time

(* What is left of s when items are drained from its front. *)
IsTail(s, n, left) ==
    /\ n \in 0 .. Len(s)
    /\ Len(left) = Len(s) - n
    /\ \A i \in 1 .. Len(left) : i + n \in 1 .. Len(s) /\ left[i] = s[i + n]

LEMMA DrainFrontIsTail ==
    ASSUME NEW T, NEW s \in Seq(T), NEW n \in 0 .. Len(s)
    PROVE  DrainFront(s, n) \in Seq(T) /\ IsTail(s, n, DrainFront(s, n))
<1> DEFINE out == DrainFront(s, n)
<1>1. Len(s) \in Nat /\ n \in Nat /\ n + 1 \in Int /\ Len(s) \in Int /\ n <= Len(s)
  OBVIOUS
<1>2. \A i \in n + 1 .. Len(s) : s[i] \in T
  <2> SUFFICES ASSUME NEW i \in n + 1 .. Len(s) PROVE s[i] \in T
    OBVIOUS
  <2>1. i \in 1 .. Len(s)
    BY <1>1
  <2> QED  BY <2>1
<1>3. /\ out \in Seq(T)
      /\ Len(out) = IF n + 1 <= Len(s) THEN Len(s) - (n + 1) + 1 ELSE 0
      /\ \A i \in 1 .. Len(s) - (n + 1) + 1 : out[i] = s[(n + 1) + i - 1]
  <2> DEFINE p == n + 1
             q == Len(s)
             part == SubSeq(s, p, q)
  <2>1. p \in Int /\ q \in Int /\ \A i \in p .. q : s[i] \in T
    BY <1>1, <1>2
  <2> HIDE DEF p, q
  <2>2. /\ part \in Seq(T)
        /\ Len(part) = IF p <= q THEN q - p + 1 ELSE 0
        /\ \A i \in 1 .. q - p + 1 : part[i] = s[p + i - 1]
    BY <2>1, SubSeqProperties
  <2>3. out = part
    BY DEF DrainFront, p, q
  <2> HIDE DEF out, part
  <2> QED  BY <2>2, <2>3 DEF p, q
<1> HIDE DEF out
<1>4. Len(out) = Len(s) - n
  BY <1>1, <1>3
<1>5. \A i \in 1 .. Len(out) : i + n \in 1 .. Len(s) /\ out[i] = s[i + n]
  <2> SUFFICES ASSUME NEW i \in 1 .. Len(out) PROVE i + n \in 1 .. Len(s) /\ out[i] = s[i + n]
    OBVIOUS
  <2>1. i \in 1 .. Len(s) - (n + 1) + 1 /\ (n + 1) + i - 1 = i + n /\ i + n \in 1 .. Len(s)
    BY <1>1, <1>4
  <2> QED  BY <1>3, <2>1
<1> QED  BY <1>3, <1>4, <1>5 DEF IsTail, out

-----------------------------------------------------------------------------
(* The positions of the items of finitely many vectors are finitely many. *)
LEMMA SlotsFinite ==
    ASSUME NEW held, IsFiniteSet(DOMAIN held),
           \A id \in DOMAIN held : \E n \in Nat : DOMAIN held[id] = 1 .. n
    PROVE  IsFiniteSet(Slots(held))
<1> DEFINE part == [id \in DOMAIN held |-> {id} \X DOMAIN held[id]]
           parts == {{id} \X DOMAIN held[id] : id \in DOMAIN held}
<1>1. part \in Surjection(DOMAIN held, parts)
  BY DEF Surjection
<1>2. \A p \in parts : IsFiniteSet(p)
  <2> SUFFICES ASSUME NEW id \in DOMAIN held PROVE IsFiniteSet({id} \X DOMAIN held[id])
    OBVIOUS
  <2>1. IsFiniteSet(DOMAIN held[id])
    BY IntervalCount
  <2>2. IsFiniteSet({id})
    BY FS_Singleton
  <2> QED  BY <2>1, <2>2, FS_Product
<1> HIDE DEF part, parts
<1>3. IsFiniteSet(parts)
  BY <1>1, FS_Surjection
<1>4. IsFiniteSet(UNION parts)
  BY <1>2, <1>3, FS_UNION
<1> QED  BY <1>4 DEF Slots, parts

LEMMA SlotsMembers ==
    ASSUME NEW held, NEW x
    PROVE  x \in Slots(held) <=> \E id \in DOMAIN held : \E i \in DOMAIN held[id] : x = <<id, i>>
BY DEF Slots

LEMMA PairInSlots ==
    ASSUME NEW held, NEW id, NEW i
    PROVE  <<id, i>> \in Slots(held) <=> id \in DOMAIN held /\ i \in DOMAIN held[id]
BY DEF Slots

LEMMA SameSlots ==
    ASSUME NEW f, NEW g, DOMAIN f = DOMAIN g, \A id \in DOMAIN f : DOMAIN f[id] = DOMAIN g[id]
    PROVE  Slots(f) = Slots(g) /\ CountItems(f) = CountItems(g)
<1>1. ASSUME NEW id, NEW i PROVE <<id, i>> \in Slots(f) <=> <<id, i>> \in Slots(g)
  BY PairInSlots
<1>2. \A x \in Slots(f) \cup Slots(g) : \E id, i : x = <<id, i>>
  BY SlotsMembers
<1>3. Slots(f) = Slots(g)
  BY <1>1, <1>2
<1> QED  BY <1>3 DEF CountItems

(* Fewer vectors, and shorter ones, hold no more items. *)
LEMMA FewerSlots ==
    ASSUME NEW held, IsFiniteSet(Slots(held)), NEW left, DOMAIN left \subseteq DOMAIN held,
           \A id \in DOMAIN left : DOMAIN left[id] \subseteq DOMAIN held[id]
    PROVE  /\ Slots(left) \subseteq Slots(held) /\ IsFiniteSet(Slots(left))
           /\ CountItems(left) \in Nat /\ CountItems(held) \in Nat
           /\ CountItems(left) <= CountItems(held)
<1>1. Slots(left) \subseteq Slots(held)
  BY SlotsMembers
<1>2. IsFiniteSet(Slots(left)) /\ CountItems(left) <= CountItems(held)
  BY <1>1, FS_Subset DEF CountItems
<1> QED  BY <1>1, <1>2, FS_CardinalityType DEF CountItems

(* The vector at `id`, of m items, gets n more, and no other changes. *)
Grows(held, grown, id, m, n) ==
    /\ DOMAIN grown = DOMAIN held \cup {id}
    /\ id \in DOMAIN held => DOMAIN held[id] = 1 .. m
    /\ id \notin DOMAIN held => m = 0
    /\ DOMAIN grown[id] = 1 .. m + n
    /\ \A other \in DOMAIN held : other # id => DOMAIN grown[other] = DOMAIN held[other]

LEMMA OneGrows ==
    ASSUME NEW held, IsFiniteSet(Slots(held)), NEW grown, NEW id, NEW m \in Nat, NEW n \in Nat,
           Grows(held, grown, id, m, n)
    PROVE  CountItems(grown) = CountItems(held) + n
<1> USE DEF Grows
<1> DEFINE added == {id} \X (m + 1 .. m + n)
<1>1. \A i : i \in 1 .. m + n <=> i \in 1 .. m \/ i \in m + 1 .. m + n
  OBVIOUS
<1>2. \A i : ~ (i \in 1 .. m /\ i \in m + 1 .. m + n)
  OBVIOUS
<1>3. \A x : x \in added <=> \E i \in m + 1 .. m + n : x = <<id, i>>
  OBVIOUS
<1>4. 1 .. 0 = {}
  OBVIOUS
<1>5. IsFiniteSet(added) /\ Cardinality(added) = n
  <2>1. /\ IsFiniteSet(m + 1 .. m + n)
        /\ Cardinality(m + 1 .. m + n) = IF m + 1 > m + n THEN 0 ELSE m + n - (m + 1) + 1
    <3>1. m + 1 \in Int /\ m + n \in Int
      OBVIOUS
    <3> QED  BY <3>1, FS_Interval
  <2>2. Cardinality(m + 1 .. m + n) = n
    BY <2>1
  <2>3. IsFiniteSet({id}) /\ Cardinality({id}) = 1
    BY FS_Singleton
  <2>4. /\ IsFiniteSet(added)
        /\ Cardinality(added) = Cardinality({id}) * Cardinality(m + 1 .. m + n)
    BY <2>1, <2>3, FS_Product
  <2> QED  BY <2>2, <2>3, <2>4
<1> HIDE DEF added
<1>6. Slots(grown) = Slots(held) \cup added
  <2>1. ASSUME NEW other, NEW i
        PROVE  <<other, i>> \in Slots(grown) <=> <<other, i>> \in Slots(held) \/ <<other, i>> \in added
    <3>1. CASE other = id
      <4>1. <<other, i>> \in added <=> i \in m + 1 .. m + n
        BY <1>3, <3>1
      <4>2. <<other, i>> \in Slots(grown) <=> i \in 1 .. m + n
        BY <3>1, PairInSlots
      <4>3. <<other, i>> \in Slots(held) <=> i \in 1 .. m
        <5>1. CASE id \in DOMAIN held
          BY <3>1, <5>1, PairInSlots
        <5>2. CASE id \notin DOMAIN held
          BY <1>4, <3>1, <5>2, PairInSlots
        <5> QED  BY <5>1, <5>2
      <4> QED  BY <1>1, <4>1, <4>2, <4>3
    <3>2. CASE other # id
      <4>1. <<other, i>> \notin added
        BY <1>3, <3>2
      <4>2. <<other, i>> \in Slots(grown) <=> other \in DOMAIN held /\ i \in DOMAIN held[other]
        BY <3>2, PairInSlots
      <4> QED  BY <4>1, <4>2, PairInSlots
    <3> QED  BY <3>1, <3>2
  <2>2. \A x \in Slots(grown) \cup Slots(held) \cup added : \E other, i : x = <<other, i>>
    BY <1>3, SlotsMembers
  <2> QED  BY <2>1, <2>2
<1>7. Slots(held) \cap added = {}
  <2> SUFFICES ASSUME NEW i \in m + 1 .. m + n PROVE <<id, i>> \notin Slots(held)
    BY <1>3
  <2>1. CASE id \in DOMAIN held
    BY <1>2, <2>1, PairInSlots
  <2>2. CASE id \notin DOMAIN held
    BY <2>2, PairInSlots
  <2> QED  BY <2>1, <2>2
<1>8. Cardinality(Slots(grown)) = Cardinality(Slots(held)) + n - Cardinality({})
  BY <1>5, <1>6, <1>7, FS_Union
<1>9. Cardinality({}) = 0 /\ Cardinality(Slots(held)) \in Nat
  BY FS_EmptySet, FS_CardinalityType
<1> QED  BY <1>8, <1>9 DEF CountItems

(* Vectors are appended to vectors, or come in as new ones. *)
LenAt(held, id) == IF id \in DOMAIN held THEN Len(held[id]) ELSE 0

AreVectors(held) ==
    \A id \in DOMAIN held : Len(held[id]) \in Nat /\ DOMAIN held[id] = 1 .. Len(held[id])

Joins(held, more, grown) ==
    /\ DOMAIN grown = DOMAIN held \cup DOMAIN more
    /\ \A id \in DOMAIN grown : DOMAIN grown[id] = 1 .. LenAt(held, id) + LenAt(more, id)

LEMMA AllGrow ==
    ASSUME NEW held, IsFiniteSet(Slots(held)), AreVectors(held),
           NEW more, IsFiniteSet(Slots(more)), AreVectors(more),
           NEW grown, Joins(held, more, grown)
    PROVE  CountItems(grown) = CountItems(held) + CountItems(more)
<1> DEFINE m(id) == LenAt(held, id)
           shift == [x \in Slots(more) |-> <<x[1], x[2] + m(x[1])>>]
           added == {shift[x] : x \in Slots(more)}
<1>1. \A id : m(id) \in Nat
  BY DEF LenAt, AreVectors
<1>2. \A id \in DOMAIN held : DOMAIN held[id] = 1 .. m(id)
  BY DEF LenAt, AreVectors
<1>3. \A id \in DOMAIN more : DOMAIN more[id] = 1 .. LenAt(more, id) /\ LenAt(more, id) \in Nat
  BY DEF LenAt, AreVectors
<1>4. \A id : LenAt(more, id) \in Nat /\ (id \notin DOMAIN more => LenAt(more, id) = 0)
  BY DEF LenAt, AreVectors
<1>5. \A id : id \notin DOMAIN held => m(id) = 0
  BY DEF LenAt
<1> HIDE DEF m
<1>6. \A id, j : <<id, j>> \in added <=> id \in DOMAIN more /\ j \in m(id) + 1 .. m(id) + LenAt(more, id)
  <2> SUFFICES ASSUME NEW id, NEW j
               PROVE  <<id, j>> \in added <=>
                         id \in DOMAIN more /\ j \in m(id) + 1 .. m(id) + LenAt(more, id)
    OBVIOUS
  <2>1. ASSUME <<id, j>> \in added
        PROVE  id \in DOMAIN more /\ j \in m(id) + 1 .. m(id) + LenAt(more, id)
    <3>1. PICK x \in Slots(more) : <<id, j>> = <<x[1], x[2] + m(x[1])>>
      BY <2>1
    <3>2. PICK a \in DOMAIN more : \E i \in DOMAIN more[a] : x = <<a, i>>
      BY SlotsMembers
    <3>3. PICK i \in DOMAIN more[a] : x = <<a, i>>
      BY <3>2
    <3>4. id = a /\ j = i + m(a)
      BY <3>1, <3>3
    <3>5. i \in 1 .. LenAt(more, a) /\ LenAt(more, a) \in Nat /\ m(a) \in Nat
      BY <1>1, <1>3
    <3> QED  BY <3>4, <3>5
  <2>2. ASSUME id \in DOMAIN more, j \in m(id) + 1 .. m(id) + LenAt(more, id)
        PROVE  <<id, j>> \in added
    <3> DEFINE i == j - m(id)
               x == <<id, i>>
    <3>1. m(id) \in Nat /\ LenAt(more, id) \in Nat
      BY <1>1, <1>3, <2>2
    <3>2. i \in 1 .. LenAt(more, id) /\ i + m(id) = j
      BY <2>2, <3>1
    <3> HIDE DEF i
    <3>3. x \in Slots(more)
      BY <1>3, <2>2, <3>2, PairInSlots
    <3>4. shift[x] = <<id, j>>
      BY <3>2, <3>3
    <3> QED  BY <3>3, <3>4
  <2> QED  BY <2>1, <2>2
<1>7. \A x \in added : \E id, j : x = <<id, j>>
  OBVIOUS
<1>8. IsFiniteSet(added) /\ Cardinality(added) = Cardinality(Slots(more))
  <2>1. \A x, y \in Slots(more) : shift[x] = shift[y] => x = y
    <3> SUFFICES ASSUME NEW x \in Slots(more), NEW y \in Slots(more), shift[x] = shift[y]
                 PROVE  x = y
      OBVIOUS
    <3>1. PICK a \in DOMAIN more : \E i \in DOMAIN more[a] : x = <<a, i>>
      BY SlotsMembers
    <3>2. PICK i \in DOMAIN more[a] : x = <<a, i>>
      BY <3>1
    <3>3. PICK b \in DOMAIN more : \E j \in DOMAIN more[b] : y = <<b, j>>
      BY SlotsMembers
    <3>4. PICK j \in DOMAIN more[b] : y = <<b, j>>
      BY <3>3
    <3>5. shift[x] = <<a, i + m(a)>> /\ shift[y] = <<b, j + m(b)>>
      BY <3>2, <3>4
    <3>6. a = b /\ i + m(a) = j + m(a)
      BY <3>5
    <3>7. i \in Int /\ j \in Int /\ m(a) \in Int
      BY <1>1, <1>3
    <3>8. i = j
      BY <3>6, <3>7
    <3> QED  BY <3>2, <3>4, <3>6, <3>8
  <2>2. shift \in Bijection(Slots(more), added)
    <3>1. shift \in [Slots(more) -> added] /\ \A y \in added : \E x \in Slots(more) : shift[x] = y
      OBVIOUS
    <3> HIDE DEF shift, added
    <3> QED  BY <2>1, <3>1 DEF Bijection, Injection, IsInjective, Surjection
  <2> HIDE DEF shift, added
  <2>3. ExistsBijection(Slots(more), added)
    BY <2>2 DEF ExistsBijection
  <2> QED  BY <2>3, FS_Bijection
<1> HIDE DEF shift, added
<1>9. Slots(grown) = Slots(held) \cup added
  <2>1. ASSUME NEW id, NEW j
        PROVE  <<id, j>> \in Slots(grown) <=> <<id, j>> \in Slots(held) \/ <<id, j>> \in added
    <3>1. <<id, j>> \in Slots(grown) <=>
             (id \in DOMAIN held \/ id \in DOMAIN more) /\ j \in 1 .. m(id) + LenAt(more, id)
      BY PairInSlots DEF Joins, m
    <3>2. <<id, j>> \in Slots(held) <=> id \in DOMAIN held /\ j \in 1 .. m(id)
      BY <1>2, PairInSlots
    <3>3. <<id, j>> \in added <=> id \in DOMAIN more /\ j \in m(id) + 1 .. m(id) + LenAt(more, id)
      BY <1>6
    <3>4. m(id) \in Nat /\ LenAt(more, id) \in Nat
      BY <1>1, <1>4
    <3>5. j \in 1 .. m(id) + LenAt(more, id) <=>
             j \in 1 .. m(id) \/ j \in m(id) + 1 .. m(id) + LenAt(more, id)
      BY <3>4
    <3>6. id \notin DOMAIN held => ~ (j \in 1 .. m(id))
      BY <1>5
    <3>7. id \notin DOMAIN more => ~ (j \in m(id) + 1 .. m(id) + LenAt(more, id))
      BY <1>4, <3>4
    <3> QED  BY <3>1, <3>2, <3>3, <3>5, <3>6, <3>7
  <2>2. \A x \in Slots(grown) \cup Slots(held) \cup added : \E id, j : x = <<id, j>>
    BY <1>7, SlotsMembers
  <2> QED  BY <2>1, <2>2
<1>10. Slots(held) \cap added = {}
  <2>1. ASSUME NEW id, NEW j, <<id, j>> \in Slots(held), <<id, j>> \in added PROVE FALSE
    <3>1. j \in 1 .. m(id) /\ j \in m(id) + 1 .. m(id) + LenAt(more, id)
      BY <1>2, <1>6, <2>1, PairInSlots
    <3> QED  BY <1>1, <1>4, <3>1
  <2> QED  BY <1>7, <2>1
<1>11. Cardinality(Slots(grown)) = Cardinality(Slots(held)) + Cardinality(added) - Cardinality({})
  BY <1>8, <1>9, <1>10, FS_Union
<1>12. Cardinality({}) = 0 /\ Cardinality(Slots(held)) \in Nat /\ Cardinality(Slots(more)) \in Nat
  BY FS_EmptySet, FS_CardinalityType
<1> QED  BY <1>8, <1>11, <1>12 DEF CountItems

(* The vectors of some ids and those of the others hold all items. *)
Splits(held, these, others) ==
    /\ DOMAIN these \subseteq DOMAIN held /\ DOMAIN others = DOMAIN held \ DOMAIN these
    /\ \A id \in DOMAIN these : DOMAIN these[id] = DOMAIN held[id]
    /\ \A id \in DOMAIN others : DOMAIN others[id] = DOMAIN held[id]

LEMMA SlotsSplit ==
    ASSUME NEW held, IsFiniteSet(Slots(held)), NEW these, NEW others, Splits(held, these, others)
    PROVE  CountItems(held) = CountItems(these) + CountItems(others)
<1> USE DEF Splits
<1>1. Slots(held) = Slots(these) \cup Slots(others)
  <2>1. ASSUME NEW id, NEW i
        PROVE  <<id, i>> \in Slots(held) <=> <<id, i>> \in Slots(these) \/ <<id, i>> \in Slots(others)
    BY PairInSlots
  <2>2. \A x \in Slots(held) \cup Slots(these) \cup Slots(others) : \E id, i : x = <<id, i>>
    BY SlotsMembers
  <2> QED  BY <2>1, <2>2
<1>2. Slots(these) \cap Slots(others) = {}
  BY SlotsMembers
<1>3. IsFiniteSet(Slots(these)) /\ IsFiniteSet(Slots(others))
  BY FewerSlots
<1>4. Cardinality(Slots(held))
        = Cardinality(Slots(these)) + Cardinality(Slots(others)) - Cardinality({})
  BY <1>1, <1>2, <1>3, FS_Union
<1>5. /\ Cardinality({}) = 0
      /\ Cardinality(Slots(these)) \in Nat /\ Cardinality(Slots(others)) \in Nat
  BY <1>3, FS_EmptySet, FS_CardinalityType
<1> QED  BY <1>4, <1>5 DEF CountItems

-----------------------------------------------------------------------------
(* Draining the vectors one after the other, in the order of `pos`, and each
   from its front, puts all items in one line.                             *)
Ahead(held, pos, id) ==
    CountItems([i \in {j \in DOMAIN held : pos[j] < pos[id]} |-> held[i]])

DrainedBefore(held, pos) ==
    {p \in Slots(held) \X Slots(held) :
        \/ pos[p[1][1]] < pos[p[2][1]]
        \/ p[1][1] = p[2][1] /\ p[1][2] < p[2][2]}

LEMMA DrainingIsALine ==
    ASSUME NEW held, NEW pos,
           \A id \in DOMAIN held : DOMAIN held[id] \subseteq Int,
           \A id \in DOMAIN held : pos[id] \in Int,
           \A a, b \in DOMAIN held : pos[a] = pos[b] => a = b
    PROVE  IsLine(Slots(held), DrainedBefore(held, pos))
<1> DEFINE S == Slots(held)
           before == DrainedBefore(held, pos)
<1>1. \A x \in S : /\ x = <<x[1], x[2]>> /\ x[1] \in DOMAIN held
                    /\ x[2] \in Int /\ pos[x[1]] \in Int
  <2> SUFFICES ASSUME NEW x \in S
               PROVE  /\ x = <<x[1], x[2]>> /\ x[1] \in DOMAIN held
                      /\ x[2] \in Int /\ pos[x[1]] \in Int
    OBVIOUS
  <2>1. PICK id \in DOMAIN held : \E i \in DOMAIN held[id] : x = <<id, i>>
    BY SlotsMembers
  <2>2. PICK i \in DOMAIN held[id] : x = <<id, i>>
    BY <2>1
  <2> QED  BY <2>2
<1>2. \A x, y \in S : <<x, y>> \in before <=>
         (pos[x[1]] < pos[y[1]] \/ (x[1] = y[1] /\ x[2] < y[2]))
  BY DEF DrainedBefore
<1> HIDE DEF S, before
<1>3. \A x \in S : <<x, x>> \notin before
  BY <1>1, <1>2
<1>4. \A x, y, z \in S : <<x, y>> \in before /\ <<y, z>> \in before => <<x, z>> \in before
  <2> SUFFICES ASSUME NEW x \in S, NEW y \in S, NEW z \in S,
                      <<x, y>> \in before, <<y, z>> \in before
               PROVE  pos[x[1]] < pos[z[1]] \/ (x[1] = z[1] /\ x[2] < z[2])
    BY <1>2
  <2>1. /\ (pos[x[1]] < pos[y[1]] \/ (x[1] = y[1] /\ x[2] < y[2]))
        /\ (pos[y[1]] < pos[z[1]] \/ (y[1] = z[1] /\ y[2] < z[2]))
    BY <1>2
  <2> QED  BY <1>1, <2>1
<1>5. \A x, y \in S : x = y \/ <<x, y>> \in before \/ <<y, x>> \in before
  <2> SUFFICES ASSUME NEW x \in S, NEW y \in S
               PROVE  \/ x = y
                      \/ pos[x[1]] < pos[y[1]] \/ (x[1] = y[1] /\ x[2] < y[2])
                      \/ pos[y[1]] < pos[x[1]] \/ (y[1] = x[1] /\ y[2] < x[2])
    BY <1>2
  <2>1. /\ x = <<x[1], x[2]>> /\ x[1] \in DOMAIN held /\ x[2] \in Int /\ pos[x[1]] \in Int
        /\ y = <<y[1], y[2]>> /\ y[1] \in DOMAIN held /\ y[2] \in Int /\ pos[y[1]] \in Int
    BY <1>1
  <2>2. CASE x[1] = y[1]
    BY <2>1, <2>2
  <2>3. CASE x[1] # y[1]
    <3>1. pos[x[1]] # pos[y[1]]
      BY <2>1, <2>3
    <3> QED  BY <2>1, <3>1
  <2> QED  BY <2>2, <2>3
<1> QED  BY <1>3, <1>4, <1>5 DEF S, before, IsLine

(* The place of an item in that line: after everything ahead of its vector,
   at its own position.                                                    *)
LEMMA PlaceWhenDraining ==
    ASSUME NEW held, IsFiniteSet(Slots(held)), NEW pos, NEW id \in DOMAIN held,
           NEW n \in Nat, DOMAIN held[id] = 1 .. n, NEW i \in 1 .. n,
           \A a \in DOMAIN held : pos[a] \in Int,
           \A a, b \in DOMAIN held : pos[a] = pos[b] => a = b
    PROVE  /\ Ahead(held, pos, id) \in Nat
           /\ Place(Slots(held), DrainedBefore(held, pos), <<id, i>>) = Ahead(held, pos, id) + i
<1> DEFINE first == [a \in {j \in DOMAIN held : pos[j] < pos[id]} |-> held[a]]
           own == {id} \X (1 .. i - 1)
           before == {y \in Slots(held) : <<y, <<id, i>>>> \in DrainedBefore(held, pos)}
<1>1. <<id, i>> \in Slots(held)
  BY PairInSlots
<1>2. IsFiniteSet(Slots(first)) /\ Cardinality(Slots(first)) \in Nat
  <2>1. DOMAIN first \subseteq DOMAIN held /\ \A a \in DOMAIN first : DOMAIN first[a] \subseteq DOMAIN held[a]
    OBVIOUS
  <2> HIDE DEF first
  <2>2. IsFiniteSet(Slots(first))
    BY <2>1, FewerSlots
  <2> QED  BY <2>2, FS_CardinalityType
<1>3. IsFiniteSet(own) /\ Cardinality(own) = i - 1
  <2>1. i - 1 \in Nat
    OBVIOUS
  <2>2. IsFiniteSet(1 .. i - 1) /\ Cardinality(1 .. i - 1) = i - 1
    BY <2>1, IntervalCount
  <2>3. IsFiniteSet({id}) /\ Cardinality({id}) = 1
    BY FS_Singleton
  <2>4. IsFiniteSet(own) /\ Cardinality(own) = Cardinality({id}) * Cardinality(1 .. i - 1)
    BY <2>2, <2>3, FS_Product
  <2> QED  BY <2>1, <2>2, <2>3, <2>4
<1>4. before = Slots(first) \cup own
  <2>1. ASSUME NEW a, NEW j
        PROVE  <<a, j>> \in before <=> <<a, j>> \in Slots(first) \/ <<a, j>> \in own
    <3>1. <<a, j>> \in before <=> /\ a \in DOMAIN held /\ j \in DOMAIN held[a]
                                 /\ (pos[a] < pos[id] \/ (a = id /\ j < i))
      BY <1>1, PairInSlots DEF DrainedBefore
    <3>2. <<a, j>> \in Slots(first) <=> a \in DOMAIN held /\ pos[a] < pos[id] /\ j \in DOMAIN held[a]
      BY PairInSlots
    <3>3. <<a, j>> \in own <=> a = id /\ j \in 1 .. i - 1
      OBVIOUS
    <3>4. j \in 1 .. i - 1 <=> j \in 1 .. n /\ j < i
      OBVIOUS
    <3> HIDE DEF before, first, own
    <3>5. CASE a = id
      <4>1. ~ (pos[a] < pos[id])
        BY <3>5
      <4>2. DOMAIN held[a] = 1 .. n
        BY <3>5
      <4> QED  BY <3>1, <3>2, <3>3, <3>4, <3>5, <4>1, <4>2
    <3>6. CASE a # id
      BY <3>1, <3>2, <3>3, <3>6
    <3> QED  BY <3>5, <3>6
  <2>2. \A x \in before \cup Slots(first) \cup own : \E a, j : x = <<a, j>>
    BY SlotsMembers
  <2> HIDE DEF before, first, own
  <2> QED  BY <2>1, <2>2
<1>5. Slots(first) \cap own = {}
  <2>1. \A a, j : <<a, j>> \in Slots(first) => pos[a] < pos[id]
    BY PairInSlots
  <2>2. \A j : <<id, j>> \notin Slots(first)
    BY <2>1
  <2> HIDE DEF first
  <2> QED  BY <2>2
<1> HIDE DEF before, first, own
<1>6. Cardinality(before) = Cardinality(Slots(first)) + Cardinality(own) - Cardinality({})
  BY <1>2, <1>3, <1>4, <1>5, FS_Union
<1>7. Cardinality({}) = 0
  BY FS_EmptySet
<1>8. Cardinality(before) = Cardinality(Slots(first)) + (i - 1)
  BY <1>2, <1>3, <1>6, <1>7
<1>9. Ahead(held, pos, id) = Cardinality(Slots(first))
  BY DEF Ahead, CountItems, first
<1>10. Place(Slots(held), DrainedBefore(held, pos), <<id, i>>) = Cardinality(before) + 1
  BY DEF Place, before
<1> QED  BY <1>2, <1>8, <1>9, <1>10

(* Taking items off the front of that line until k are gone takes k. *)
LEMMA DrainedCount ==
    ASSUME NEW held, IsFiniteSet(Slots(held)), NEW pos, NEW k \in 0 .. CountItems(held),
           \A id \in DOMAIN held : \E n \in Nat : DOMAIN held[id] = 1 .. n,
           \A a \in DOMAIN held : pos[a] \in Int,
           \A a, b \in DOMAIN held : pos[a] = pos[b] => a = b
    PROVE  Cardinality({x \in Slots(held) : Ahead(held, pos, x[1]) + x[2] <= k}) = k
<1> DEFINE S == Slots(held)
           before == DrainedBefore(held, pos)
<1>1. IsLine(S, before)
  <2>1. \A id \in DOMAIN held : DOMAIN held[id] \subseteq Int
    OBVIOUS
  <2> QED  BY <2>1, DrainingIsALine
<1>2. Cardinality({x \in S : Place(S, before, x) <= k}) = k
  BY <1>1, FirstPlaces DEF CountItems
<1>3. \A x \in S : Place(S, before, x) = Ahead(held, pos, x[1]) + x[2]
  <2> SUFFICES ASSUME NEW x \in S PROVE Place(S, before, x) = Ahead(held, pos, x[1]) + x[2]
    OBVIOUS
  <2>1. PICK id \in DOMAIN held : \E i \in DOMAIN held[id] : x = <<id, i>>
    BY SlotsMembers
  <2>2. PICK i \in DOMAIN held[id] : x = <<id, i>>
    BY <2>1
  <2>3. PICK n \in Nat : DOMAIN held[id] = 1 .. n
    OBVIOUS
  <2>4. i \in 1 .. n
    BY <2>3
  <2>5. Place(S, before, <<id, i>>) = Ahead(held, pos, id) + i
    BY <2>3, <2>4, PlaceWhenDraining
  <2>6. x[1] = id /\ x[2] = i
    BY <2>2
  <2> QED  BY <2>2, <2>5, <2>6
<1> HIDE DEF S, before
<1>4. {x \in S : Place(S, before, x) <= k} = {x \in S : Ahead(held, pos, x[1]) + x[2] <= k}
  BY <1>3
<1> QED  BY <1>2, <1>4 DEF S
-----------------------------------------------------------------------------
(* Finitely many things with integers: one has the least and one the
   greatest.                                                               *)
LEMMA SmallestOfFinite ==
    ASSUME NEW S \in SUBSET Int, IsFiniteSet(S), S # {}
    PROVE  \E x \in S : \A y \in S : x <= y
<1> DEFINE order == {p \in S \X S : p[1] < p[2]}
<1>1. \A x, y \in S : <<x, y>> \in order <=> x < y
  OBVIOUS
<1> HIDE DEF order
<1>2. IsLine(S, order)
  BY <1>1 DEF IsLine
<1>3. EveryPlaceIsTaken(S, order) /\ Cardinality(S) \in Nat /\ Cardinality(S) # 0
  BY <1>2, PlacesAreTaken, FS_EmptySet, FS_CardinalityType
<1>4. PICK x \in S : Place(S, order, x) = 1
  <2>1. 1 \in 1 .. Cardinality(S)
    BY <1>3
  <2> QED  BY <1>3, <2>1 DEF EveryPlaceIsTaken
<1>5. {y \in S : <<y, x>> \in order} = {}
  <2> DEFINE below == {y \in S : <<y, x>> \in order}
  <2>1. IsFiniteSet(below)
    BY FS_Subset
  <2>2. Cardinality(below) + 1 = 1
    BY <1>4 DEF Place
  <2> HIDE DEF below
  <2>3. Cardinality(below) = 0
    BY <2>1, <2>2, FS_CardinalityType
  <2> QED  BY <2>1, <2>3, FS_EmptySet DEF below
<1>6. \A y \in S : ~ (y < x)
  BY <1>1, <1>5
<1>7. \A y \in S : x <= y
  BY <1>6
<1> QED  BY <1>7

LEMMA FirstAndLast ==
    ASSUME NEW S, IsFiniteSet(S), S # {}, NEW f, \A x \in S : f[x] \in Int
    PROVE  /\ \E x \in S : \A y \in S : f[x] <= f[y]
           /\ \E x \in S : \A y \in S : f[y] <= f[x]
<1> DEFINE up == {f[x] : x \in S}
           down == {0 - f[x] : x \in S}
           toUp == [x \in S |-> f[x]]
           toDown == [x \in S |-> 0 - f[x]]
<1>1. up \in SUBSET Int /\ up # {} /\ down \in SUBSET Int /\ down # {}
  OBVIOUS
<1>2. toUp \in Surjection(S, up) /\ toDown \in Surjection(S, down)
  BY DEF Surjection
<1> HIDE DEF toUp, toDown
<1>3. IsFiniteSet(up) /\ IsFiniteSet(down)
  <2> HIDE DEF up, down
  <2> QED  BY <1>2, FS_Surjection
<1>4. PICK a \in up : \A b \in up : a <= b
  <2> HIDE DEF up
  <2> QED  BY <1>1, <1>3, SmallestOfFinite
<1>5. PICK c \in down : \A b \in down : c <= b
  <2> HIDE DEF down
  <2> QED  BY <1>1, <1>3, SmallestOfFinite
<1>6. PICK x \in S : a = f[x]
  OBVIOUS
<1>7. PICK z \in S : c = 0 - f[z]
  OBVIOUS
<1>8. \A y \in S : f[x] <= f[y]
  BY <1>4, <1>6
<1>9. \A y \in S : f[y] <= f[z]
  <2> SUFFICES ASSUME NEW y \in S PROVE f[y] <= f[z]
    OBVIOUS
  <2>1. 0 - f[z] <= 0 - f[y]
    BY <1>5, <1>7
  <2> QED  BY <2>1
<1> QED  BY <1>8, <1>9

(* What stands ahead of a vector, and what stands behind. *)
LEMMA AheadAndBehind ==
    ASSUME NEW held, IsFiniteSet(Slots(held)), NEW pos, NEW id \in DOMAIN held,
           \A a \in DOMAIN held : pos[a] \in Int,
           NEW behind, DOMAIN behind = {a \in DOMAIN held : pos[id] <= pos[a]},
           \A a \in DOMAIN behind : behind[a] = held[a]
    PROVE  /\ Ahead(held, pos, id) \in Nat /\ CountItems(behind) \in Nat /\ CountItems(held) \in Nat
           /\ CountItems(held) = Ahead(held, pos, id) + CountItems(behind)
<1> DEFINE first == [i \in {j \in DOMAIN held : pos[j] < pos[id]} |-> held[i]]
<1>1. /\ DOMAIN first \subseteq DOMAIN held /\ DOMAIN behind = DOMAIN held \ DOMAIN first
      /\ \A a \in DOMAIN first : DOMAIN first[a] = DOMAIN held[a]
  OBVIOUS
<1>2. Ahead(held, pos, id) = CountItems(first)
  BY DEF Ahead
<1> HIDE DEF first
<1>3. CountItems(first) \in Nat
  BY <1>1, FewerSlots
<1>4. CountItems(behind) \in Nat /\ CountItems(held) \in Nat
  BY FewerSlots
<1>5. CountItems(held) = CountItems(first) + CountItems(behind)
  <2>1. Splits(held, first, behind)
    BY <1>1 DEF Splits
  <2> QED  BY <2>1, SlotsSplit
<1> QED  BY <1>2, <1>3, <1>4, <1>5

=============================================================================
