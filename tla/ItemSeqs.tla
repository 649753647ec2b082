------------------------------- MODULE ItemSeqs -------------------------------
(***************************************************************************)
(* The vectors of items that aniani's stores keep (src/src/store/), as     *)
(* operators on sequences: the entries of a log stream, the samples of a   *)
(* series, the spans of a trace.  `held` is a partial function from the id *)
(* of a stream, series or trace to its vector.                             *)
(***************************************************************************)
EXTENDS Integers, Sequences, FiniteSets

(* The positions of all items: their number is what total_entries,
   total_samples and total_spans count.                                    *)
Slots(held) == UNION {{id} \X DOMAIN held[id] : id \in DOMAIN held}

CountItems(held) == Cardinality(Slots(held))

SaturatingSub(a, b) == IF a > b THEN a - b ELSE 0

(* `retain`: the items at the positions of `keep`, in their order. *)
ItemsAt(s, keep) ==
    [r \in 1 .. Cardinality(keep) |->
        s[CHOOSE i \in keep : Cardinality({j \in keep : j <= i}) = r]]

(* The elements of a set in a line: x comes before y when <<x, y>> is in
   `order`.                                                                *)
LineUp(S, order) ==
    [r \in 1 .. Cardinality(S) |->
        CHOOSE x \in S : Cardinality({y \in S : <<y, x>> \in order}) = r - 1]

Ascending(S) == LineUp(S, {p \in S \X S : p[1] < p[2]})

(* Positions of items, vector after vector and from the front of each. *)
Follows(slot, earlier) ==
    earlier[1] < slot[1] \/ (earlier[1] = slot[1] /\ earlier[2] < slot[2])

SlotsInOrder(S) == LineUp(S, {p \in S \X S : Follows(p[2], p[1])})

-----------------------------------------------------------------------------
(* Log entries and samples are records with a time `ts`, kept sorted by it:
   a batch is appended, and the vector is sorted only when
   batch_needs_sort says so.                                              *)

(* Mutant: the boundary between the old tail and the batch is not looked at. *)
BatchNeedsSort_BatchOnly(items, prev_len) ==
    \E i \in prev_len + 1 .. Len(items) - 1 : items[i].ts > items[i + 1].ts

BatchNeedsSort(items, prev_len) ==
    /\ prev_len < Len(items)
    /\ \/ prev_len > 0 /\ items[prev_len].ts > items[prev_len + 1].ts
       \/ \E i \in prev_len + 1 .. Len(items) - 1 : items[i].ts > items[i + 1].ts

(* Mutant: the sort turns items of equal time round. *)
SortsBefore_Latest(s, i, j) == s[i].ts < s[j].ts \/ (s[i].ts = s[j].ts /\ i > j)

(* sort_by_key is stable: items of equal time keep their order. *)
SortsBefore(s, i, j) == s[i].ts < s[j].ts \/ (s[i].ts = s[j].ts /\ i < j)

SortRank(s, i) == Cardinality({j \in 1 .. Len(s) : SortsBefore(s, j, i)}) + 1

StableSortByTime(s) ==
    [r \in 1 .. Len(s) |-> s[CHOOSE i \in 1 .. Len(s) : SortRank(s, i) = r]]

AppendBatch(items, batch) ==
    LET extended == items \o batch
    IN  IF BatchNeedsSort(extended, Len(items))
        THEN StableSortByTime(extended) ELSE extended

(* partition_point(|e| e.ts < bound) of a sorted vector. *)
CountBelow(items, bound) == Cardinality({i \in 1 .. Len(items) : items[i].ts < bound})

DrainFront(items, n) == SubSeq(items, n + 1, Len(items))

=============================================================================
