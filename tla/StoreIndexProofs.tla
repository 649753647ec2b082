--------------------------- MODULE StoreIndexProofs ---------------------------
(***************************************************************************)
(* Facts about the shared label index: the operations of StoreIndex keep   *)
(* it exact, and selection by an exact index is the scan it replaces.      *)
(***************************************************************************)
EXTENDS StoreIndex, TLAPS

Extend(labelsOf, labels, id) ==
    [i \in DOMAIN labelsOf \cup {id} |-> IF i = id THEN labels ELSE labelsOf[i]]

Without(labelsOf, gone) == [i \in DOMAIN labelsOf \ gone |-> labelsOf[i]]

(* Every label is a pair. *)
PairsOnly(labels) == \A p \in labels : p = <<p[1], p[2]>>

-----------------------------------------------------------------------------
(* The pairs in use after a new id came in or some ids went. *)
LEMMA AllPairsExtend ==
    ASSUME NEW labelsOf, NEW labels, NEW id, id \notin DOMAIN labelsOf
    PROVE  AllPairs(Extend(labelsOf, labels, id)) = AllPairs(labelsOf) \cup labels
<1> DEFINE new == Extend(labelsOf, labels, id)
<1>1. DOMAIN new = DOMAIN labelsOf \cup {id}
  BY DEF Extend
<1>2. \A i \in DOMAIN labelsOf : new[i] = labelsOf[i]
  BY DEF Extend
<1>3. new[id] = labels
  BY DEF Extend
<1> HIDE DEF new
<1>4. AllPairs(new) = AllPairs(labelsOf) \cup labels
  BY <1>1, <1>2, <1>3 DEF AllPairs
<1> QED  BY <1>4 DEF new

(* ingest_stream and ingest_samples list a new id under each of its labels
   and leave the index exact.                                              *)
LEMMA AddKeepsLabelIndexExact ==
    ASSUME NEW label_index, NEW labelsOf, NEW labels, NEW id,
           id \notin DOMAIN labelsOf,
           LabelIndexExact(label_index, labelsOf)
    PROVE  LabelIndexExact(AddToLabelIndex(label_index, labels, id),
                           Extend(labelsOf, labels, id))
<1> DEFINE new == Extend(labelsOf, labels, id)
           added == AddToLabelIndex(label_index, labels, id)
<1>1. /\ DOMAIN new = DOMAIN labelsOf \cup {id}
      /\ \A i \in DOMAIN labelsOf : new[i] = labelsOf[i]
      /\ new[id] = labels
  BY DEF Extend
<1>2. AllPairs(new) = AllPairs(labelsOf) \cup labels
  BY AllPairsExtend
<1>3. /\ DOMAIN label_index = AllPairs(labelsOf)
      /\ \A p \in AllPairs(labelsOf) : label_index[p] = {i \in DOMAIN labelsOf : p \in labelsOf[i]}
  BY DEF LabelIndexExact
<1>4. \A p : EntryOrEmpty(label_index, p) = {i \in DOMAIN labelsOf : p \in labelsOf[i]}
  BY <1>3 DEF EntryOrEmpty, AllPairs
<1> HIDE DEF new
<1>5. \A p : EntryOrEmpty(label_index, p) \cup (IF p \in labels THEN {id} ELSE {})
               = {i \in DOMAIN new : p \in new[i]}
  BY <1>1, <1>4
<1>6. added = [p \in AllPairs(new) |-> {i \in DOMAIN new : p \in new[i]}]
  BY <1>2, <1>3, <1>5 DEF AddToLabelIndex
<1> QED  BY <1>6 DEF LabelIndexExact, new

(* track_label_values, called for every batch, leaves label_values exact
   whether the label set is new...                                         *)
LEMMA TrackKeepsLabelValuesExact ==
    ASSUME NEW label_values, NEW labelsOf, NEW labels, NEW id,
           id \notin DOMAIN labelsOf,
           LabelValuesExact(label_values, labelsOf)
    PROVE  LabelValuesExact(TrackLabelValues(label_values, labels),
                            Extend(labelsOf, labels, id))
<1> DEFINE pairs == AllPairs(labelsOf)
           valuesIn(S, k) == {p[2] : p \in {q \in S : q[1] = k}}
<1>1. /\ DOMAIN label_values = LabelNames(pairs)
      /\ \A k \in LabelNames(pairs) : label_values[k] = valuesIn(pairs, k)
  BY DEF LabelValuesExact
<1>2. LabelNames(pairs \cup labels) = LabelNames(pairs) \cup LabelNames(labels)
  BY DEF LabelNames
<1>3. \A k : EntryOrEmpty(label_values, k) = valuesIn(pairs, k)
  BY <1>1 DEF EntryOrEmpty, LabelNames
<1>4. \A k : EntryOrEmpty(label_values, k) \cup valuesIn(labels, k) = valuesIn(pairs \cup labels, k)
  BY <1>3
<1>5. TrackLabelValues(label_values, labels)
        = [k \in LabelNames(pairs \cup labels) |-> valuesIn(pairs \cup labels, k)]
  BY <1>1, <1>2, <1>4 DEF TrackLabelValues
<1>6. AllPairs(Extend(labelsOf, labels, id)) = pairs \cup labels
  BY AllPairsExtend
<1> QED  BY <1>5, <1>6 DEF LabelValuesExact

(* ... or already names an id. *)
LEMMA TrackKnownKeepsLabelValues ==
    ASSUME NEW label_values, NEW labelsOf, NEW id \in DOMAIN labelsOf,
           LabelValuesExact(label_values, labelsOf)
    PROVE  TrackLabelValues(label_values, labelsOf[id]) = label_values
<1> DEFINE pairs == AllPairs(labelsOf)
           labels == labelsOf[id]
           valuesIn(S, k) == {p[2] : p \in {q \in S : q[1] = k}}
<1>1. labels \subseteq pairs
  BY DEF AllPairs
<1>2. label_values = [k \in LabelNames(pairs) |-> valuesIn(pairs, k)]
  BY DEF LabelValuesExact
<1>3. LabelNames(labels) \subseteq LabelNames(pairs)
  BY <1>1 DEF LabelNames
<1>4. DOMAIN label_values = LabelNames(pairs)
  BY <1>2
<1>5. \A k \in LabelNames(pairs) : EntryOrEmpty(label_values, k) = valuesIn(pairs, k)
  BY <1>2, <1>4 DEF EntryOrEmpty
<1>6. \A k : valuesIn(labels, k) \subseteq valuesIn(pairs, k)
  BY <1>1
<1>7. \A k \in LabelNames(pairs) :
         EntryOrEmpty(label_values, k) \cup valuesIn(labels, k) = valuesIn(pairs, k)
  BY <1>5, <1>6
<1>8. DOMAIN label_values \cup LabelNames(labels) = LabelNames(pairs)
  BY <1>3, <1>4
<1> HIDE DEF pairs, labels
<1>9. TrackLabelValues(label_values, labels) = [k \in LabelNames(pairs) |-> valuesIn(pairs, k)]
  BY <1>7, <1>8 DEF TrackLabelValues
<1> QED  BY <1>2, <1>9 DEF labels

-----------------------------------------------------------------------------
(* Removing ids: a pair in use before is still in use exactly when its
   posting list keeps an id, that is when it is not dropped.               *)
LEMMA AllPairsWithout ==
    ASSUME NEW label_index, NEW labelsOf, NEW gone \in SUBSET DOMAIN labelsOf,
           LabelIndexExact(label_index, labelsOf)
    PROVE  AllPairs(Without(labelsOf, gone))
              = AllPairs(labelsOf) \ DroppedPairs(label_index, labelsOf, gone)
<1> DEFINE left == Without(labelsOf, gone)
           dropped == DroppedPairs(label_index, labelsOf, gone)
<1>1. /\ DOMAIN left = DOMAIN labelsOf \ gone
      /\ \A i \in DOMAIN left : left[i] = labelsOf[i]
  BY DEF Without
<1>2. /\ DOMAIN label_index = AllPairs(labelsOf)
      /\ \A p \in AllPairs(labelsOf) : label_index[p] = {i \in DOMAIN labelsOf : p \in labelsOf[i]}
  BY DEF LabelIndexExact
<1>3. \A p \in AllPairs(labelsOf) :
         RemainingIds(label_index, labelsOf, gone, p) = {i \in DOMAIN left : p \in left[i]}
  BY <1>1, <1>2 DEF RemainingIds
<1>4. \A p \in AllPairs(labelsOf) : p \in dropped <=> {i \in DOMAIN left : p \in left[i]} = {}
  <2> SUFFICES ASSUME NEW p \in AllPairs(labelsOf)
               PROVE  p \in dropped <=> {i \in DOMAIN left : p \in left[i]} = {}
    OBVIOUS
  <2>1. p \in dropped <=> /\ \E id \in gone : p \in labelsOf[id]
                          /\ RemainingIds(label_index, labelsOf, gone, p) = {}
    BY <1>2 DEF DroppedPairs
  <2>2. PICK i \in DOMAIN labelsOf : p \in labelsOf[i]
    BY DEF AllPairs
  <2>3. CASE i \in gone
    BY <1>3, <2>1, <2>2, <2>3
  <2>4. CASE i \notin gone
    BY <1>1, <1>3, <2>1, <2>2, <2>4
  <2> QED  BY <2>3, <2>4
<1>5. \A p : p \in AllPairs(left) <=> \E i \in DOMAIN left : p \in left[i]
  BY DEF AllPairs
<1>6. AllPairs(left) \subseteq AllPairs(labelsOf)
  BY <1>1 DEF AllPairs
<1> HIDE DEF left, dropped
<1>7. AllPairs(left) = AllPairs(labelsOf) \ dropped
  BY <1>4, <1>5, <1>6
<1> QED  BY <1>7 DEF left, dropped

(* remove_from_label_indexes, run for each id that goes, leaves the posting
   lists exact: none is left empty, none still lists an id that went.      *)
LEMMA RemoveKeepsLabelIndexExact ==
    ASSUME NEW label_index, NEW labelsOf, NEW gone \in SUBSET DOMAIN labelsOf,
           LabelIndexExact(label_index, labelsOf)
    PROVE  LabelIndexExact(RemoveFromLabelIndex(label_index, labelsOf, gone),
                           Without(labelsOf, gone))
<1> DEFINE left == Without(labelsOf, gone)
<1>1. /\ DOMAIN left = DOMAIN labelsOf \ gone
      /\ \A i \in DOMAIN left : left[i] = labelsOf[i]
  BY DEF Without
<1>2. /\ DOMAIN label_index = AllPairs(labelsOf)
      /\ \A p \in AllPairs(labelsOf) : label_index[p] = {i \in DOMAIN labelsOf : p \in labelsOf[i]}
  BY DEF LabelIndexExact
<1>3. \A p \in AllPairs(labelsOf) :
         RemainingIds(label_index, labelsOf, gone, p) = {i \in DOMAIN left : p \in left[i]}
  BY <1>1, <1>2 DEF RemainingIds
<1>4. AllPairs(left) = DOMAIN label_index \ DroppedPairs(label_index, labelsOf, gone)
  BY <1>2, AllPairsWithout
<1>5. \A p \in AllPairs(left) :
         RemainingIds(label_index, labelsOf, gone, p) = {i \in DOMAIN left : p \in left[i]}
  BY <1>2, <1>3, <1>4
<1> HIDE DEF left
<1>6. RemoveFromLabelIndex(label_index, labelsOf, gone)
        = [p \in AllPairs(left) |-> {i \in DOMAIN left : p \in left[i]}]
  BY <1>4, <1>5 DEF RemoveFromLabelIndex
<1> QED  BY <1>6 DEF LabelIndexExact, left

(* ... and label_values keeps exactly the values still in use, although it
   only looks at the pairs whose lists became empty.                       *)
LEMMA RemoveKeepsLabelValuesExact ==
    ASSUME NEW label_index, NEW label_values, NEW labelsOf,
           NEW gone \in SUBSET DOMAIN labelsOf,
           \A i \in DOMAIN labelsOf : PairsOnly(labelsOf[i]),
           LabelIndexExact(label_index, labelsOf),
           LabelValuesExact(label_values, labelsOf)
    PROVE  LabelValuesExact(RemoveFromLabelValues(label_index, label_values, labelsOf, gone),
                            Without(labelsOf, gone))
<1> DEFINE pairs == AllPairs(labelsOf)
           dropped == DroppedPairs(label_index, labelsOf, gone)
           kept == AllPairs(Without(labelsOf, gone))
           valuesIn(S, k) == {p[2] : p \in {q \in S : q[1] = k}}
           left(k) == {v \in label_values[k] : <<k, v>> \notin dropped}
<1>1. kept = pairs \ dropped
  BY AllPairsWithout
<1>2. \A p \in pairs : p = <<p[1], p[2]>>
  BY DEF AllPairs, PairsOnly
<1>3. /\ DOMAIN label_values = LabelNames(pairs)
      /\ \A k \in LabelNames(pairs) : label_values[k] = valuesIn(pairs, k)
  BY DEF LabelValuesExact
<1>4. dropped \subseteq pairs
  BY DEF DroppedPairs, LabelIndexExact
<1> HIDE DEF pairs, dropped, kept
<1>5. \A k \in LabelNames(pairs) : left(k) = valuesIn(kept, k)
  BY <1>1, <1>2, <1>3
<1>6. LabelNames(kept) = {k \in LabelNames(pairs) : k \in LabelNames(dropped) => left(k) # {}}
  <2>1. \A k : k \in LabelNames(kept) <=> valuesIn(kept, k) # {}
    BY DEF LabelNames
  <2>2. LabelNames(kept) \subseteq LabelNames(pairs)
    BY <1>1 DEF LabelNames
  <2>3. \A k \in LabelNames(pairs) : k \notin LabelNames(dropped) => k \in LabelNames(kept)
    BY <1>1 DEF LabelNames
  <2> QED  BY <1>5, <2>1, <2>2, <2>3
<1>7. [k \in {n \in DOMAIN label_values : n \in LabelNames(dropped) => left(n) # {}} |-> left(k)]
        = [k \in LabelNames(kept) |-> valuesIn(kept, k)]
  BY <1>3, <1>5, <1>6
<1> QED  BY <1>7 DEF RemoveFromLabelValues, LabelValuesExact, dropped, kept

-----------------------------------------------------------------------------
(* One matcher: the posting list it contributes holds the ids that satisfy
   it, whichever of the shortcuts of select_indexed_ids is taken.          *)
LEMMA MatcherIdsExact ==
    ASSUME NEW interner, NEW label_index, NEW label_values, NEW labelsOf, NEW m,
           \A i \in DOMAIN labelsOf : PairsOnly(labelsOf[i]),
           LabelIndexExact(label_index, labelsOf),
           LabelValuesExact(label_values, labelsOf),
           InternerCovers(interner, labelsOf),
           m.op \in {"Eq", "Neq", "Regex", "NotRegex"},
           ValidMatcher(m)
    PROVE  MatcherIds(interner, label_index, label_values, DOMAIN labelsOf, m)
              = {i \in DOMAIN labelsOf : Satisfies(labelsOf[i], m)}
<1> DEFINE ids == DOMAIN labelsOf
           with(p) == {i \in ids : p \in labelsOf[i]}
           matching == IdsOfMatchingValues(label_index, label_values, m)
<1>1. \A p : EntryOrEmpty(label_index, p) = with(p)
  BY DEF EntryOrEmpty, LabelIndexExact, AllPairs
<1>2. \A i \in ids : \A p \in labelsOf[i] :
         /\ p = <<p[1], p[2]>>
         /\ p[1] \in interner /\ p[2] \in interner
  BY DEF PairsOnly, InternerCovers, AllPairs
<1>3. \A k, v : k \notin interner \/ v \notin interner => with(<<k, v>>) = {}
  BY <1>2
<1>4. \A k, v : (\E i \in ids : <<k, v>> \in labelsOf[i]) => v \in EntryOrEmpty(label_values, k)
  <2> SUFFICES ASSUME NEW k, NEW v, NEW i \in ids, <<k, v>> \in labelsOf[i]
               PROVE  v \in EntryOrEmpty(label_values, k)
    OBVIOUS
  <2> DEFINE pairs == AllPairs(labelsOf)
  <2>1. <<k, v>> \in pairs
    BY DEF AllPairs
  <2>2. <<k, v>>[1] = k /\ <<k, v>>[2] = v
    OBVIOUS
  <2>3. k \in LabelNames(pairs)
    BY <2>1, <2>2 DEF LabelNames
  <2>4. v \in {p[2] : p \in {q \in pairs : q[1] = k}}
    BY <2>1, <2>2
  <2> HIDE DEF pairs
  <2>5. label_values = [n \in LabelNames(pairs) |-> {p[2] : p \in {q \in pairs : q[1] = n}}]
    BY DEF LabelValuesExact, pairs
  <2> QED  BY <2>3, <2>4, <2>5 DEF EntryOrEmpty
<1>5. matching = {i \in ids : \E v \in PatternMatches[m.operand] : <<m.name, v>> \in labelsOf[i]}
  <2> DEFINE matched == PatternMatches[m.operand]
             listed == {w \in EntryOrEmpty(label_values, m.name) : w \in matched}
  <2>1. matching = UNION {with(<<m.name, v>>) : v \in listed}
    BY <1>1 DEF IdsOfMatchingValues
  <2>2. \A i \in ids : \A v \in matched : <<m.name, v>> \in labelsOf[i] => v \in listed
    BY <1>4
  <2>3. ASSUME NEW i PROVE i \in matching <=> \E v \in listed : i \in with(<<m.name, v>>)
    BY <2>1
  <2> HIDE DEF matching
  <2>4. ASSUME NEW i
        PROVE  i \in matching <=> i \in ids /\ \E v \in matched : <<m.name, v>> \in labelsOf[i]
    <3> HIDE DEF matched, listed
    <3>1. listed \subseteq matched
      BY DEF listed
    <3> QED  BY <2>2, <2>3, <3>1
  <2> QED  BY <2>4
<1> DEFINE found == MatcherIds(interner, label_index, label_values, ids, m)
           pair == <<m.name, m.operand>>
           valid == m.operand \in DOMAIN PatternMatches
<1>6. CASE m.op = "Eq"
  <2>1. \A l : Satisfies(l, m) = (pair \in l)
    BY <1>6, Zenon DEF Satisfies
  <2>2. m.name \notin interner => found = {}
    BY <1>6, Zenon DEF MatcherIds, NegativeOps
  <2>3. m.name \in interner =>
           found = IF m.operand \in interner THEN EntryOrEmpty(label_index, pair) ELSE {}
    BY <1>6, Zenon DEF MatcherIds
  <2> HIDE DEF found
  <2>4. found = with(pair)
    BY <1>1, <1>3, <2>2, <2>3
  <2> QED  BY <2>1, <2>4 DEF found
<1>7. CASE m.op = "Neq"
  <2>1. \A l : Satisfies(l, m) = (pair \notin l)
    BY <1>7, Zenon DEF Satisfies
  <2>2. m.name \notin interner => found = ids
    BY <1>7, Zenon DEF MatcherIds, NegativeOps
  <2>3. m.name \in interner =>
           found = IF m.operand \in interner THEN ids \ EntryOrEmpty(label_index, pair) ELSE ids
    BY <1>7, Zenon DEF MatcherIds
  <2> HIDE DEF found
  <2>4. found = ids \ with(pair)
    BY <1>1, <1>3, <2>2, <2>3
  <2> QED  BY <2>1, <2>4 DEF found
<1>8. CASE m.op = "Regex"
  <2>1. \A l : Satisfies(l, m) = (\E v \in PatternMatches[m.operand] : <<m.name, v>> \in l)
    BY <1>8, Zenon DEF Satisfies
  <2>2. m.name \notin interner => found = {}
    BY <1>8, Zenon DEF MatcherIds, NegativeOps
  <2>3. m.name \in interner => found = IF valid THEN matching ELSE {}
    BY <1>8, Zenon DEF MatcherIds
  <2>4. valid
    BY <1>8 DEF ValidMatcher
  <2> HIDE DEF found, matching
  <2>5. found = {i \in ids : \E v \in PatternMatches[m.operand] : <<m.name, v>> \in labelsOf[i]}
    BY <1>3, <1>5, <2>2, <2>3, <2>4
  <2> QED  BY <2>1, <2>5 DEF found
<1>9. CASE m.op = "NotRegex"
  <2>1. \A l : Satisfies(l, m) = (\A v \in PatternMatches[m.operand] : <<m.name, v>> \notin l)
    BY <1>9, Zenon DEF Satisfies
  <2>2. m.name \notin interner => found = ids
    BY <1>9, Zenon DEF MatcherIds, NegativeOps
  <2>3. m.name \in interner => found = IF valid THEN ids \ matching ELSE {}
    BY <1>9, Zenon DEF MatcherIds
  <2>4. valid
    BY <1>9 DEF ValidMatcher
  <2> HIDE DEF found, matching
  <2>5. found = ids \ {i \in ids : \E v \in PatternMatches[m.operand] : <<m.name, v>> \in labelsOf[i]}
    BY <1>3, <1>5, <2>2, <2>3, <2>4
  <2> QED  BY <2>1, <2>5 DEF found
<1> QED  BY <1>6, <1>7, <1>8, <1>9

(* select_indexed_ids answers any conjunction of matchers as the scan of
   all label sets does.                                                    *)
THEOREM SelectionIsScan ==
    ASSUME NEW interner, NEW label_index, NEW label_values, NEW labelsOf, NEW matchers,
           \A i \in DOMAIN labelsOf : PairsOnly(labelsOf[i]),
           LabelIndexExact(label_index, labelsOf),
           LabelValuesExact(label_values, labelsOf),
           InternerCovers(interner, labelsOf),
           \A m \in matchers : m.op \in {"Eq", "Neq", "Regex", "NotRegex"} /\ ValidMatcher(m)
    PROVE  SelectIndexedIds(interner, label_index, label_values, DOMAIN labelsOf, matchers)
              = ScanIds(labelsOf, matchers)
<1> DEFINE ids(m) == MatcherIds(interner, label_index, label_values, DOMAIN labelsOf, m)
<1>1. \A m \in matchers : ids(m) = {i \in DOMAIN labelsOf : Satisfies(labelsOf[i], m)}
  BY MatcherIdsExact
<1>2. CASE matchers = {}
  BY <1>2 DEF SelectIndexedIds, ScanIds
<1>3. CASE matchers # {}
  <2>1. SelectIndexedIds(interner, label_index, label_values, DOMAIN labelsOf, matchers)
          = {id \in UNION {ids(m) : m \in matchers} : \A l \in {ids(m) : m \in matchers} : id \in l}
    BY <1>3 DEF SelectIndexedIds
  <2> HIDE DEF ids
  <2>2. {id \in UNION {ids(m) : m \in matchers} : \A l \in {ids(m) : m \in matchers} : id \in l}
          = {i \in DOMAIN labelsOf : \A m \in matchers : Satisfies(labelsOf[i], m)}
    BY <1>1, <1>3
  <2> QED  BY <2>1, <2>2 DEF ScanIds
<1> QED  BY <1>2, <1>3

=============================================================================
