------------------------------ MODULE StoreIndex ------------------------------
(***************************************************************************)
(* The inverted label index that aniani's log store and metric store share *)
(* (src/src/store/mod.rs), as operators on values.                          *)
(*                                                                         *)
(* A label set is a set of pairs <<name, value>>.  The label index is a    *)
(* partial function: its domain is the set of pairs that have a posting    *)
(* list, and it maps each to the set of ids in that list: the merge loops  *)
(* of posting_list.rs stand as the set operations they compute.            *)
(* label_values is a partial function from a name to its known values.     *)
(* An id's labels are given by a function labelsOf whose domain is the set *)
(* of ids in the store.                                                    *)
(***************************************************************************)
EXTENDS ItemSeqs

CONSTANT
    PatternMatches   \* valid regex |-> the label values the anchored regex matches

-----------------------------------------------------------------------------
(* Looking up a partial function, with the default of `or_default()`. *)
EntryOrEmpty(f, x) == IF x \in DOMAIN f THEN f[x] ELSE {}

LabelNames(pairs) == {p[1] : p \in pairs}

(* intern_label_pairs: the strings the interner knows afterwards.  The pairs
   come back sorted by the keys the interner gave to their names, so that a
   label set has one representation.                                       *)
InternLabelPairs(interner, labels) ==
    interner \cup {p[1] : p \in labels} \cup {p[2] : p \in labels}

TrackLabelValues(label_values, labels) ==
    [k \in DOMAIN label_values \cup LabelNames(labels) |->
        EntryOrEmpty(label_values, k) \cup {p[2] : p \in {q \in labels : q[1] = k}}]

(* The loop of ingest_stream and ingest_samples over a new id's labels. *)
AddToLabelIndex(label_index, labels, id) ==
    [p \in DOMAIN label_index \cup labels |->
        EntryOrEmpty(label_index, p) \cup (IF p \in labels THEN {id} ELSE {})]

-----------------------------------------------------------------------------
(* remove_from_label_indexes, for every id of `gone`: a pair whose list
   becomes empty leaves the index, and its value leaves label_values.      *)
RemainingIds(label_index, labelsOf, gone, p) ==
    label_index[p] \ {id \in gone : p \in labelsOf[id]}

(* Mutant: a pair is dropped as soon as one of its ids goes. *)
DroppedPairs_AnyTouched(label_index, labelsOf, gone) ==
    {p \in DOMAIN label_index : \E id \in gone : p \in labelsOf[id]}

DroppedPairs(label_index, labelsOf, gone) ==
    {p \in DOMAIN label_index :
        /\ \E id \in gone : p \in labelsOf[id]
        /\ RemainingIds(label_index, labelsOf, gone, p) = {}}

RemoveFromLabelIndex(label_index, labelsOf, gone) ==
    [p \in DOMAIN label_index \ DroppedPairs(label_index, labelsOf, gone) |->
        RemainingIds(label_index, labelsOf, gone, p)]

RemoveFromLabelValues(label_index, label_values, labelsOf, gone) ==
    LET dropped == DroppedPairs(label_index, labelsOf, gone)
        left(k) == {v \in label_values[k] : <<k, v>> \notin dropped}
    IN  [k \in {n \in DOMAIN label_values :
                    n \in LabelNames(dropped) => left(n) # {}} |-> left(k)]

-----------------------------------------------------------------------------
(* select_indexed_ids.  A matcher has a name, an operator and an operand:
   the value for Eq and Neq, a pattern for Regex and NotRegex.             *)

(* Mutant: NotRegex on an unknown name is treated like Regex. *)
NegativeOps_NeqOnly == {"Neq"}

NegativeOps == {"Neq", "NotRegex"}

IdsOfMatchingValues(label_index, label_values, m) ==
    UNION {EntryOrEmpty(label_index, <<m.name, v>>) :
              v \in {w \in EntryOrEmpty(label_values, m.name) :
                        w \in PatternMatches[m.operand]}}

(* The posting list one matcher contributes.  `return Vec::new()` is the
   empty list: the intersection is empty whatever the other lists are.     *)
MatcherIds(interner, label_index, label_values, all, m) ==
    CASE m.name \notin interner -> IF m.op \in NegativeOps THEN all ELSE {}
      [] m.name \in interner /\ m.op = "Eq" ->
            IF m.operand \in interner
            THEN EntryOrEmpty(label_index, <<m.name, m.operand>>) ELSE {}
      [] m.name \in interner /\ m.op = "Neq" ->
            IF m.operand \in interner
            THEN all \ EntryOrEmpty(label_index, <<m.name, m.operand>>) ELSE all
      [] m.name \in interner /\ m.op = "Regex" ->
            IF m.operand \in DOMAIN PatternMatches
            THEN IdsOfMatchingValues(label_index, label_values, m) ELSE {}
      [] m.name \in interner /\ m.op = "NotRegex" ->
            IF m.operand \in DOMAIN PatternMatches
            THEN all \ IdsOfMatchingValues(label_index, label_values, m) ELSE {}

SelectIndexedIds(interner, label_index, label_values, all, matchers) ==
    IF matchers = {} THEN all
    ELSE LET lists == {MatcherIds(interner, label_index, label_values, all, m) :
                          m \in matchers}
         IN  {id \in UNION lists : \A l \in lists : id \in l}

-----------------------------------------------------------------------------
(* The reference the index is measured against: a scan of the label sets.  *)
ValidMatcher(m) ==
    m.op \in {"Regex", "NotRegex"} => m.operand \in DOMAIN PatternMatches

Satisfies(labels, m) ==
    CASE m.op = "Eq"       -> <<m.name, m.operand>> \in labels
      [] m.op = "Neq"      -> <<m.name, m.operand>> \notin labels
      [] m.op = "Regex"    -> \E v \in PatternMatches[m.operand] : <<m.name, v>> \in labels
      [] m.op = "NotRegex" -> \A v \in PatternMatches[m.operand] : <<m.name, v>> \notin labels

ScanIds(labelsOf, matchers) ==
    {id \in DOMAIN labelsOf : \A m \in matchers : Satisfies(labelsOf[id], m)}

AllPairs(labelsOf) == UNION {labelsOf[id] : id \in DOMAIN labelsOf}

(* The index holds the pairs in use and lists exactly the ids that carry
   them; label_values holds exactly the values in use.                     *)
LabelIndexExact(label_index, labelsOf) ==
    label_index = [p \in AllPairs(labelsOf) |-> {id \in DOMAIN labelsOf : p \in labelsOf[id]}]

LabelValuesExact(label_values, labelsOf) ==
    label_values = [k \in LabelNames(AllPairs(labelsOf)) |->
                        {p[2] : p \in {q \in AllPairs(labelsOf) : q[1] = k}}]

InternerCovers(interner, labelsOf) ==
    \A p \in AllPairs(labelsOf) : p[1] \in interner /\ p[2] \in interner

=============================================================================
