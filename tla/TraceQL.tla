------------------------------- MODULE TraceQL -------------------------------
(***************************************************************************)
(* The evaluation of TraceQL expressions, src/src/query/traceql/eval.rs,   *)
(* as operators on the spans of one trace: `spans` is a sequence of span   *)
(* records in the order they were stored.                                  *)
(*                                                                         *)
(* A span is a record [id, parent, name, service, status, kind, duration,  *)
(* attrs, events] (and the fields the store adds).  A text is the sequence *)
(* of its dotted parts, so that `resource.`, `span.` and `scope.` can be   *)
(* put before one.  attrs is a sequence of [key, value] records; a value   *)
(* is [type, text, num, parses]: num is its number when it is one, or, of  *)
(* a string, when `parses`.                                                *)
(* A condition is a record [on, scope, name, op, value] whose `on` says     *)
(* which variant it is; only attributes have a scope and a name.           *)
(***************************************************************************)
EXTENDS Integers, Sequences, FiniteSets

CONSTANTS
    TextMatches,   \* valid regex |-> the texts it matches (regexes are not anchored)
    NoParent       \* the parent_span_id of a root span

-----------------------------------------------------------------------------
(* compare_u64, compare_i64, compare_duration_ns and compare_duration. *)
CompareNumber(a, op, b) ==
    \/ op = "Eq"  /\ a = b
    \/ op = "Neq" /\ a # b
    \/ op = "Gt"  /\ a > b
    \/ op = "Lt"  /\ a < b
    \/ op = "Gte" /\ a >= b
    \/ op = "Lte" /\ a <= b

(* compare_string, without the order of texts. *)
CompareText(actual, op, expected) ==
    \/ op = "Eq"  /\ actual = expected
    \/ op = "Neq" /\ actual # expected
    \/ op = "Regex" /\ expected \in DOMAIN TextMatches /\ actual \in TextMatches[expected]

(* compare_attribute_value: values of unrelated types compare to false,
   whatever the operator.                                                  *)
CompareValue(attr, op, target) ==
    \/ /\ attr.type = "String" /\ target.type = "String"
       /\ CompareText(attr.text, op, target.text)
    \/ /\ attr.type = "Number" /\ target.type = "Number"
       /\ CompareNumber(attr.num, op, target.num)
    \/ /\ attr.type = "String" /\ target.type = "Number" /\ attr.parses
       /\ CompareNumber(attr.num, op, target.num)
    \/ /\ attr.type = "Bool" /\ target.type = "Bool"
       /\ op \in {"Eq", "Neq"} /\ CompareText(attr.text, op, target.text)

(* status and kind are unordered. *)
CompareEnum(actual, op, expected) ==
    \/ op = "Eq" /\ actual = expected
    \/ op = "Neq" /\ actual # expected

(* The keys an attribute condition looks for.  A resource condition falls
   back to the bare name, which is how `scope.` attributes are found.      *)
CandidateKeys(scope, name) ==
    {<<scope>> \o name} \cup (IF scope = "resource" THEN {name} ELSE {})

(* The first attribute under one of the keys decides; a span without one
   satisfies only !=.                                                      *)
AttributeMatches(span, c) ==
    LET keyed == {i \in DOMAIN span.attrs :
                     span.attrs[i].key \in CandidateKeys(c.scope, c.name)}
    IN  IF keyed = {} THEN c.op = "Neq"
        ELSE LET first == CHOOSE i \in keyed : \A j \in keyed : i <= j
             IN  CompareValue(span.attrs[first].value, c.op, c.value)

(* precompile_regexes compiles the patterns of attribute and name conditions
   only: a regex on an event condition has none and matches no text.       *)
Precompiled(c) == c.op = "Regex" => c.on \in {"Attribute", "Name"}

(* Any event may carry the attribute. *)
EventAttributeMatches(span, c) ==
    LET keyed == {a \in UNION {span.events[i].attrs : i \in DOMAIN span.events} : a.key = c.name}
    IN  IF keyed = {} THEN c.op = "Neq"
        ELSE Precompiled(c) /\ \E a \in keyed : CompareValue(a.value, c.op, c.value)

MatchesCondition(span, c) ==
    \/ c.on = "Duration" /\ CompareNumber(IF span.duration > 0 THEN span.duration ELSE 0, c.op, c.value.num)
    \/ c.on = "Status" /\ CompareEnum(span.status, c.op, c.value.text)
    \/ c.on = "Kind" /\ CompareEnum(span.kind, c.op, c.value.text)
    \/ c.on = "Name" /\ CompareText(span.name, c.op, c.value.text)
    \/ c.on = "EventName" /\ Precompiled(c)
                          /\ \E i \in DOMAIN span.events :
                                CompareText(span.events[i].name, c.op, c.value.text)
    \/ c.on = "EventAttribute" /\ EventAttributeMatches(span, c)
    \/ c.on = "Attribute" /\ AttributeMatches(span, c)

-----------------------------------------------------------------------------
(* span_matches_conditions: one pass from left to right; ops[i] stands
   between the conditions i and i + 1.                                     *)

(* Mutant: a condition after && forgets the ones before it. *)
AfterOperator_LastOnly(group, op, next) == next

(* The result of the running group of && after one more condition. *)
AfterOperator(group, op, next) == IF op = "And" THEN group /\ next ELSE next

MatchesSelector(span, selector) ==
    LET conditions == selector.conditions
        ops == selector.ops
        group[i \in 0 .. Len(ops)] ==
            IF i = 0 THEN MatchesCondition(span, conditions[1])
            ELSE AfterOperator(group[i - 1], ops[i], MatchesCondition(span, conditions[i + 1]))
    IN  \/ conditions = << >>
        \/ \E i \in 1 .. Len(ops) : ops[i] = "Or" /\ group[i - 1]
        \/ group[Len(ops)]

MatchedSpans(spans, selector) ==
    {i \in DOMAIN spans : MatchesSelector(spans[i], selector)}

-----------------------------------------------------------------------------
(* eval_structural.  Span ids may repeat (a retried export): the lookup
   table keeps the last span of an id.                                     *)
SpanMap(spans) ==
    [id \in {spans[i].id : i \in DOMAIN spans} |->
        spans[CHOOSE i \in DOMAIN spans :
                 spans[i].id = id /\ \A j \in DOMAIN spans : spans[j].id = id => j <= i]]

ParentOf(spans, id) ==
    IF id \in DOMAIN SpanMap(spans) THEN SpanMap(spans)[id].parent ELSE NoParent

IsChild(spans, parent, child) == parent # NoParent /\ ParentOf(spans, child) = parent

IsSibling(spans, a, b) == a # b /\ ParentOf(spans, a) = ParentOf(spans, b)

(* Mutant: the parent itself is not looked at. *)
ReachesAncestor_Late(current, parent, ancestor) == current = ancestor

ReachesAncestor(current, parent, ancestor) == parent = ancestor

(* is_descendant walks up from the span.  The walk is at most as long as
   the trace: `visited` stops it at the second visit of a span.            *)
IsDescendant(spans, ancestor, descendant) ==
    LET walk[n \in 0 .. Len(spans)] ==
            IF n = 0 THEN [at |-> descendant, visited |-> {}, found |-> FALSE,
                           done |-> descendant = ancestor]
            ELSE LET w == walk[n - 1]
                     parent == ParentOf(spans, w.at)
                     found == parent # NoParent /\ ReachesAncestor(w.at, parent, ancestor)
                 IN  IF w.done THEN w
                     ELSE IF found \/ parent = NoParent \/ parent \in w.visited
                     THEN [w EXCEPT !.done = TRUE, !.found = found]
                     ELSE [w EXCEPT !.at = parent, !.visited = @ \cup {w.at}]
    IN  walk[Len(spans)].found

Related(op, spans, a, b) ==
    \/ op = "Descendant" /\ IsDescendant(spans, a, b)
    \/ op = "Child" /\ IsChild(spans, a, b)
    \/ op = "Sibling" /\ IsSibling(spans, a, b)

(* The spans of the right side related to a span of the left side; of the
   spans with one id, the first.                                           *)
StructuralMatches(op, spans, lhs, rhs) ==
    LET right == MatchedSpans(spans, rhs)
        first(k) == \A j \in right : spans[j].id = spans[k].id => k <= j
    IN  {k \in right : first(k) /\ \E i \in MatchedSpans(spans, lhs) :
                                      Related(op, spans, spans[i].id, spans[k].id)}

-----------------------------------------------------------------------------
(* apply_pipeline_stage, over the durations of the matched spans of one
   trace.  Rust divides towards zero.                                      *)

SumOf(durations) ==
    LET sum[i \in 0 .. Len(durations)] == IF i = 0 THEN 0 ELSE sum[i - 1] + durations[i]
    IN  sum[Len(durations)]

TruncatedDiv(a, b) == IF a >= 0 THEN a \div b ELSE -((-a) \div b)

(* The greatest duration; the least is the greatest of the negated ones. *)
Greatest(durations) ==
    CHOOSE d \in {durations[i] : i \in DOMAIN durations} :
        \A i \in DOMAIN durations : durations[i] <= d

Least(durations) == -Greatest([i \in DOMAIN durations |-> -durations[i]])

PassesStage(durations, stage) ==
    \/ stage.on = "count" /\ CompareNumber(Len(durations), stage.op, stage.value)
    \/ /\ stage.on # "count" /\ durations # << >>
       /\ CompareNumber(CASE stage.on = "avg" -> TruncatedDiv(SumOf(durations), Len(durations))
                          [] stage.on = "max" -> Greatest(durations)
                          [] stage.on = "min" -> Least(durations),
                        stage.op, stage.value)

=============================================================================
