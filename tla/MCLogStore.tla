------------------------------ MODULE MCLogStore ------------------------------
(* A small log store: two services, one of them with two streams, one of    *)
(* which has no level.                                                       *)
EXTENDS LogStore

MCPatternMatches == [p \in {"a|b", "a|x", ".*"} |->
    CASE p = "a|b" -> {"a", "b"}
      [] p = "a|x" -> {"a", "x"}
      [] p = ".*"  -> {"a", "b", "x"}]

MCLabelSets ==
    {{<<"service", "a">>, <<"level", "x">>}, {<<"service", "a">>}, {<<"service", "b">>, <<"level", "x">>}}

Matcher(name, op, operand) == [name |-> name, op |-> op, operand |-> operand]

MCMatchers ==
    {Matcher("service", "Eq", "a"), Matcher("service", "Neq", "a"),
     Matcher("service", "Regex", "a|b"), Matcher("service", "NotRegex", "a|x"),
     Matcher("level", "Eq", "x"), Matcher("level", "Neq", "x"),
     Matcher("level", "NotRegex", ".*"), Matcher("zone", "Regex", ".*"),
     Matcher("zone", "Neq", "x"), Matcher("zone", "NotRegex", ".*")}

=============================================================================
