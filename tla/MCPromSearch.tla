---------------------------- MODULE MCPromSearch ----------------------------
(* Two counters a, of which one has an env label; an info metric b with two  *)
(* series for one job, to join with; and the three buckets of a histogram h. *)
EXTENDS PromSearch

MCAlphabet ==
    <<"+Inf", "1", "2", "__name__", "a", "b", "env", "h", "job", "le", "p", "q", "x", "y", "z", "zone">>

MCBucketBound == [le \in {"+Inf", "1", "2"} |->
    CASE le = "1" -> Number(1) [] le = "2" -> Number(2) [] le = "+Inf" -> Infinity]

MCPatternMatches == [p \in {"x|y"} |-> {"x", "y"}]

A(ts, value) == [labels |-> <<<<"__name__", "a">>, <<"job", "x">>>>, ts |-> ts, value |-> value]

AEnv(ts, value) ==
    [labels |-> <<<<"__name__", "a">>, <<"env", "p">>, <<"job", "y">>>>, ts |-> ts, value |-> value]

B(env, ts, value) ==
    [labels |-> <<<<"__name__", "b">>, <<"env", env>>, <<"job", "x">>>>, ts |-> ts, value |-> value]

BZone(ts, value) ==
    [labels |-> <<<<"__name__", "b">>, <<"env", "p">>, <<"job", "y">>, <<"zone", "z">>>>,
     ts |-> ts, value |-> value]

H(le, ts, value) == [labels |-> <<<<"__name__", "h">>, <<"le", le>>>>, ts |-> ts, value |-> value]

MCArrivals ==
    {A(0, 1), A(1, 3), A(1, 1), A(3, 2), AEnv(0, 3), AEnv(1, 1), B("p", 0, 2), B("q", 1, 1),
     BZone(0, 1), H("1", 0, 1), H("2", 0, 3), H("2", 1, 2), H("+Inf", 0, 4)}

Select(name) == [name |-> name, matchers |-> {}, offset |-> 0, at |-> "none", at_ms |-> 3]

Jobs == [name |-> "a", matchers |-> {[name |-> "job", op |-> "Regex", operand |-> "x|y"]},
         offset |-> 1, at |-> "none", at_ms |-> 3]

Binary(op, lhs, rhs) ==
    [is |-> "binary", op |-> op, lhs |-> lhs, rhs |-> rhs, matching |-> "all", names |-> {},
     join |-> "plain", carry |-> {}, bool |-> FALSE]

By(op, names, expr) == [AggregateExpr(op, expr, NaN) EXCEPT !.grouping = "by", !.names = names]

MCSelectors == {Select("a"), Select("h")}

MCRangeExprs ==
    {RangeExpr("rate", Select("a"), 2, NaN),
     [is |-> "absent_over_time", vs |-> Jobs, range |-> 1],
     CallExpr("round", RangeExpr("quantile_over_time", Jobs, 2, <<1, 3>>), << >>),
     By("avg", {"job"}, RangeExpr("stdvar", Select("a"), 3, NaN)),
     Binary("*", CallExpr("negate", RangeExpr("delta", Select("a"), 3, NaN), << >>),
            CallExpr("scalar", CallExpr("vector", NumberExpr(Number(2)), << >>), << >>)),
     Binary("<=", RangeExpr("deriv", Select("a"), 3, NaN),
            CallExpr("scalar", CallExpr("absent", SelectorExpr(Select("z")), << >>), << >>)),
     CallExpr("absent", [is |-> "time"], << >>),
     Binary("%", RangeExpr("sum", Select("h"), 2, NaN), NumberExpr(Number(2))),
     Binary(">", RangeExpr("changes", Select("a"), 3, NaN), RangeExpr("resets", Select("a"), 3, NaN)),
     [Binary("-", RangeExpr("last", Select("a"), 2, NaN), RangeExpr("irate", Select("a"), 3, NaN))
         EXCEPT !.matching = "on", !.names = {"job"}, !.join = "right"]}

Replaced ==
    [is |-> "call", fn |-> "label_replace", arg |-> SelectorExpr(Select("a")), params |-> << >>,
     dst |-> "zone", src |-> <<"env">>, from |-> [v \in {<<"p">>} |-> "z"]]

Joined ==
    [Replaced EXCEPT !.fn = "label_join", !.dst = "env", !.src = <<"job", "zone">>,
                     !.from = [v \in {"x", "y"} \X {""} |-> v[1]]]

MCSelectorExprs ==
    {SelectorExpr([Jobs EXCEPT !.offset = 0]),
     SelectorExpr([Jobs EXCEPT !.offset = 0, !.at = "time"]),
     Joined,
     CallExpr("timestamp", SelectorExpr(Select("b")), << >>),
     CallExpr("clamp", SelectorExpr(Select("a")), <<NumberExpr(Number(2)), NumberExpr(<<5, 2>>)>>),
     [By("sum", {"env"}, SelectorExpr(Select("b"))) EXCEPT !.grouping = "without"],
     [Binary("==", SelectorExpr(Select("a")), SelectorExpr(Select("b")))
         EXCEPT !.matching = "ignoring", !.names = {"env"}, !.bool = TRUE]}

MCJoins ==
    {[Binary(op, SelectorExpr(Select("a")), SelectorExpr(Select("b")))
         EXCEPT !.matching = "on", !.names = {"job"}, !.join = "left", !.carry = {"env"}] :
        op \in {"+", "*"}}

MCMatchings == {Binary("and", Replaced, SelectorExpr(Select("b")))}

MCQuantiles == <<Number(0), <<1, 4>>, <<1, 2>>, <<3, 4>>, Number(1)>>

MCTimes == {0, 1, 3}

=============================================================================
