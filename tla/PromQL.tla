-------------------------------- MODULE PromQL --------------------------------
(***************************************************************************)
(* The PromQL evaluator, src/src/query/promql/eval.rs and eval/, as        *)
(* operators over the series of a metric store, in the order of their ids: *)
(* Eval(store, e, q) is eval_expr.  The parser is an external crate: an    *)
(* expression is a record whose `is` names the node.                       *)
(*                                                                         *)
(* The labels of a series are a SEQUENCE of pairs: matching and grouping   *)
(* compare the vectors of the code, order included.  A sample of the store *)
(* is [ts, value] with an integer value; a sample of a result is a pair    *)
(* <<time, number>>.  Times are milliseconds, and the saturation of their  *)
(* arithmetic at the ends of i64 is left out.                              *)
(***************************************************************************)
EXTENDS StoreIndex, PromValues, SequencesExt

CONSTANTS
    Lookback,       \* how far back an instant selector looks
    ForwardBuffer,  \* how far ahead an instant query looks
    Second,         \* milliseconds in a second
    MaxQuerySteps,  \* MAX_QUERY_STEPS
    Alphabet,       \* the strings that occur in labels, sorted
    BucketBound     \* le value |-> the number it parses as

ASSUME PromConstants ==
    /\ Lookback \in Nat /\ ForwardBuffer \in Nat /\ Second \in Nat \ {0}
    /\ MaxQuerySteps \in Nat

-----------------------------------------------------------------------------
(* Results.  An optional value is a sequence of at most one.  A series is
   [labels, samples] with samples <<time, value>>.                         *)
None == << >>
Some(v) == <<v>>

Failed == [type |-> "failed"]
Scalar(v) == [type |-> "scalar", value |-> v]
Matrix(series) == [type |-> "matrix", series |-> series]
Vector(series) == [type |-> "vector", series |-> series]
Series(labels, samples) == [labels |-> labels, samples |-> samples]

WithSamples(series) == SelectSeq(series, LAMBDA s : s.samples # << >>)

(* A query window is [start, end, step, instant]. *)
IsInstant(q) == q.instant \/ q.step = 0

Instant(t) == [start |-> t, end |-> t, step |-> 0, instant |-> TRUE]

(* query_range rejects a step that is not positive and too many steps. *)
RangeAccepted(q) ==
    /\ q.step > 0
    /\ (IF q.end > q.start THEN q.end - q.start ELSE 0) \div q.step < MaxQuerySteps

(* The times a query is evaluated at: advance_time, from start. *)
Steps(q) ==
    IF IsInstant(q) THEN <<q.end>>
    ELSE SelectSeq([i \in 1 .. q.end - q.start + 1 |-> q.start + (i - 1) * q.step],
                   LAMBDA t : t <= q.end)

(* The samples of one series, from the optional value at each step. *)
Points(steps, valueAt) ==
    FlattenSeq([k \in DOMAIN steps |->
        [j \in DOMAIN valueAt[steps[k]] |-> <<steps[k], valueAt[steps[k]][j]>>]])

-----------------------------------------------------------------------------
(* Selectors: vs is [name, matchers, offset, at, at_ms].  `at` is "none",
   "start", "end" or "time", then of at_ms.                                *)
VsMatchers(vs) ==
    IF \E m \in vs.matchers : m.name = "__name__" THEN vs.matchers
    ELSE vs.matchers \cup {[name |-> "__name__", op |-> "Eq", operand |-> vs.name]}

SelectSeries(store, vs) ==
    SelectSeq(store, LAMBDA s : \A m \in VsMatchers(vs) : Satisfies(Range(s.labels), m))

GetSamples(s, start, end) ==
    SubSeq(s.samples, CountBelow(s.samples, start) + 1, CountBelow(s.samples, end + 1))

AtToMs(vs, q, t) ==
    CASE vs.at = "none" -> t
      [] vs.at = "start" -> q.start
      [] vs.at = "end" -> q.end
      [] vs.at = "time" -> vs.at_ms

(* Only an instant query looks ahead. *)
LatestValue(s, vs, q, t) ==
    LET at == AtToMs(vs, q, t) - vs.offset
        found == GetSamples(s, at - Lookback, IF IsInstant(q) THEN at + ForwardBuffer ELSE at)
    IN  IF found = << >> THEN None ELSE Some(Number(found[Len(found)].value))

EvalVectorSelector(store, vs, q) ==
    LET selected == SelectSeries(store, vs)
        steps == Steps(q)
        evaluated(s) ==
            Series(s.labels, Points(steps, [t \in Range(steps) |-> LatestValue(s, vs, q, t)]))
    IN  Vector(WithSamples([i \in DOMAIN selected |-> evaluated(selected[i])]))

EvalMatrixSelector(store, vs, range, q) ==
    LET selected == SelectSeries(store, vs)
        at == AtToMs(vs, q, q.end) - vs.offset
        window(s) == GetSamples(s, at - range, at)
        read(s) == Series(s.labels, [i \in DOMAIN window(s) |->
                                        <<window(s)[i].ts, Number(window(s)[i].value)>>])
    IN  Matrix(WithSamples([i \in DOMAIN selected |-> read(selected[i])]))

-----------------------------------------------------------------------------
(* Functions of a range.  A counter that falls has started again at 0. *)

(* Mutant: a fall is subtracted. *)
Gain_NoReset(before, after) == after - before

Gain(before, after) == IF after >= before THEN after - before ELSE after

TotalIncrease(samples) ==
    LET upTo[i \in 1 .. Len(samples)] ==
            IF i = 1 THEN 0 ELSE upTo[i - 1] + Gain(samples[i - 1].value, samples[i].value)
    IN  upTo[Len(samples)]

SumOver(values) ==
    LET upTo[i \in 0 .. Len(values)] == IF i = 0 THEN 0 ELSE upTo[i - 1] + values[i]
    IN  upTo[Len(values)]

(* The slope of the least-squares line, per second. *)
Deriv(samples) ==
    LET n == Len(samples)
        x == [i \in 1 .. n |-> samples[i].ts]
        y == [i \in 1 .. n |-> samples[i].value]
        sumOfProducts(a, b) == SumOver([i \in 1 .. n |-> a[i] * b[i]])
        den == n * sumOfProducts(x, x) - SumOver(x) * SumOver(x)
    IN  IF den = 0 THEN None
        ELSE Some(<<Second * (n * sumOfProducts(x, y) - SumOver(x) * SumOver(y)), den>>)

PerSecond(increase, ms) == IF ms <= 0 THEN None ELSE Some(<<increase * Second, ms>>)

ComputeRateLike(fn, samples, range) ==
    LET n == Len(samples)
        covered == samples[n].ts - samples[1].ts
    IN  IF n < 2 THEN None
        ELSE CASE fn = "rate" -> PerSecond(TotalIncrease(samples), covered)
               [] fn = "increase" ->
                     IF covered <= 0 THEN None ELSE Some(<<TotalIncrease(samples) * range, covered>>)
               [] fn = "delta" -> Some(Number(samples[n].value - samples[1].value))
               [] fn = "irate" -> PerSecond(Gain(samples[n - 1].value, samples[n].value),
                                            samples[n].ts - samples[n - 1].ts)
               [] fn = "deriv" -> Deriv(samples)

(* count_changes_or_resets *)
CountBetween(fn, samples) ==
    Cardinality({i \in 2 .. Len(samples) :
        IF fn = "resets" THEN samples[i].value < samples[i - 1].value
        ELSE samples[i].value # samples[i - 1].value})

RateLike == {"rate", "increase", "irate", "delta", "deriv"}

(* The value of e = [fn, vs, range] over one window.  "sum" stands for
   sum_over_time, and likewise for the other statistics.                   *)
RangeValue(e, phi, samples) ==
    LET values == [i \in DOMAIN samples |-> Number(samples[i].value)]
    IN  CASE e.fn \in RateLike -> ComputeRateLike(e.fn, samples, e.range)
          [] e.fn \notin RateLike /\ samples = << >> -> None
          [] e.fn \in {"changes", "resets"} /\ samples # << >> ->
                Some(Number(CountBetween(e.fn, samples)))
          [] e.fn = "quantile_over_time" /\ samples # << >> ->
                IF IsQuantile(phi) THEN Some(QuantileOf(phi, values)) ELSE None
          [] OTHER -> Some(Statistic(e.fn, values))

(* The @ modifier of the selector is not looked at. *)

(* Mutant: a range query reads the window of its end at every step. *)
WindowAt_End(s, e, q, t) == GetSamples(s, q.end - e.vs.offset - e.range, q.end - e.vs.offset)

WindowAt(s, e, q, t) == GetSamples(s, t - e.vs.offset - e.range, t - e.vs.offset)

EvalRangeFunction(store, e, phi, q) ==
    LET selected == SelectSeries(store, e.vs)
        steps == Steps(q)
        evaluated(s) ==
            Series(s.labels,
                   Points(steps, [t \in Range(steps) |-> RangeValue(e, phi, WindowAt(s, e, q, t))]))
    IN  Vector(WithSamples([i \in DOMAIN selected |-> evaluated(selected[i])]))

EvalAbsentOverTime(store, e, q) ==
    LET selected == SelectSeries(store, e.vs)
        present(t) == \E i \in DOMAIN selected : WindowAt(selected[i], e, q, t) # << >>
        steps == Steps(q)
    IN  Vector(WithSamples(<<Series(<< >>,
            Points(steps, [t \in Range(steps) |->
                              IF present(t) THEN None ELSE Some(Number(1))]))>>))

-----------------------------------------------------------------------------
(* Labels. *)
WithoutName(labels) == SelectSeq(labels, LAMBDA p : p[1] # "__name__")

Rank(string) == CHOOSE i \in DOMAIN Alphabet : Alphabet[i] = string

SortByName(labels) ==
    SortSeq(labels, LAMBDA p, r : Rank(p[1]) < Rank(r[1]))

(* The order of two label vectors as the keys of a BTreeMap. *)
LabelsLess(a, b) ==
    LET flat(labels) == FlattenSeq([i \in DOMAIN labels |-> <<Rank(labels[i][1]), Rank(labels[i][2])>>])
        x == flat(a)
        y == flat(b)
        agreeUpTo(n) == \A i \in 1 .. n : x[i] = y[i]
    IN  \/ Len(x) < Len(y) /\ agreeUpTo(Len(x))
        \/ \E i \in DOMAIN x \cap DOMAIN y : agreeUpTo(i - 1) /\ x[i] < y[i]

ValueOf(labels, name) == SelectSeq(labels, LAMBDA p : p[1] = name)

(* label_replace and label_join: what they write under the label dst.  The
   empty string is "".                                                     *)
SetLabel(labels, dst, value) ==
    IF value = "" THEN SelectSeq(labels, LAMBDA p : p[1] # dst)
    ELSE IF ValueOf(labels, dst) # << >>
    THEN [i \in DOMAIN labels |-> IF labels[i][1] = dst THEN <<dst, value>> ELSE labels[i]]
    ELSE SortByName(Append(labels, <<dst, value>>))

(* e.from gives the values of the source labels, "" for a missing one, the
   value they are turned into.  It is partial for label_replace, whose
   regular expression may not match.                                       *)
RewriteLabels(e, labels) ==
    LET of(name) == IF ValueOf(labels, name) = << >> THEN "" ELSE ValueOf(labels, name)[1][2]
        source == [i \in DOMAIN e.src |-> of(e.src[i])]
    IN  IF source \in DOMAIN e.from THEN SetLabel(labels, e.dst, e.from[source]) ELSE labels

-----------------------------------------------------------------------------
(* Binary operators: e is [op, matching, names, join, carry, bool]. *)
IsComparison(op) == op \in {">", "<", ">=", "<=", "==", "!="}

IsSetOp(op) == op \in {"and", "or", "unless"}

MatchKey(e, labels) ==
    SelectSeq(labels, LAMBDA p :
        IF e.matching = "on" THEN p[1] \in e.names
        ELSE p[1] # "__name__" /\ (e.matching = "ignoring" => p[1] \notin e.names))

(* The sample an operator leaves at t, if any. *)
ComparisonSample(e, t, lhs, result) ==
    IF ~IsComparison(e.op) \/ e.bool THEN <<<<t, result>>>>
    ELSE IF Same(result, Number(0)) THEN << >> ELSE <<<<t, lhs>>>>

(* sample_lookup: the last sample at a time counts. *)
ValueAt(samples, t) ==
    LET found == SelectSeq(samples, LAMBDA p : p[1] = t)
    IN  IF found = << >> THEN None ELSE Some(found[Len(found)][2])

CombineSamples(e, ls, rs) ==
    FlattenSeq([i \in DOMAIN ls.samples |->
        LET t == ls.samples[i][1]
            lv == ls.samples[i][2]
            rv == ValueAt(rs.samples, t)
        IN  IF rv = None THEN << >>
            ELSE ComparisonSample(e, t, lv, ApplyBinaryOp(e.op, lv, rv[1]))])

(* group_left and group_right: labels of one side, and those of the other
   that the join names, sorted.                                            *)
CarryLabels(kept, other, names) ==
    LET carried == SelectSeq(other, LAMBDA p : p[1] \in names)
    IN  SortByName(SelectSeq(WithoutName(kept), LAMBDA p : ValueOf(carried, p[1]) = << >>) \o carried)

(* Mutant: group_right carries the labels of the wrong side. *)
JoinedLabels_KeepsLeft(e, ls, rs) ==
    IF e.join = "plain" THEN WithoutName(ls.labels) ELSE CarryLabels(ls.labels, rs.labels, e.carry)

JoinedLabels(e, ls, rs) ==
    CASE e.join = "plain" -> WithoutName(ls.labels)
      [] e.join = "left" -> CarryLabels(ls.labels, rs.labels, e.carry)
      [] e.join = "right" -> CarryLabels(rs.labels, ls.labels, e.carry)

(* Every pair of series with the same key is combined; only group_left
   makes sure that the right side has one.                                 *)
EvalVectorVector(e, lhs, rhs) ==
    LET matches(ls) == SelectSeq(rhs, LAMBDA rs : MatchKey(e, rs.labels) = MatchKey(e, ls.labels))
        combined(ls) == [j \in DOMAIN matches(ls) |->
                            Series(JoinedLabels(e, ls, matches(ls)[j]),
                                   CombineSamples(e, ls, matches(ls)[j]))]
    IN  IF e.join = "left" /\ \E i \in DOMAIN lhs : Len(matches(lhs[i])) > 1 THEN Failed
        ELSE Vector(WithSamples(FlattenSeq([i \in DOMAIN lhs |-> combined(lhs[i])])))

(* and, or and unless compare keys of series and never look at samples. *)
EvalSetOp(e, lhs, rhs) ==
    LET keys(series) == {MatchKey(e, s.labels) : s \in Range(series)}
        unnamed(series) == [i \in DOMAIN series |->
                               Series(WithoutName(series[i].labels), series[i].samples)]
        outside(series, others) ==
            SelectSeq(series, LAMBDA s : MatchKey(e, s.labels) \notin keys(others))
    IN  CASE e.op = "and" ->
                Vector(unnamed(SelectSeq(lhs, LAMBDA s : MatchKey(e, s.labels) \in keys(rhs))))
          [] e.op = "unless" -> Vector(unnamed(outside(lhs, rhs)))
          [] e.op = "or" -> Vector(unnamed(lhs) \o unnamed(outside(rhs, lhs)))

EvalVectorScalar(e, series, scalar, scalarFirst) ==
    LET result(v) == IF scalarFirst THEN ApplyBinaryOp(e.op, scalar, v)
                     ELSE ApplyBinaryOp(e.op, v, scalar)
        kept(s) == FlattenSeq([i \in DOMAIN s.samples |->
                      ComparisonSample(e, s.samples[i][1], s.samples[i][2], result(s.samples[i][2]))])
    IN  Vector(WithSamples([i \in DOMAIN series |-> Series(series[i].labels, kept(series[i]))]))

EvalBinary(e, lhs, rhs) ==
    CASE lhs.type = "scalar" /\ rhs.type = "scalar" ->
            Scalar(ApplyBinaryOp(e.op, lhs.value, rhs.value))
      [] lhs.type = "vector" /\ rhs.type = "scalar" ->
            EvalVectorScalar(e, lhs.series, rhs.value, FALSE)
      [] lhs.type = "scalar" /\ rhs.type = "vector" ->
            EvalVectorScalar(e, rhs.series, lhs.value, TRUE)
      [] lhs.type = "vector" /\ rhs.type = "vector" ->
            IF IsSetOp(e.op) THEN EvalSetOp(e, lhs.series, rhs.series)
            ELSE EvalVectorVector(e, lhs.series, rhs.series)
      [] OTHER -> Failed

-----------------------------------------------------------------------------
(* Aggregations: e is [op, grouping, names]. *)
GroupLabels(e, labels) ==
    CASE e.grouping = "by" -> SelectSeq(labels, LAMBDA p : p[1] \in e.names)
      [] e.grouping = "without" -> SelectSeq(labels, LAMBDA p : p[1] \notin e.names)
      [] e.grouping = "none" -> << >>

(* aggregate_group and quantile_group: the values at every time that
   some series of the group has a sample at.                               *)
GroupSamples(e, q, members) ==
    LET times == UNION {{p[1] : p \in Range(s.samples)} : s \in Range(members)}
        sorted == SetToSortSeq(times, LAMBDA a, b : a < b)
        values(t) == FlattenSeq([i \in DOMAIN members |-> ValueAt(members[i].samples, t)])
        value(t) == IF e.op = "quantile" THEN QuantileOf(q, values(t)) ELSE Statistic(e.op, values(t))
    IN  IF e.op = "quantile" /\ ~IsQuantile(q) THEN << >>
        ELSE [k \in DOMAIN sorted |-> <<sorted[k], value(sorted[k])>>]

EvalGroups(e, q, series) ==
    LET groups == SetToSortSeq({GroupLabels(e, s.labels) : s \in Range(series)}, LabelsLess)
        members(g) == SelectSeq(series, LAMBDA s : GroupLabels(e, s.labels) = g)
    IN  Vector(WithSamples([i \in DOMAIN groups |->
                               Series(groups[i], GroupSamples(e, q, members(groups[i])))]))

(* topk, bottomk, sort and sort_desc compare the last sample of a series. *)
SortSeries(series, descending) ==
    LET last(s) == s.samples[Len(s.samples)][2]
        key(s) == IF descending THEN Negate(last(s)) ELSE last(s)
    IN  SortByKey(series, [i \in DOMAIN series |-> key(series[i])])

FirstK(series, k) == SubSeq(series, 1, IF k < Len(series) THEN k ELSE Len(series))

(* The grouping of topk and bottomk is not looked at. *)
EvalAggregation(e, inner, param) ==
    CASE inner.type = "scalar" -> inner
      [] inner.type # "scalar" /\ e.op \in {"topk", "bottomk"} ->
            IF param.type # "scalar" THEN Failed
            ELSE Vector(FirstK(SortSeries(inner.series, e.op = "topk"), ScalarToCount(param.value)))
      [] inner.type # "scalar" /\ e.op = "quantile" ->
            IF param.type # "scalar" THEN Failed ELSE EvalGroups(e, param.value, inner.series)
      [] inner.type # "scalar" /\ e.op = "count_values" -> Failed
      [] OTHER -> EvalGroups(e, NaN, inner.series)

-----------------------------------------------------------------------------
(* histogram_quantile.  The buckets of a group are sorted by their bounds,
   and those with a sample at a time give <<bound, count>> pairs.          *)
LeBound(le) == IF le \in DOMAIN BucketBound THEN BucketBound[le] ELSE Infinity

(* Mutant: the bound below the bucket is not added. *)
InBucket_NoBase(pairs, i, target) ==
    LET below == IF i = 1 THEN <<Number(0), Number(0)>> ELSE pairs[i - 1]
        fraction == Divide(Subtract(target, below[2]), Subtract(pairs[i][2], below[2]))
    IN  IF ~IsFinite(pairs[i][1]) THEN below[1]
        ELSE IF Same(pairs[i][2], below[2]) THEN pairs[i][1]
        ELSE Multiply(fraction, Subtract(pairs[i][1], below[1]))

(* Between the bound below and the bound of the bucket the target falls in. *)
InBucket(pairs, i, target) ==
    LET below == IF i = 1 THEN <<Number(0), Number(0)>> ELSE pairs[i - 1]
        fraction == Divide(Subtract(target, below[2]), Subtract(pairs[i][2], below[2]))
    IN  IF ~IsFinite(pairs[i][1]) THEN below[1]
        ELSE IF Same(pairs[i][2], below[2]) THEN pairs[i][1]
        ELSE Add(below[1], Multiply(fraction, Subtract(pairs[i][1], below[1])))

BucketQuantile(phi, pairs) ==
    LET total == pairs[Len(pairs)][2]
        target == Multiply(phi, total)
        reached == {i \in DOMAIN pairs :
                       pairs[i][2] # NaN /\ target # NaN /\ ~Less(pairs[i][2], target)}
    IN  IF pairs = << >> THEN None
        ELSE IF Same(total, Number(0)) THEN None
        ELSE IF reached = {} THEN Some(pairs[Len(pairs)][1])
        ELSE Some(InBucket(pairs, CHOOSE i \in reached : \A j \in reached : i <= j, target))

(* The times are those of the bucket with the lowest bound. *)
EvalHistogramQuantile(phi, series) ==
    LET buckets == SelectSeq(series, LAMBDA s : ValueOf(s.labels, "le") # << >>)
        rest(s) == SelectSeq(s.labels, LAMBDA p : p[1] # "le")
        bound(s) == LeBound(ValueOf(s.labels, "le")[1][2])
        groups == SetToSortSeq({rest(s) : s \in Range(buckets)}, LabelsLess)
        members(g) == LET found == SelectSeq(buckets, LAMBDA s : rest(s) = g)
                      IN  SortByKey(found, [i \in DOMAIN found |-> bound(found[i])])
        pairsAt(ms, t) == FlattenSeq([i \in DOMAIN ms |->
                              [j \in DOMAIN ValueAt(ms[i].samples, t) |->
                                  <<bound(ms[i]), ValueAt(ms[i].samples, t)[j]>>]])
        points(ms) == LET times == [k \in DOMAIN ms[1].samples |-> ms[1].samples[k][1]]
                      IN  Points(times, [t \in Range(times) |-> BucketQuantile(phi, pairsAt(ms, t))])
    IN  Vector(WithSamples([i \in DOMAIN groups |-> Series(groups[i], points(members(groups[i])))]))

-----------------------------------------------------------------------------
(* Functions of values: the whole result is mapped, sample by sample. *)
ApplyFunction(fn, params, t, v) ==
    CASE fn = "negate" -> Negate(v)
      [] fn = "timestamp" -> <<t, Second>>
      [] fn = "clamp" -> Clamp(v, Some(params[1]), Some(params[2]))
      [] fn = "clamp_min" -> Clamp(v, Some(params[1]), None)
      [] fn = "clamp_max" -> Clamp(v, None, Some(params[1]))
      [] OTHER -> ApplyScalarFunc(fn, v)

MapValues(fn, params, r) ==
    LET mapped(s) == [i \in DOMAIN s.samples |->
                         <<s.samples[i][1], ApplyFunction(fn, params, s.samples[i][1], s.samples[i][2])>>]
    IN  CASE r.type = "vector" ->
                Vector([i \in DOMAIN r.series |-> Series(r.series[i].labels, mapped(r.series[i]))])
          [] r.type = "scalar" /\ fn # "timestamp" -> Scalar(ApplyFunction(fn, params, 0, r.value))
          [] OTHER -> r

MapLabels(e, r) ==
    IF r.type = "scalar" THEN r
    ELSE Vector([i \in DOMAIN r.series |->
                    Series(RewriteLabels(e, r.series[i].labels), r.series[i].samples)])

(* One sample without labels, at the end of the query. *)
Single(q, v) == Vector(<<Series(<< >>, <<<<q.end, v>>>>)>>)

ToScalar(r) ==
    CASE r.type = "scalar" -> r
      [] r.type = "vector" /\ Len(r.series) = 1 -> Scalar(r.series[1].samples[1][2])
      [] OTHER -> Scalar(NaN)

(* eval_call, with the results of the first argument and of the others. *)
EvalCall(e, q, r, params) ==
    CASE e.fn \in {"label_replace", "label_join"} -> MapLabels(e, r)
      [] e.fn = "absent" -> IF r.type # "scalar" /\ r.series = << >> THEN Single(q, Number(1))
                            ELSE Vector(<< >>)
      [] e.fn \in {"sort", "sort_desc"} ->
            IF r.type = "vector" THEN Vector(SortSeries(r.series, e.fn = "sort_desc")) ELSE r
      [] e.fn = "vector" -> IF r.type = "scalar" THEN Single(q, r.value) ELSE r
      [] e.fn = "scalar" -> ToScalar(r)
      [] e.fn = "histogram_quantile" ->
            IF r.type = "vector" THEN EvalHistogramQuantile(params[1], r.series) ELSE Failed
      [] OTHER -> MapValues(e.fn, params, r)

-----------------------------------------------------------------------------
(* eval_expr.  Every error is one: the first to occur ends the evaluation. *)
RECURSIVE Eval(_, _, _)
Eval(store, e, q) ==
    CASE e.is = "number" -> Scalar(e.value)
      [] e.is = "selector" -> EvalVectorSelector(store, e.vs, q)
      [] e.is = "matrix" -> EvalMatrixSelector(store, e.vs, e.range, q)
      [] e.is = "range" ->
            LET phi == Eval(store, e.param, q)
            IN  IF phi.type # "scalar" THEN Failed ELSE EvalRangeFunction(store, e, phi.value, q)
      [] e.is = "absent_over_time" -> EvalAbsentOverTime(store, e, q)
      [] e.is = "time" -> Single(q, <<q.end, Second>>)
      [] e.is = "aggregate" ->
            LET inner == Eval(store, e.expr, q)
                param == Eval(store, e.param, q)
            IN  IF Failed \in {inner, param} THEN Failed ELSE EvalAggregation(e, inner, param)
      [] e.is = "binary" ->
            LET lhs == Eval(store, e.lhs, q)
                rhs == Eval(store, e.rhs, q)
            IN  IF Failed \in {lhs, rhs} THEN Failed ELSE EvalBinary(e, lhs, rhs)
      [] e.is = "call" ->
            LET r == Eval(store, e.arg, q)
                params == [i \in DOMAIN e.params |-> Eval(store, e.params[i], q)]
            IN  IF r = Failed \/ \E i \in DOMAIN params : params[i].type # "scalar" THEN Failed
                ELSE EvalCall(e, q, r, [i \in DOMAIN params |-> params[i].value])

=============================================================================
