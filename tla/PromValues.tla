------------------------------ MODULE PromValues ------------------------------
(***************************************************************************)
(* The numbers of the PromQL evaluator and the statistics it takes of them *)
(* (src/src/query/promql/eval/).  An f64 is a fraction <<numerator,        *)
(* denominator>>, so that no rounding is modelled; a denominator of 0      *)
(* stands for the infinities and, with numerator 0, for NaN.  The square   *)
(* root, the logarithms, the exponential and the power are left out.       *)
(***************************************************************************)
EXTENDS Integers, Sequences, FiniteSets

NaN == <<0, 0>>
Infinity == <<1, 0>>
Number(n) == <<n, 1>>
Truth(b) == Number(IF b THEN 1 ELSE 0)

IsFinite(a) == a[2] # 0
BothInfinite(a, b) == a[2] = 0 /\ b[2] = 0

Less(a, b) ==
    IF BothInfinite(a, b) THEN a[1] < 0 /\ b[1] > 0
    ELSE a # NaN /\ b # NaN /\ a[1] * b[2] < b[1] * a[2]

(* Two numbers of the same value, also when neither is reduced. *)
Same(a, b) == (a = NaN /\ b = NaN) \/ (a # NaN /\ b # NaN /\ ~Less(a, b) /\ ~Less(b, a))

Negate(a) == <<-a[1], a[2]>>

Add(a, b) ==
    IF BothInfinite(a, b) THEN IF a[1] * b[1] > 0 THEN a ELSE NaN
    ELSE <<a[1] * b[2] + b[1] * a[2], a[2] * b[2]>>

Subtract(a, b) == Add(a, Negate(b))

Multiply(a, b) == <<a[1] * b[1], a[2] * b[2]>>

Divide(a, b) ==
    IF b[1] > 0 THEN <<a[1] * b[2], a[2] * b[1]>> ELSE <<-(a[1] * b[2]), -(a[2] * b[1])>>

Floor(a) == a[1] \div a[2]

Truncate(a) == IF a[1] >= 0 THEN Floor(a) ELSE -Floor(Negate(a))

-----------------------------------------------------------------------------
(* apply_binary_op.  `==` and `!=` look at the difference, which is NaN for
   two infinities: then neither holds.                                     *)
Remainder(l, r) == Subtract(l, Multiply(r, Number(Truncate(Divide(l, r)))))

ApplyBinaryOp(op, l, r) ==
    LET difference == Subtract(l, r)
    IN  CASE op = "+" -> Add(l, r)
          [] op = "-" -> difference
          [] op = "*" -> Multiply(l, r)
          [] op = "/" -> IF r[1] = 0 THEN NaN ELSE Divide(l, r)
          [] op = "%" -> IF r[1] = 0 \/ ~IsFinite(l) THEN NaN
                         ELSE IF ~IsFinite(r) THEN l ELSE Remainder(l, r)
          [] op = ">" -> Truth(Less(r, l))
          [] op = "<" -> Truth(Less(l, r))
          [] op = ">=" -> Truth(Less(r, l) \/ (l # NaN /\ Same(l, r)))
          [] op = "<=" -> Truth(Less(l, r) \/ (l # NaN /\ Same(l, r)))
          [] op = "==" -> Truth(IsFinite(difference) /\ difference[1] = 0)
          [] op = "!=" -> Truth(difference[1] # 0)
          [] OTHER -> NaN

(* apply_scalar_func, and sgn of apply_math_func. *)
Sign(v) == IF v = NaN THEN NaN ELSE Number(IF v[1] > 0 THEN 1 ELSE IF v[1] < 0 THEN -1 ELSE 0)

Round(v) ==
    Number(Truncate(Add(v, IF v[1] >= 0 THEN <<1, 2>> ELSE <<-1, 2>>)))

ApplyScalarFunc(fn, v) ==
    CASE fn = "abs" -> IF v[1] < 0 THEN Negate(v) ELSE v
      [] fn = "ceil" -> IF IsFinite(v) THEN Number(-Floor(Negate(v))) ELSE v
      [] fn = "floor" -> IF IsFinite(v) THEN Number(Floor(v)) ELSE v
      [] fn = "round" -> IF IsFinite(v) THEN Round(v) ELSE v
      [] fn = "sgn" -> Sign(v)

(* clamp, clamp_min and clamp_max: no bound is <<>>. *)
Clamp(v, min, max) ==
    LET raised == IF min # << >> /\ Less(v, min[1]) THEN min[1] ELSE v
    IN  IF max # << >> /\ Less(max[1], raised) THEN max[1] ELSE raised

-----------------------------------------------------------------------------
(* Statistics of a sequence of values. *)
Total(values) ==
    LET upTo[i \in 0 .. Len(values)] ==
            IF i = 0 THEN Number(0) ELSE Add(upTo[i - 1], values[i])
    IN  upTo[Len(values)]

(* fold(NEG_INFINITY, f64::max): NaN loses against every number. *)
Greatest(values) ==
    LET upTo[i \in 0 .. Len(values)] ==
            IF i = 0 THEN Negate(Infinity)
            ELSE IF Less(upTo[i - 1], values[i]) THEN values[i] ELSE upTo[i - 1]
    IN  upTo[Len(values)]

Least(values) == Negate(Greatest([i \in DOMAIN values |-> Negate(values[i])]))

Mean(values) == Divide(Total(values), Number(Len(values)))

Variance(values) ==
    LET off(v) == Subtract(v, Mean(values))
    IN  Mean([i \in DOMAIN values |-> Multiply(off(values[i]), off(values[i]))])

(* The aggregations over series and those over time have these in common. *)
Statistic(op, values) ==
    CASE op = "sum" -> Total(values)
      [] op = "avg" -> Mean(values)
      [] op = "max" -> Greatest(values)
      [] op = "min" -> Least(values)
      [] op = "count" -> Number(Len(values))
      [] op \in {"group", "present"} -> Number(1)
      [] op = "last" -> values[Len(values)]
      [] op = "stdvar" -> Variance(values)

(* sort_by of items by a key each, which is stable.  No key is NaN: the
   comparison is then not an order and the outcome of the sort is not
   specified.                                                              *)
SortByKey(items, keys) ==
    LET goesBefore(i, j) ==
            Less(keys[i], keys[j]) \/ (~Less(keys[j], keys[i]) /\ i < j)
        place(i) == Cardinality({j \in DOMAIN items : goesBefore(j, i)}) + 1
    IN  [r \in DOMAIN items |-> items[CHOOSE i \in DOMAIN items : place(i) = r]]

(* interpolate_quantile of sorted values, q between 0 and 1. *)
InterpolateQuantile(sorted, q) ==
    LET rank == Multiply(q, Number(Len(sorted) - 1))
        lower == Floor(rank)
        fraction == Subtract(rank, Number(lower))
    IN  IF fraction[1] = 0 THEN sorted[lower + 1]
        ELSE Add(Multiply(sorted[lower + 1], Subtract(Number(1), fraction)),
                 Multiply(sorted[lower + 2], fraction))

(* quantile_over_time and quantile: no value for a q outside 0 .. 1. *)
IsQuantile(q) == q # NaN /\ ~Less(q, Number(0)) /\ ~Less(Number(1), q)

QuantileOf(q, values) == InterpolateQuantile(SortByKey(values, values), q)

(* scalar_to_count: the k of topk and bottomk. *)
ScalarToCount(v) == IF IsFinite(v) /\ v[1] > 0 THEN Floor(v) ELSE 0

=============================================================================
