------------------------------ MODULE PromSearch ------------------------------
(***************************************************************************)
(* PromQL queries over the series that ingest_samples builds               *)
(* (src/src/store/metric_store.rs), one sample at a time and late ones     *)
(* included.  The label indexes are those of module MetricStore, which     *)
(* finds them exact: a selector here scans the series.                     *)
(***************************************************************************)
EXTENDS PromQL

CONSTANTS
    Arrivals,       \* the samples clients may send: [labels, ts, value], labels in their order
    MaxSamples,     \* bound: samples in the store
    Times,          \* times queries are asked for
    RangeExprs,     \* expressions over range functions, evaluated step by step
    SelectorExprs,  \* the same over bare selectors without an offset
    Joins,          \* binary expressions with group_left
    Matchings,      \* and-expressions with the default matching
    Selectors,      \* selectors for range functions and quantiles
    Quantiles       \* quantiles to ask for

VARIABLES
    store,      \* the series, in the order of their ids: [labels, samples]
    interned    \* the label names in the order in which they were interned

vars == <<store, interned>>

Init == store = << >> /\ interned = << >>

-----------------------------------------------------------------------------
SampleCount == Cardinality(UNION {{i} \X DOMAIN store[i].samples : i \in DOMAIN store})

(* intern_label_pairs: new names are interned in the order the client sent
   them, and the pairs are sorted by their keys in the interner.           *)
Interned(labels) ==
    interned \o SelectSeq([i \in DOMAIN labels |-> labels[i][1]],
                          LAMBDA name : name \notin Range(interned))

SortByKeyOfName(labels, names) ==
    LET position(name) == CHOOSE i \in DOMAIN names : names[i] = name
    IN  SortSeq(labels, LAMBDA p, r : position(p[1]) < position(r[1]))

IngestSample(p) ==
    LET labels == SortByKeyOfName(p.labels, Interned(p.labels))
        sample == [ts |-> p.ts, value |-> p.value]
        known == {i \in DOMAIN store : store[i].labels = labels}
    IN  /\ SampleCount < MaxSamples
        /\ interned' = Interned(p.labels)
        /\ store' = IF known = {} THEN Append(store, [labels |-> labels, samples |-> <<sample>>])
                    ELSE [i \in DOMAIN store |->
                             IF i \in known
                             THEN [store[i] EXCEPT !.samples = AppendBatch(@, <<sample>>)]
                             ELSE store[i]]

Clear ==
    /\ store' = << >>
    /\ interned' = << >>

Next == (\E p \in Arrivals : IngestSample(p)) \/ Clear

Spec == Init /\ [][Next]_vars

-----------------------------------------------------------------------------
Windows == {w \in [start : Times, end : Times, step : 1 .. 2, instant : {FALSE}] : RangeAccepted(w)}

(* What a result says about one time, in the order of its series. *)
Slice(r, t) ==
    IF r = Failed THEN r
    ELSE FlattenSeq([i \in DOMAIN r.series |->
            [j \in DOMAIN ValueAt(r.series[i].samples, t) |->
                <<r.series[i].labels, ValueAt(r.series[i].samples, t)[j]>>]])

SampleAhead(t) ==
    \E i \in DOMAIN store : \E k \in DOMAIN store[i].samples :
        store[i].samples[k].ts \in t + 1 .. t + ForwardBuffer

(* query_range answers, at each of at most MAX_QUERY_STEPS steps, what query
   answers at that instant, for the expressions that are evaluated step by
   step.  A bare selector is excepted where a sample lies in the buffer that
   only an instant query looks ahead into.                                 *)
StepsAreInstants ==
    \A w \in Windows :
        /\ Len(Steps(w)) <= MaxQuerySteps
        /\ \A e \in RangeExprs \cup SelectorExprs :
              LET r == Eval(store, e, w)
              IN  \A t \in {u \in w.start .. w.end : (u - w.start) % w.step = 0} :
                     e \in RangeExprs \/ ~SampleAhead(t) =>
                        Slice(r, t) = Slice(Eval(store, e, Instant(t)), t)

-----------------------------------------------------------------------------
NumberExpr(v) == [is |-> "number", value |-> v]

RangeExpr(fn, vs, range, phi) ==
    [is |-> "range", fn |-> fn, vs |-> vs, range |-> range, param |-> NumberExpr(phi)]

SelectorExpr(vs) == [is |-> "selector", vs |-> vs]

AggregateExpr(op, expr, phi) ==
    [is |-> "aggregate", op |-> op, expr |-> expr, param |-> NumberExpr(phi),
     grouping |-> "none", names |-> {}]

CallExpr(fn, arg, params) == [is |-> "call", fn |-> fn, arg |-> arg, params |-> params]

(* The series that instant queries at t answer, and the value of each. *)
Answers(asked, t) == [e \in asked |-> Eval(store, e, Instant(t)).series]

ValuesIn(series) == [i \in DOMAIN series |-> series[i].samples[1][2]]

ByLabels(series) ==
    [l \in {series[i].labels : i \in DOMAIN series} |->
        series[CHOOSE i \in DOMAIN series : series[i].labels = l].samples[1][2]]

(* What a counter that may restart at zero has gained over some samples:
   the difference of the last and the first, and what it had reached
   before each restart.                                                    *)
Gained(samples) ==
    LET falls == {i \in 2 .. Len(samples) : samples[i].value < samples[i - 1].value}
    IN  samples[Len(samples)].value - samples[1].value
           + MapThenSumSet(LAMBDA i : samples[i - 1].value, falls)

GainExprs(vs, range) ==
    {RangeExpr("rate", vs, range, NaN), RangeExpr("increase", vs, range, NaN),
     [is |-> "matrix", vs |-> vs, range |-> range]}

(* Of the samples in the window of a series, against the answers. *)
GainShown(seen, labels, range, rate, increase, shown) ==
    LET covered == seen[Len(seen)].ts - seen[1].ts
    IN  /\ seen # << >> <=> \E s \in Range(shown) : s.labels = labels /\ Len(s.samples) = Len(seen)
        /\ IF Len(seen) < 2 \/ covered = 0
           THEN labels \notin DOMAIN rate \cup DOMAIN increase
           ELSE /\ Same(rate[labels], <<Gained(seen) * Second, covered>>)
                /\ Same(increase[labels], <<Gained(seen) * range, covered>>)

GainsAgree(vs, range, t, answer) ==
    \A s \in Range(SelectSeries(store, vs)) :
        GainShown(SelectSeq(s.samples, LAMBDA x : x.ts \in t - range .. t), s.labels, range,
                  ByLabels(answer[RangeExpr("rate", vs, range, NaN)]),
                  ByLabels(answer[RangeExpr("increase", vs, range, NaN)]),
                  answer[[is |-> "matrix", vs |-> vs, range |-> range]])

(* rate and increase are the gain of a counter over the time between the
   first and the last sample that the range selector shows, both ends of
   the window included, whatever restarts and late samples came in between;
   there is none where no time passed.                                     *)
RateIsGainOverTime ==
    \A vs \in Selectors, range \in Times, t \in Times :
        GainsAgree(vs, range, t, Answers(GainExprs(vs, range), t))

-----------------------------------------------------------------------------
Rises(values) == \A i, j \in DOMAIN values : i < j => ~Less(values[j], values[i])

(* The counts of the buckets of a histogram, by their bounds, when their
   bounds are positive and their counts cumulative.                        *)
IsCumulative(buckets) ==
    /\ \A i \in DOMAIN buckets : Less(Number(0), LeBound(ValueOf(buckets[i].labels, "le")[1][2]))
    /\ \A i, j \in DOMAIN buckets :
          Less(LeBound(ValueOf(buckets[i].labels, "le")[1][2]),
               LeBound(ValueOf(buckets[j].labels, "le")[1][2]))
             => ~Less(buckets[j].samples[1][2], buckets[i].samples[1][2])

StatisticExprs(vs, range) ==
    LET of == SelectorExpr(vs)
    IN  {of, CallExpr("sort", of, << >>),
         RangeExpr("min", vs, range, NaN), RangeExpr("max", vs, range, NaN)}
        \cup {AggregateExpr(op, of, Number(k)) : op \in {"topk", "bottomk"}, k \in 0 .. MaxSamples}
        \cup UNION {{CallExpr("histogram_quantile", of, <<NumberExpr(phi)>>),
                     AggregateExpr("quantile", of, phi),
                     RangeExpr("quantile_over_time", vs, range, phi)} : phi \in Range(Quantiles)}

(* By labels: the answers for the quantiles rise, from min to max. *)
QuantilesRise(answers) ==
    \A l \in DOMAIN answers[1] : Rises([k \in DOMAIN answers |-> answers[k][l]])

QuantilesSpan(answers, min, max) ==
    \A l \in DOMAIN min : /\ Same(answers[1][l], min[l])
                          /\ Same(answers[Len(answers)][l], max[l])

StatisticsAgree(vs, range, answer) ==
    LET of == SelectorExpr(vs)
        sorted == ValuesIn(answer[CallExpr("sort", of, << >>)])
        quantiles(exprs) == [k \in DOMAIN exprs |-> ByLabels(answer[exprs[k]])]
        histogram == quantiles([k \in DOMAIN Quantiles |->
                         CallExpr("histogram_quantile", of, <<NumberExpr(Quantiles[k])>>)])
        across == quantiles([k \in DOMAIN Quantiles |-> AggregateExpr("quantile", of, Quantiles[k])])
        over == quantiles([k \in DOMAIN Quantiles |->
                    RangeExpr("quantile_over_time", vs, range, Quantiles[k])])
    IN  /\ IsCumulative(SelectSeq(answer[of], LAMBDA s : ValueOf(s.labels, "le") # << >>))
             => QuantilesRise(histogram)
        /\ QuantilesRise(across)
        /\ QuantilesRise(over)
        /\ QuantilesSpan(over, ByLabels(answer[RangeExpr("min", vs, range, NaN)]),
                               ByLabels(answer[RangeExpr("max", vs, range, NaN)]))
        /\ Rises(sorted)
        /\ sorted # << >> =>
              QuantilesSpan(across, << >> :> sorted[1], << >> :> sorted[Len(sorted)])
        /\ \A k \in 0 .. Len(sorted) :
              /\ ValuesIn(answer[AggregateExpr("bottomk", of, Number(k))]) = SubSeq(sorted, 1, k)
              /\ ValuesIn(answer[AggregateExpr("topk", of, Number(Len(sorted) - k))])
                    = Reverse(SubSeq(sorted, k + 1, Len(sorted)))

(* The order statistics agree: quantiles rise with the fraction asked for
   (histogram_quantile of cumulative buckets, quantile across series and
   quantile_over_time), the last two from the minimum to the maximum, which
   are also what bottomk(1), topk(1) and the ends of sort show.            *)
OrderStatisticsAgree ==
    \A vs \in Selectors, t \in Times :
        StatisticsAgree(vs, t, Answers(StatisticExprs(vs, t), t))

-----------------------------------------------------------------------------
Mirrored(e) == [e EXCEPT !.lhs = e.rhs, !.rhs = e.lhs, !.join = "right"]

SetExpr(op, e) == [e EXCEPT !.op = op, !.join = "plain"]

Swapped(e) == [e EXCEPT !.lhs = e.rhs, !.rhs = e.lhs]

(* A vector without its names: the union with itself. *)
LeftOnly(e) == [SetExpr("or", e) EXCEPT !.rhs = e.lhs]

MatchExprs(e) ==
    {SetExpr("and", e), SetExpr("unless", e), SetExpr("or", e), LeftOnly(e),
     SetExpr("unless", Swapped(e)), Mirrored(e)}

DirectionsAgree(e, answer, left) ==
    LET bag(x) == ToBag(answer[x])
    IN  /\ left # Failed => ToBag(left.series) = bag(Mirrored(e))
        /\ bag(SetExpr("and", e)) (+) bag(SetExpr("unless", e)) = bag(LeftOnly(e))
        /\ bag(SetExpr("or", e)) = bag(LeftOnly(e)) (+) bag(SetExpr("unless", Swapped(e)))

(* Matching treats its two sides alike.  group_left, when it finds one series
   on the right for each on the left, gives what group_right gives with the
   operands of a commutative operator exchanged; unless keeps exactly what
   `and` drops, and `or` adds the right side unless the left has it.       *)
MatchingIsConsistent ==
    \A e \in Joins, t \in Times :
        DirectionsAgree(e, Answers(MatchExprs(e), t), Eval(store, e, Instant(t)))

(* "Default: match on all labels except `__name__`" (binary.rs:16): a series
   finds a partner exactly if the other side has one with the same labels. *)
LabelSet(s) == Range(WithoutName(s.labels))

MatchesOnAllLabels ==
    \A e \in Matchings, t \in Times :
        LET sets(x) == {LabelSet(s) : s \in Range(Eval(store, x, Instant(t)).series)}
        IN  sets(e) = sets(e.lhs) \cap sets(e.rhs)

=============================================================================
