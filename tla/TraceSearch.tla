------------------------------ MODULE TraceSearch ------------------------------
(***************************************************************************)
(* Searches over the trace store: TraceQL expressions as a whole           *)
(* (src/src/query/traceql/eval.rs), GET /api/search with a query           *)
(* (src/src/query/traceql/handlers.rs) and the MCP tool query_traces       *)
(* (src/src/mcp/tools/handlers/trace_query.rs), which takes the store's    *)
(* read lock twice, for the traces that match and for their summaries:     *)
(* ingestion, eviction and resets may run in between.                      *)
(*                                                                         *)
(* Traces are as clients may export them: spans out of order, ids exported *)
(* twice, parents that never arrive and parents in a circle.               *)
(***************************************************************************)
EXTENDS TraceStore, TraceViews

CONSTANTS
    Expressions,   \* TraceQL expressions a search may use: [lhs, op, rhs, stages]
    Filters,       \* arguments of query_traces
    Windows,       \* windows of a search: [start, end]
    SearchLimits,  \* limits of a search, each a sequence of at most one
    DefaultPage,   \* traces query_traces shows unless asked otherwise
    MaxPage        \* and at most

(* A span starts at a time that u64_to_i64_saturating has cut.  Trace ids have
   an order: they are numbers here.  Limits and the ends of a window are
   unsigned.                                                               *)
ASSUME SearchConstants ==
    /\ \A shape \in SpanShapes :
          /\ "duration" \in DOMAIN shape /\ shape.duration \in Int
          /\ shape.ts \in 0 .. MaxI64 /\ shape.trace \in Int
    /\ \A expr \in Expressions : Parsed(expr.lhs) /\ Parsed(expr.rhs)
    /\ \A args \in Filters : args.limit \in Seq(Nat)
    /\ \A window \in Windows : window.start \in Seq(Nat) /\ window.end \in Seq(Nat)
    /\ \A limit \in SearchLimits : limit \in Seq(Nat)
    /\ DefaultPage \in Nat /\ MaxPage \in Nat

VARIABLE
    call   \* the call of query_traces between its two locks, a sequence of at most one

searchVars == <<traces, service_index, name_index, status_index, attr_index,
                interner, total_spans, ingest_seq, call>>

-----------------------------------------------------------------------------
(* evaluate_traceql: trace id |-> the indices of the spans that match.  An
   expression without a structural operator has op = "None".               *)
MatchedIn(expr, spans) ==
    IF expr.op = "None" THEN MatchedSpans(spans, expr.lhs)
    ELSE StructuralMatches(expr.op, spans, expr.lhs, expr.rhs)

DurationsOf(spans, matched) ==
    ItemsAt([i \in DOMAIN spans |-> spans[i].duration], matched)

PassesPipeline(expr, spans) ==
    LET durations == DurationsOf(spans, MatchedIn(expr, spans))
    IN  /\ durations # << >>
        /\ \A i \in DOMAIN expr.stages : PassesStage(durations, expr.stages[i])

EvaluateTraceQL(expr) ==
    LET ids == IF expr.op = "None" THEN CandidateTraceIds(expr.lhs)
               ELSE CandidateTraceIds(expr.lhs) \cap CandidateTraceIds(expr.rhs)
    IN  [t \in {u \in ids : PassesPipeline(expr, traces[u])} |-> MatchedIn(expr, traces[t])]

(* search with a query: the traces of which a span that matches lies in the
   window, newest first and then by id.                                    *)

(* Mutant: traces are ordered by their ids alone, as they are evaluated. *)
NewerTrace_ById(t, u) == t < u

NewerTrace(t, u) ==
    \/ StartOf(traces[t]) > StartOf(traces[u])
    \/ StartOf(traces[t]) = StartOf(traces[u]) /\ t < u

Search(expr, window, limit) ==
    LET found == EvaluateTraceQL(expr)
        hits == {t \in DOMAIN found :
                    \E i \in found[t] : InWindow(window, traces[t][i].ts, EndOf(traces[t][i]))}
        newest == {p \in hits \X hits : NewerTrace(p[1], p[2])}
    IN  Truncate(LineUp(hits, newest), BoundedLimit(limit, MaxSearch))

-----------------------------------------------------------------------------
(* handle_query_traces.  The filters become one selector; without any, or
   with a duration that does not parse, the call is refused.               *)
Condition(on, op, value) == [on |-> on, scope |-> "", name |-> << >>, op |-> op, value |-> value]

StringValue(text) == [type |-> "String", text |-> text, num |-> 0, parses |-> FALSE]

NumberValue(n) == [type |-> "Number", text |-> << >>, num |-> n, parses |-> TRUE]

ServiceCondition(service) ==
    [Condition("Attribute", "Eq", StringValue(service)) EXCEPT
        !.scope = "resource", !.name = ServiceKey]

FilterConditions(args) ==
    [i \in DOMAIN args.service |-> ServiceCondition(args.service[i])]
    \o [i \in DOMAIN args.status |-> Condition("Status", "Eq", StringValue(args.status[i]))]
    \o [i \in DOMAIN args.min_duration |->
           Condition("Duration", "Gt", NumberValue(ParseDurationValue(args.min_duration[i])[1]))]
    \o [i \in DOMAIN args.name |-> Condition("Name", "Eq", StringValue(args.name[i]))]

AnyFilter(args) ==
    args.service # << >> \/ args.status # << >> \/ args.min_duration # << >> \/ args.name # << >>

Refused(args) ==
    /\ args.traceql = << >>
    /\ \/ ~AnyFilter(args)
       \/ \E i \in DOMAIN args.min_duration :
             ParseDuration(args.min_duration[i]) = << >> \/ ParseDurationValue(args.min_duration[i]) = << >>

AskedExpression(args) ==
    IF args.traceql # << >> THEN args.traceql[1]
    ELSE LET conditions == FilterConditions(args)
             selector == [conditions |-> conditions, ops |-> [i \in 1 .. Len(conditions) - 1 |-> "And"]]
         IN  [lhs |-> selector, op |-> "None", rhs |-> selector, stages |-> << >>]

PageLimit(args) ==
    LET asked == IF args.limit = << >> THEN DefaultPage ELSE args.limit[1]
    IN  IF asked < MaxPage THEN asked ELSE MaxPage

(* Under the first lock.  `saw` is a history variable: the spans that the
   traces of the page had, and the ones of them that matched.              *)
BeginQueryTraces(args) ==
    LET found == EvaluateTraceQL(AskedExpression(args))
        byId == {p \in (DOMAIN found) \X (DOMAIN found) : p[1] < p[2]}
        page == Truncate(LineUp(DOMAIN found, byId), PageLimit(args))
    IN  /\ call = << >>
        /\ ~Refused(args)
        /\ call' = <<[page |-> page, total |-> Cardinality(DOMAIN found), limit |-> PageLimit(args),
                      saw |-> [t \in ToSet(page) |-> [spans |-> SpansIn(traces[t]),
                                 matched |-> {traces[t][i] : i \in found[t]}]]]>>
        /\ UNCHANGED vars

(* trace_items, under the second lock: a trace that is gone is skipped. *)

(* Mutant: a trace of which no span is a root has no summary. *)
HasSummary_RootOnly(t) ==
    t \in DOMAIN traces /\ \E s \in SpansIn(traces[t]) : s.parent = NoParent

HasSummary(t) == t \in DOMAIN traces

TraceItems(page) ==
    LET there == ItemsAt(page, {i \in DOMAIN page : HasSummary(page[i])})
    IN  [i \in DOMAIN there |-> TraceResult(traces[there[i]])]

QueryTracesAnswer(c) ==
    LET out == TraceItems(c.page)
    IN  [traces |-> out, shown |-> Len(out), total_count |-> c.total, truncated |-> c.total > c.limit]

EndQueryTraces ==
    /\ call # << >>
    /\ call' = << >>
    /\ UNCHANGED vars

SearchInit == Init /\ call = << >>

SearchNext ==
    \/ Next /\ UNCHANGED call
    \/ \E args \in Filters : BeginQueryTraces(args)
    \/ EndQueryTraces

SearchSpec == SearchInit /\ [][SearchNext]_searchVars

-----------------------------------------------------------------------------
(* What the edges lead to from x: the members of S that are in every set
   into which the edges lead and out of which they do not.                 *)
ReachedFrom(S, edges, x) ==
    {y \in S : \A closed \in SUBSET S :
        (\A e \in edges : e[1] \in closed \cup {x} => e[2] \in closed) => y \in closed}

(* The walk of is_descendant, which gives up at the second visit of a span,
   finds exactly the proper descendants: the pairs of distinct spans in the
   transitive closure of the parent relation.                              *)
DescendantIsTransitiveClosure ==
    \A t \in DOMAIN traces :
        LET spans == traces[t]
            ids == SpanIds(spans)
            parents == {p \in ids \X ids : ParentOf(spans, p[1]) = p[2]}
        IN  \A a, b \in ids :
               IsDescendant(spans, a, b) <=> a # b /\ a \in ReachedFrom(ids, parents, b)

(* The span satisfies every condition of one of the groups that the || cut
   the selector into.                                                      *)
Satisfies(span, selector) ==
    LET cs == selector.conditions
        cutBefore(i) == i = 1 \/ selector.ops[i - 1] = "Or"
        cutAfter(i) == i = Len(cs) \/ selector.ops[i] = "Or"
    IN  \/ cs = << >>
        \/ \E i, j \in DOMAIN cs :
              /\ i <= j /\ cutBefore(i) /\ cutAfter(j)
              /\ \A k \in i .. j - 1 : selector.ops[k] = "And"
              /\ \A k \in i .. j : MatchesCondition(span, cs[k])

(* A selector, narrowed by the indexes and evaluated from left to right,
   finds exactly the spans that satisfy it: no indexed condition hides a
   span that matches, and && binds tighter than ||.                        *)
SelectorsFindTheirSpans ==
    \A selector \in Selectors :
        EvalSpanSelector(selector) =
            {span \in UNION {SpansIn(traces[t]) : t \in DOMAIN traces} : Satisfies(span, selector)}

-----------------------------------------------------------------------------
NewestFirst(order) ==
    \A i, j \in DOMAIN order : i < j => StartOf(traces[order[i]]) >= StartOf(traces[order[j]])

(* `shown` is a limited list, newest first, of the newest of `hits`. *)
KeepsNewest(shown, hits, limit) ==
    /\ ToSet(shown) \subseteq hits
    /\ Len(shown) = IF Cardinality(hits) < limit THEN Cardinality(hits) ELSE limit
    /\ Cardinality(ToSet(shown)) = Len(shown)
    /\ NewestFirst(shown)
    /\ \A t \in hits \ ToSet(shown), u \in ToSet(shown) : StartOf(traces[t]) <= StartOf(traces[u])

(* Some moment in the window, ends included, lies between the times. *)
Meets(window, start, end) ==
    /\ window.end = << >> \/ start <= ParamToNs(window.end[1])
    /\ window.start = << >> \/ ParamToNs(window.start[1]) <= end

Everything == [lhs |-> [conditions |-> << >>, ops |-> << >>], op |-> "None",
               rhs |-> [conditions |-> << >>, ops |-> << >>], stages |-> << >>]

(* A limited search keeps the most recent of the traces it finds, whether it
   has a query or lists recent traces, and applies the window before the
   limit.  The query goes by spans and the list by whole traces: what `{}`
   finds in a window the list finds too.                                   *)
SearchesKeepNewest ==
    \A window \in Windows, limit \in SearchLimits :
        LET listed == {t \in DOMAIN traces :
                          Meets(window, StartOf(traces[t]), TraceResult(traces[t]).start + TraceResult(traces[t]).duration)}
            found(expr) == {t \in DOMAIN traces :
                /\ PassesPipeline(expr, traces[t])
                /\ \E i \in MatchedIn(expr, traces[t]) :
                      Meets(window, traces[t][i].ts, EndOf(traces[t][i]))}
        IN  /\ \A shown \in SearchRecent(traces, window, limit) :
                  KeepsNewest(shown, listed, BoundedLimit(limit, DefaultRecent))
            /\ \A expr \in Expressions :
                  KeepsNewest(Search(expr, window, limit), found(expr), BoundedLimit(limit, MaxSearch))
            /\ found(Everything) \subseteq listed

(* The views of one trace.  Over HTTP every span is shown once, under its
   service.  In the tree, a span of a trace without repeated ids is shown
   once, unless its parents go round in a circle or are MAX_DEPTH and more;
   the copies of a span exported twice are shown equally often.            *)
TreesShowEverySpan ==
    \A t \in DOMAIN traces :
        LET spans == traces[t]
            tree == BuildTraceTree(spans)
            times(i) == Len(SelectSeq(tree, LAMBDA node : node.span = i))
            parents == {p \in (DOMAIN spans) \X (DOMAIN spans) :
                           spans[p[1]].parent = spans[p[2]].id}
            ancestors(i) == ReachedFrom(DOMAIN spans, parents, i)
            hidden(i) == \/ \E j \in ancestors(i) \cup {i} : j \in ancestors(j)
                         \/ Cardinality(ancestors(i)) >= MaxDepth
            batches == GetTrace(spans)
        IN  /\ Cardinality(SpanIds(spans)) = Len(spans) =>
                  \A i \in DOMAIN spans : times(i) = IF hidden(i) THEN 0 ELSE 1
            /\ \A i, j \in DOMAIN spans :
                  spans[i].id = spans[j].id /\ spans[i].parent = spans[j].parent => times(i) = times(j)
            /\ Cardinality(ToSet(FlattenSeq(batches))) = Len(spans)
            /\ Len(FlattenSeq(batches)) = Len(spans)
            /\ \A b, c \in DOMAIN batches : \A i \in ToSet(batches[b]), j \in ToSet(batches[c]) :
                  spans[i].service = spans[j].service <=> b = c

(* query_traces between its locks: unless spans it saw were removed, the page
   has a summary of every trace it lists, which counts at least the spans
   and the failed spans that matched; only removals make it shorter than the
   number it reports.                                                      *)
PagesSurviveIngestion ==
    \A c \in ToSet(call) :
        LET answer == QueryTracesAnswer(c)
            now(t) == IF t \in DOMAIN traces THEN SpansIn(traces[t]) ELSE {}
            kept(t) == c.saw[t].spans \subseteq now(t)
            failed(t) == {s \in c.saw[t].matched : s.status = <<"error">>}
        IN  /\ answer.shown <= c.limit /\ answer.shown <= answer.total_count
            /\ (\A t \in ToSet(c.page) : kept(t)) =>
                  /\ answer.truncated <=> answer.shown < answer.total_count
                  /\ \A i \in DOMAIN c.page :
                        LET t == c.page[i]
                        IN  /\ answer.traces[i].errors >= Cardinality(failed(t))
                            /\ answer.traces[i].spans >= Cardinality(c.saw[t].spans)

=============================================================================
