------------------------------ MODULE TraceViews ------------------------------
(***************************************************************************)
(* What the server shows of stored traces: the summary of one trace and    *)
(* the list of recent ones (src/src/store/trace_store.rs), a trace by id   *)
(* over HTTP (src/src/query/traceql/handlers.rs) and as the tree of the    *)
(* MCP tool get_trace (src/src/mcp/synth/trace.rs).  `held` is the map of  *)
(* the store from trace ids to spans, in the order they were stored.       *)
(***************************************************************************)
EXTENDS TraceQL, Timestamps, ItemSeqs, SequencesExt

CONSTANTS
    DefaultRecent,   \* DEFAULT_RECENT_TRACES_LIMIT
    MaxSearch,       \* MAX_TRACE_SEARCH_LIMIT
    MaxDepth         \* MAX_DEPTH of a trace tree

ASSUME ViewConstants ==
    DefaultRecent \in Nat /\ MaxSearch \in Nat /\ MaxDepth \in Nat \ {0}

-----------------------------------------------------------------------------
EndOf(span) == Saturate(span.ts + span.duration)

(* The first index that has the least value of f. *)
FirstLeast(f) ==
    CHOOSE i \in DOMAIN f : \A j \in DOMAIN f : f[i] < f[j] \/ (f[i] = f[j] /\ i <= j)

StartTimes(spans) == [i \in DOMAIN spans |-> spans[i].ts]

StartOf(spans) == spans[FirstLeast(StartTimes(spans))].ts

(* The summary names the first span without a parent, or the earliest one. *)
RootOf(spans) ==
    LET orphans == {i \in DOMAIN spans : spans[i].parent = NoParent}
    IN  IF orphans = {} THEN FirstLeast(StartTimes(spans))
        ELSE CHOOSE i \in orphans : \A j \in orphans : i <= j

ErrorCount(spans) == Cardinality({i \in DOMAIN spans : spans[i].status = <<"error">>})

TraceResult(spans) ==
    [root |-> spans[RootOf(spans)], start |-> StartOf(spans),
     duration |-> Saturate(-Least([i \in DOMAIN spans |-> -EndOf(spans[i])]) - StartOf(spans)),
     spans |-> Len(spans), errors |-> ErrorCount(spans)]

-----------------------------------------------------------------------------
(* search without a query.  A window is a pair of optional ends.  Traces that
   start at one time come in the order of the hash map.                    *)
RecentTraces(held) ==
    {order \in SetToSeqs(DOMAIN held) :
        \A i, j \in DOMAIN order : i < j => StartOf(held[order[i]]) >= StartOf(held[order[j]])}

InWindow(window, start, end) ==
    /\ window.start # << >> => end >= ParamToNs(window.start[1])
    /\ window.end # << >> => start <= ParamToNs(window.end[1])

BoundedLimit(limit, default) ==
    LET asked == IF limit = << >> THEN default ELSE limit[1]
    IN  IF asked < MaxSearch THEN asked ELSE MaxSearch

Truncate(s, limit) == SubSeq(s, 1, IF Len(s) < limit THEN Len(s) ELSE limit)

TraceInWindow(window, spans) ==
    LET r == TraceResult(spans)
    IN  InWindow(window, r.start, Saturate(r.start + r.duration))

TracesInWindow(held, order, window) ==
    ItemsAt(order, {i \in DOMAIN order : TraceInWindow(window, held[order[i]])})

(* Mutant: the list is cut before the window is applied. *)
SearchRecent_CutFirst(held, window, limit) ==
    {TracesInWindow(held, Truncate(order, BoundedLimit(limit, DefaultRecent)), window) :
        order \in RecentTraces(held)}

SearchRecent(held, window, limit) ==
    {Truncate(TracesInWindow(held, order, window), BoundedLimit(limit, DefaultRecent)) :
        order \in RecentTraces(held)}

-----------------------------------------------------------------------------
Indices(spans) == [i \in DOMAIN spans |-> i]

(* get_trace over HTTP: the spans by service, services as they first come. *)
GetTrace(spans) ==
    LET firsts == SelectSeq(Indices(spans),
                      LAMBDA i : \A j \in 1 .. i - 1 : spans[j].service # spans[i].service)
    IN  [b \in DOMAIN firsts |->
            SelectSeq(Indices(spans), LAMBDA i : spans[i].service = spans[firsts[b]].service)]

(* build_trace_tree: spans under their parents, siblings by start time, as
   the list of its nodes from the top.  A node is the index of a span and
   its depth.                                                              *)
SpanIds(spans) == {spans[i].id : i \in DOMAIN spans}

(* Mutant: only a span that names no parent is a root. *)
IsRoot_NoParentOnly(spans, i) == spans[i].parent = NoParent

IsRoot(spans, i) == spans[i].parent = NoParent \/ spans[i].parent \notin SpanIds(spans)

ByStart(spans, indices) ==
    SortSeq(indices, LAMBDA i, j : spans[i].ts < spans[j].ts \/ (spans[i].ts = spans[j].ts /\ i < j))

ChildrenOf(spans, i) ==
    ByStart(spans, SelectSeq(Indices(spans),
        LAMBDA j : ~IsRoot(spans, j) /\ spans[j].parent = spans[i].id))

BuildTraceTree(spans) ==
    LET node[depth \in 0 .. MaxDepth - 1, i \in DOMAIN spans] ==
            LET children == IF depth + 1 < MaxDepth THEN ChildrenOf(spans, i) ELSE << >>
            IN  <<[span |-> i, depth |-> depth]>>
                   \o FlattenSeq([c \in DOMAIN children |-> node[depth + 1, children[c]]])
        roots == ByStart(spans, SelectSeq(Indices(spans), LAMBDA i : IsRoot(spans, i)))
    IN  FlattenSeq([r \in DOMAIN roots |-> node[0, roots[r]]])

=============================================================================
