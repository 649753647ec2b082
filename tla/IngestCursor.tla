---------------------------- MODULE IngestCursor ----------------------------
(***************************************************************************)
(* The ingest-sequence cursor shared by every ingest handler and by the    *)
(* MCP tools that look at "what happened since".                           *)
(*                                                                         *)
(* Each ingest request stamps its items one by one from the global counter *)
(* AppState.ingest_seq, then stores the whole batch under the write lock   *)
(* of its signal's store and answers.  A tool call is a sequence of short  *)
(* critical sections: it reads the counter with no lock, and takes the     *)
(* three store locks one after the other, never two together.  A step of   *)
(* this specification is one such critical section or one fetch_add, so    *)
(* requests, calls and the eviction task interleave as they do on the      *)
(* threads of the server.                                                  *)
(*                                                                         *)
(* Event times and payloads are left out: the cursor is independent of     *)
(* event time by design, so eviction takes an arbitrary set of items and   *)
(* the latest sample of a series is any one of them.                       *)
(***************************************************************************)
EXTENDS Integers, Sequences, FiniteSets

CONSTANTS
    Requests,    \* ingest requests, each sent once
    Signal,      \* Signal[r]: the store request r writes to
    Batch,       \* Batch[r]: the service and name of each item of r, in order
    Trace,       \* Trace[r]: the trace the spans of r belong to
    Services,    \* service names
    Names,       \* names of items: of a sample, its series within a service
    Notable,     \* names with error, fail, duration or latency in them
    MaxShown,    \* top_n: how many series the metrics part of a summary shows
    Sessions,    \* clients of the tools, each making one call at a time
    Offered,     \* Offered[c]: the tools session c calls
    MaxCalls,    \* bound: MaxCalls[c] is how many calls session c makes
    MaxEvictions \* bound: visits of the eviction task to a store

Signals == {"logs", "metrics", "traces"}

ASSUME RequestAssumption ==
    /\ Signal \in [Requests -> Signals]
    /\ Batch \in [Requests -> Seq([svc : Services, name : Names])]
    /\ MaxShown \in Nat
    /\ MaxCalls \in [Sessions -> Nat]
    /\ MaxEvictions \in Nat

VARIABLES
    counter,  \* AppState.ingest_seq
    store,    \* store[g]: the items held by the store of signal g
    stamped,  \* stamped[r]: the numbers request r has drawn so far
    answer,   \* answer[r]: "none", "acked" or "rejected"
    call,     \* call[c]: what session c is doing
    calls,    \* calls[c]: how many calls session c has begun
    evictions, \* visits of the eviction task that removed something
    tokens,   \* history: every checkpoint handed out
    wiped     \* history: <<request, service>> pairs a finished reset removed

vars == <<counter, store, stamped, answer, call, calls, evictions,
          tokens, wiped>>

requestVars == <<stamped, answer>>
callVars == <<call, calls, tokens, wiped>>

Acked == {r \in Requests : answer[r] = "acked"}
Begun == {r \in Requests : stamped[r] # <<>> \/ answer[r] # "none"}

(* A checkpoint, with what had been acknowledged and begun when the counter
   was read for it.  An absent `since` filters nothing.                    *)
NoSince == [value |-> -1, acked |-> {}, begun |-> {}]
Checkpoint == [value |-> counter, acked |-> Acked, begun |-> Begun]

-----------------------------------------------------------------------------
(* A tool call is its list of critical sections.                           *)
Section(does, signal) == [does |-> does, signal |-> signal]

(* known_services and list_services: names from logs, metrics, traces.     *)
ListServices == <<Section("names", "logs"), Section("names", "metrics"),
                  Section("names", "traces")>>

Reset == <<Section("clear", "logs"), Section("clear", "metrics"),
           Section("clear", "traces"), Section("cursor", "none")>>

SummarizeActivity ==
    ListServices
    \o <<Section("cursor", "none"), Section("items", "logs"),
         Section("items", "traces"), Section("items", "metrics")>>

(* check_health visits logs, traces, metrics.                              *)
CheckHealth == <<Section("names", "logs"), Section("names", "traces"),
                 Section("names", "metrics")>>

Tools ==
    [mark_checkpoint    |-> <<Section("cursor", "none")>>,
     list_services      |-> ListServices,
     check_health       |-> CheckHealth,
     summarize_activity |-> SummarizeActivity,
     reset              |-> Reset,
     http_reset         |-> SubSeq(Reset, 1, 3)]

ASSUME OfferedAssumption == Offered \in [Sessions -> SUBSET (DOMAIN Tools)]

Scopes == Services \cup {"all"}

NoCall == [tool |-> "none", scope |-> "all", since |-> NoSince, todo |-> <<>>,
           names |-> {}, seen |-> {}, cut |-> FALSE, acked |-> {}]

Busy(c) == call[c].todo # <<>>
Doing(c, does) == Busy(c) /\ Head(call[c].todo).does = does
Here(c) == Head(call[c].todo).signal

-----------------------------------------------------------------------------
Init ==
    /\ counter = 0
    /\ store = [g \in Signals |-> {}]
    /\ stamped = [r \in Requests |-> <<>>]
    /\ answer = [r \in Requests |-> "none"]
    /\ call = [c \in Sessions |-> NoCall]
    /\ calls = [c \in Sessions |-> 0]
    /\ evictions = 0
    /\ tokens = {}
    /\ wiped = {}

(* ---- ingest ---- *)

(* Mutant: the first item of a request does not use up its number.         *)
Advanced_PerRequest(r, value) ==
    IF stamped[r] = <<>> THEN value ELSE value + 1

Advanced(r, value) == value + 1

(* One fetch_add for the next item of the request: it draws the value before
   the increment.                                                          *)
Stamp(r) ==
    /\ answer[r] = "none"
    /\ Len(stamped[r]) < Len(Batch[r])
    /\ stamped' = [stamped EXCEPT ![r] = Append(@, counter)]
    /\ counter' = Advanced(r, counter)
    /\ UNCHANGED <<store, answer, callVars, evictions>>

(* Mutant: the batch is ready as soon as its first item is.                *)
Prepared_FirstOnly(r) == stamped[r] # <<>>

Prepared(r) == Len(stamped[r]) = Len(Batch[r])

ItemsOf(r) ==
    {[req |-> r, svc |-> Batch[r][i].svc, name |-> Batch[r][i].name,
      seq |-> stamped[r][i]] : i \in DOMAIN stamped[r]}

(* The batch goes in under one write lock.                                 *)
Store(r) ==
    /\ answer[r] = "none"
    /\ Prepared(r)
    /\ store' = [store EXCEPT ![Signal[r]] = @ \cup ItemsOf(r)]
    /\ answer' = [answer EXCEPT ![r] = "acked"]
    /\ UNCHANGED <<counter, stamped, callVars, evictions>>

(* A metric batch with a colliding name is refused after it was stamped:
   its numbers are lost.                                                   *)
Reject(r) ==
    /\ answer[r] = "none"
    /\ Signal[r] = "metrics"
    /\ Prepared(r)
    /\ answer' = [answer EXCEPT ![r] = "rejected"]
    /\ UNCHANGED <<counter, store, stamped, callVars, evictions>>

(* ---- eviction ---- *)

(* The task visits the stores one after the other, each under its own lock,
   so its visit to one store is a step of its own.                         *)
Evict(g) ==
    /\ evictions < MaxEvictions
    /\ \E expired \in (SUBSET store[g]) \ {{}} :
          store' = [store EXCEPT ![g] = @ \ expired]
    /\ evictions' = evictions + 1
    /\ UNCHANGED <<counter, requestVars, callVars>>

(* ---- tool calls ---- *)

(* A reset of one service names it; a summary names its service and, if it
   wants to, a checkpoint handed out earlier.                              *)
Begin(c, tool, scope, since) ==
    /\ ~Busy(c)
    /\ calls[c] < MaxCalls[c]
    /\ tool = "summarize_activity" => scope \in Services
    /\ tool \in {"mark_checkpoint", "list_services", "check_health"} => scope = "all"
    /\ tool # "summarize_activity" => since = NoSince
    /\ call' = [call EXCEPT ![c] =
                  [NoCall EXCEPT !.tool = tool, !.scope = scope, !.since = since,
                                 !.todo = Tools[tool], !.acked = Acked]]
    /\ calls' = [calls EXCEPT ![c] = @ + 1]
    /\ UNCHANGED <<counter, store, requestVars, evictions, tokens, wiped>>

ServicesIn(g) == {x.svc : x \in store[g]}

(* Mutant: the names of the last store replace those found before.         *)
NamesSoFar_LastOnly(names, g) == ServicesIn(g)

NamesSoFar(names, g) == names \cup ServicesIn(g)

(* require_known_service: after the last store, an unknown name ends the
   call with an error.                                                     *)
ReadNames(c) ==
    /\ Doing(c, "names")
    /\ LET rest  == Tail(call[c].todo)
           names == NamesSoFar(call[c].names, Here(c))
           settled == rest # <<>> /\ Head(rest).does # "names"
           unknown == settled /\ call[c].scope \notin names
       IN  call' = [call EXCEPT ![c].names = names,
                                ![c].todo = IF unknown THEN <<>> ELSE rest]
    /\ UNCHANGED <<counter, store, requestVars, evictions, calls, tokens, wiped>>

(* The counter is read with no lock held: the answer of mark_checkpoint and
   of reset, and observed_through of a summary.                            *)
ReadCursor(c) ==
    /\ Doing(c, "cursor")
    /\ tokens' = IF call[c].tool = "summarize_activity" THEN tokens
                 ELSE tokens \cup {Checkpoint}
    /\ call' = [call EXCEPT ![c].todo = Tail(@)]
    /\ UNCHANGED <<counter, store, requestVars, evictions, calls, wiped>>

(* Mutant: strictly after the token.                                       *)
Keep_Strictly(since, seq) == seq > since

(* Mutant: off by one the other way.                                       *)
Keep_OneEarlier(since, seq) == seq + 1 >= since

Keep(since, seq) == seq >= since

(* A service is credited with every span of a trace it takes part in.      *)
About(g, service) ==
    IF g = "traces"
    THEN {x \in store[g] : \E y \in store[g] :
             Trace[y.req] = Trace[x.req] /\ y.svc = service}
    ELSE {x \in store[g] : x.svc = service}

Window(items, since) == {x \in items : Keep(since, x.seq)}

SeriesOf(x) == <<x.svc, x.name>>
SeriesIn(samples) == {SeriesOf(x) : x \in samples}
OnePerSeries(samples) == \A x, y \in samples : SeriesOf(x) = SeriesOf(y) => x = y

(* The latest sample in the window of every series that has one: any of them,
   as event times are left out.                                            *)
Latest(samples, since) ==
    {chosen \in SUBSET Window(samples, since) :
        OnePerSeries(chosen) /\ SeriesIn(chosen) = SeriesIn(Window(samples, since))}

(* At most MaxShown of them are shown.                                     *)
Truncated(latest) ==
    IF Cardinality(latest) > MaxShown
    THEN {shown \in SUBSET latest : Cardinality(shown) = MaxShown}
    ELSE {latest}

(* Mutant: the length is looked at after the list was cut.                 *)
TooMany_AfterCut(latest) ==
    \E shown \in Truncated(latest) : Cardinality(shown) > MaxShown

(* The summary says if there were more.                                    *)
TooMany(latest) == Cardinality(latest) > MaxShown

Telling(samples) == {x \in samples : x.name \in Notable}

(* Every log entry and span in the window is counted.  Of the metrics only the
   series with a telling name are reported, each by one sample.            *)
ReadItems(c) ==
    /\ Doing(c, "items")
    /\ LET items == About(Here(c), call[c].scope)
           since == call[c].since.value
       IN  \/ /\ Here(c) # "metrics"
              /\ call' = [call EXCEPT ![c].seen = @ \cup Window(items, since),
                                      ![c].todo = Tail(@)]
           \/ /\ Here(c) = "metrics"
              /\ \E latest \in Latest(Telling(items), since) :
                    \E shown \in Truncated(latest) :
                       call' = [call EXCEPT ![c].seen = @ \cup shown,
                                            ![c].cut = TooMany(latest),
                                            ![c].todo = Tail(@)]
    /\ UNCHANGED <<counter, store, requestVars, evictions, calls, tokens, wiped>>

InScope(service, scope) == scope = "all" \/ service = scope

(* Mutant: one store is left out of the reset.                             *)
Cleared_SkipMetrics(g, scope) ==
    IF g = "metrics" THEN {} ELSE {x \in store[g] : InScope(x.svc, scope)}

Cleared(g, scope) == {x \in store[g] : InScope(x.svc, scope)}

(* clear or clear_service of one store; after the last store the reset has
   removed everything acknowledged before the call.                        *)
ClearStore(c) ==
    /\ Doing(c, "clear")
    /\ store' = [store EXCEPT ![Here(c)] = @ \ Cleared(Here(c), call[c].scope)]
    /\ call' = [call EXCEPT ![c].todo = Tail(@)]
    /\ wiped' = IF Here(c) # "traces" THEN wiped
                ELSE wiped \cup {rs \in call[c].acked \X Services :
                                    InScope(rs[2], call[c].scope)}
    /\ UNCHANGED <<counter, requestVars, evictions, calls, tokens>>

Next ==
    \/ \E r \in Requests : Stamp(r) \/ Store(r) \/ Reject(r)
    \/ \E g \in Signals : Evict(g)
    \/ \E c \in Sessions :
          \/ \E tool \in Offered[c], scope \in Scopes,
                since \in tokens \cup {NoSince} : Begin(c, tool, scope, since)
          \/ ReadNames(c)
          \/ ReadCursor(c)
          \/ ReadItems(c)
          \/ ClearStore(c)

Spec == Init /\ [][Next]_vars

-----------------------------------------------------------------------------
Item == [req : Requests, svc : Services, name : Names, seq : Nat]
Token == [value : Int, acked : SUBSET Requests, begun : SUBSET Requests]
SectionType == [does : {"names", "items", "clear"}, signal : Signals]
                   \cup [does : {"cursor"}, signal : {"none"}]
CallType == [tool : DOMAIN Tools \cup {"none"}, scope : Scopes, since : Token,
             todo : Seq(SectionType), names : SUBSET Services,
             seen : SUBSET Item, cut : BOOLEAN, acked : SUBSET Requests]

(* Every variable has its type, and a request is answered only when all its
   items are stamped.                                                      *)
TypeOK ==
    /\ counter \in Nat
    /\ store \in [Signals -> SUBSET Item]
    /\ stamped \in [Requests -> Seq(Nat)]
    /\ answer \in [Requests -> {"none", "acked", "rejected"}]
    /\ call \in [Sessions -> CallType]
    /\ tokens \subseteq Token
    /\ \A r \in Requests :
          /\ Len(stamped[r]) <= Len(Batch[r])
          /\ answer[r] # "none" => Len(stamped[r]) = Len(Batch[r])

(* No two items ever carry the same number, whichever handlers drew them at
   the same time, and every number drawn is below the counter: what a
   checkpoint needs to split the items in two.                             *)
NumbersAreUnique ==
    \A r1, r2 \in Requests : \A i \in DOMAIN stamped[r1], j \in DOMAIN stamped[r2] :
        /\ stamped[r1][i] < counter
        /\ stamped[r1][i] = stamped[r2][j] => r1 = r2 /\ i = j

(* A summary since a checkpoint reports nothing that had been acknowledged
   when the checkpoint was taken, however reads and ingests interleave
   (the `keep` filter of summarize_activity).                              *)
OldTelemetryStaysOut ==
    \A c \in Sessions : \A x \in call[c].seen : x.req \notin call[c].since.acked

Finished(c) == call[c].tool # "none" /\ ~Busy(c)
Summarized(c) == Finished(c) /\ call[c].tool = "summarize_activity"

(* The summary of c accounts for x: a log entry or a span by counting it, a
   sample of a telling series by showing one of that series, unless it says
   that there were too many of them.                                       *)
Reported(c, g, x) ==
    IF g # "metrics" THEN x \in call[c].seen
    ELSE x.name \in Notable /\ ~call[c].cut =>
            \E y \in call[c].seen :
                Signal[y.req] = "metrics" /\ SeriesOf(y) = SeriesOf(x)

(* What was begun after the checkpoint, acknowledged before the summary was
   asked for, and never removed, is accounted for; in particular the call
   was not refused because its service was unknown.  A series whose name
   tells of no trouble is left out by design.                              *)
NewTelemetryIsReported ==
    \A c \in Sessions : Summarized(c) =>
        \A g \in Signals : \A x \in store[g] :
            /\ x.req \in call[c].acked
            /\ x.req \notin call[c].since.begun
            /\ x.svc = call[c].scope
            => Reported(c, g, x)

(* list_services, check_health and the guard of summarize_activity name
   every service with telemetry that was stored throughout the call, though
   they look into the three stores at three different times.              *)
ServicesAreListed ==
    \A c \in Sessions :
        Finished(c) /\ call[c].tool \in {"list_services", "check_health", "summarize_activity"} =>
            \A g \in Signals : \A x \in store[g] :
                x.req \in call[c].acked => x.svc \in call[c].names

(* Once a reset has gone through the three stores, nothing in its scope that
   had been acknowledged before it began is left or comes back.            *)
ResetRemovesEarlierTelemetry ==
    \A g \in Signals : \A x \in store[g] : <<x.req, x.svc>> \notin wiped

(* What the tool descriptions promise: a checkpoint separates the telemetry
   ingested before it from the telemetry ingested after it, so what was
   acknowledged only after the checkpoint is in a summary since it.  The
   code filters on the number an item drew, which is drawn earlier.        *)
CheckpointSeparatesRuns ==
    \A c \in Sessions : Summarized(c) /\ call[c].since # NoSince =>
        \A g \in Signals : \A x \in store[g] :
            /\ x.req \in call[c].acked \ call[c].since.acked
            /\ x.svc = call[c].scope
            => Reported(c, g, x)
=============================================================================
