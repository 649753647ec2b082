----------------------------- MODULE SignalStore -----------------------------
(***************************************************************************)
(* What each of aniani's stores promises, whatever its indexes do.  A      *)
(* store holds items (log entries, samples, spans).  An item has an        *)
(* identity, the group it is kept in (stream, series, trace), a service    *)
(* and a time.  Items come in by ingest, and leave only because they       *)
(* expired, because the store is over its capacity, because their service  *)
(* was reset or because the store was cleared.                              *)
(***************************************************************************)
EXTENDS Integers, FiniteSets

CONSTANTS
    Services,    \* the services a reset may name
    Cutoffs,     \* the times before which an eviction tick may expire items
    Capacity,    \* the configured maximum
    Load(_)      \* what a set of items counts against the maximum

VARIABLE held

Unexpired(items, cutoff) == {h \in items : h.ts >= cutoff}

Group(items, g) == {h \in items : h.group = g}

Init == held = {}

(* An accepted batch adds items and loses none. *)
Accept ==
    /\ held \subseteq held'
    /\ \A new \in held' \ held, old \in held : new.seq # old.seq

(* One eviction tick: expired items leave, unexpired ones stay while the
   store is within its capacity, and when it is over, groups are emptied
   only until it fits: with the last group evicted it would not.           *)
Evict(cutoff) ==
    LET live == Unexpired(held, cutoff)
    IN  /\ held' \subseteq live
        /\ Load(held') <= Capacity
        /\ held' # live =>
              \E h \in live \ held' :
                 Load(held' \cup Group(live, h.group)) > Capacity

(* The deletion of one service takes its items and no others. *)
ForgetService(s) == held' = {h \in held : s \notin h.services}

ForgetAll == held' = {}

Next ==
    \/ Accept
    \/ \E c \in Cutoffs : Evict(c)
    \/ \E s \in Services : ForgetService(s)
    \/ ForgetAll

Spec == Init /\ [][Next]_held

=============================================================================
