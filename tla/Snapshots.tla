------------------------------ MODULE Snapshots ------------------------------
(***************************************************************************)
(* The snapshot manager and the life of the process around it: what is on  *)
(* disk, who may be writing it, and what a restart makes of it.            *)
(*                                                                         *)
(* A save clones the three stores one after the other under their read     *)
(* locks, and only then takes the process-wide write lock under which it   *)
(* removes the temporary file, creates, writes and syncs it and renames it *)
(* over the published one.  Every trigger (timer, SIGUSR1, the HTTP        *)
(* endpoint, shutdown) runs the same code; a saver of this module is one   *)
(* of them.  The process stops by a signal, by being killed at any step,   *)
(* or with the machine, when files that were not synced are torn and the   *)
(* last renames may not have reached the disk.                             *)
(*                                                                         *)
(* An item of a store is its identity and its ingest number; ingest is one *)
(* step here (IngestCursor takes it apart).                                *)
(***************************************************************************)
EXTENDS Integers, FiniteSets, FiniteSetsExt

CONSTANTS
    Savers,       \* the triggers, "shutdown" among them
    Written,      \* the stores that are written to
    MaxItems,     \* bound: items ever ingested
    MaxSaves,     \* bound: saves begun
    MaxFailures,  \* bound: failing file operations
    MaxStarts     \* bound: starts of the process

Signals == {"logs", "metrics", "traces"}

Free == "free"

ASSUME SaversAssumption ==
    "shutdown" \in Savers /\ Free \notin Savers /\ Written \subseteq Signals
ASSUME BoundsAssumption ==
    MaxItems \in Nat /\ MaxSaves \in Nat /\ MaxFailures \in Nat /\ MaxStarts \in Nat

VARIABLES
    phase,     \* "up", "stopping", "draining", "exiting" or "down"
    counter,   \* AppState.ingest_seq
    store,     \* store[g]: the items of one store
    pc,        \* pc[s]: the next step of saver s
    image,     \* image[s]: the clones saver s holds, and (history) the stores
               \* and counters when it began
    lock,      \* SNAPSHOT_WRITE_LOCK: free, or its holder
    tmp,       \* aniani.snap.tmp
    final,     \* aniani.snap
    earlier,   \* files the directory may still show after a power loss
    made,      \* identity of the newest item
    saves, failures, starts

vars == <<phase, counter, store, pc, image, lock, tmp, final, earlier, made,
          saves, failures, starts>>

saverVars == <<pc, image, lock, saves, failures>>
diskVars == <<tmp, final, earlier>>

NoItems == [g \in Signals |-> {}]
NoImage == [data |-> NoItems, began |-> NoItems, made |-> 0, counter |-> 0]

(* A file has a state ("absent", "partial", "written", "synced") and the
   image that was or is being written to it.                               *)
File(state, contents) == [state |-> state, contents |-> contents]
NoFile == File("absent", NoImage)

Serving == phase \in {"up", "stopping", "draining"}

NumbersIn(items) == UNION {{x.seq : x \in items[g]} : g \in Signals}

-----------------------------------------------------------------------------
(* Mutant: the numbers of one store are forgotten.                         *)
MaxIngestSeq_NoTraces(items) ==
    Max({0} \cup {x.seq : x \in items["logs"] \cup items["metrics"]})

(* max_ingest_seq: 0 when the stores are empty.                            *)
MaxIngestSeq(items) == Max({0} \cup NumbersIn(items))

Init ==
    /\ phase = "up"
    /\ store = NoItems
    /\ counter = MaxIngestSeq(NoItems) + 1
    /\ pc = [s \in Savers |-> "idle"]
    /\ image = [s \in Savers |-> NoImage]
    /\ lock = Free
    /\ tmp = NoFile
    /\ final = NoFile
    /\ earlier = {}
    /\ made = 0
    /\ saves = 0
    /\ failures = 0
    /\ starts = 1

(* ---- the stores ---- *)

Ingest(g) ==
    /\ Serving
    /\ made < MaxItems
    /\ store' = [store EXCEPT ![g] = @ \cup {[id |-> made + 1, seq |-> counter]}]
    /\ made' = made + 1
    /\ counter' = counter + 1
    /\ UNCHANGED <<phase, saverVars, diskVars, starts>>

(* Eviction or a reset: some of the items of one store go.                 *)
Remove(g) ==
    /\ Serving
    /\ \E gone \in (SUBSET store[g]) \ {{}} :
          store' = [store EXCEPT ![g] = @ \ gone]
    /\ UNCHANGED <<phase, counter, saverVars, diskVars, made, starts>>

(* ---- a save ---- *)

Goto(s, step) == pc' = [pc EXCEPT ![s] = step]

(* save_from_state_reported is entered with nothing cloned yet.            *)
BeginSave(s) ==
    /\ pc[s] = "idle"
    /\ saves < MaxSaves
    /\ saves' = saves + 1
    /\ image' = [image EXCEPT ![s] = [NoImage EXCEPT !.began = store, !.made = made,
                                                     !.counter = counter]]
    /\ Goto(s, "logs")

Trigger(s) ==
    /\ Serving
    /\ s # "shutdown"
    /\ BeginSave(s)
    /\ UNCHANGED <<phase, counter, store, lock, diskVars, made, failures, starts>>

(* Mutant: the trace store is not cloned.                                  *)
Cloned_NoTraces(g) == IF g = "traces" THEN {} ELSE store[g]

Cloned(g) == store[g]

AfterClone == [logs |-> "metrics", metrics |-> "traces", traces |-> "lock"]

Clone(s) ==
    /\ pc[s] \in Signals
    /\ image' = [image EXCEPT ![s].data[pc[s]] = Cloned(pc[s])]
    /\ Goto(s, AfterClone[pc[s]])
    /\ UNCHANGED <<phase, counter, store, lock, diskVars, made, saves, failures, starts>>

(* Mutant: writers are not serialised.                                     *)
CanLock_Always == TRUE

CanLock == lock = Free

Lock(s) ==
    /\ pc[s] = "lock"
    /\ CanLock
    /\ lock' = s
    /\ Goto(s, "create")
    /\ UNCHANGED <<phase, counter, store, image, diskVars, made, saves, failures, starts>>

Return(s) ==
    /\ pc' = [pc EXCEPT ![s] = "idle"]
    /\ image' = [image EXCEPT ![s] = NoImage]

(* The file operations under the lock; the guard of a step is its place in
   the sequence.  Any temporary file left over is removed first; Write goes
   to the file this saver created, which is the one in place only while no
   other saver has replaced it.                                            *)
Create(s) ==
    /\ pc[s] = "create"
    /\ tmp' = File("partial", image[s])
    /\ Goto(s, "write")
    /\ UNCHANGED <<final, earlier, lock, image>>

Write(s) ==
    /\ pc[s] = "write"
    /\ tmp' = [tmp EXCEPT !.state = IF tmp.contents = image[s] THEN "written" ELSE @]
    /\ Goto(s, "sync")
    /\ UNCHANGED <<final, earlier, lock, image>>

(* Mutant: the rename does not wait for the data to reach the disk.        *)
Sync_Skipped(s) ==
    /\ pc[s] = "sync"
    /\ Goto(s, "rename")
    /\ UNCHANGED <<tmp, final, earlier, lock, image>>

Sync(s) ==
    /\ pc[s] = "sync"
    /\ tmp' = [tmp EXCEPT !.state = IF @ = "written" THEN "synced" ELSE @]
    /\ Goto(s, "rename")
    /\ UNCHANGED <<final, earlier, lock, image>>

Rename(s) ==
    /\ pc[s] = "rename"
    /\ final' = tmp
    /\ earlier' = earlier \cup {final}
    /\ tmp' = NoFile
    /\ lock' = Free
    /\ Return(s)

FileStep(s) ==
    /\ Create(s) \/ Write(s) \/ Sync(s) \/ Rename(s)
    /\ UNCHANGED <<phase, counter, store, made, saves, failures, starts>>

(* Mutant: an early return leaves the lock behind.                         *)
ReleasedOnError_Never == lock

(* The guard is dropped on every return.                                   *)
ReleasedOnError == Free

(* A file operation fails: the save ends with an error, and the temporary
   file stays as it is, or half written.                                   *)
Fail(s) ==
    /\ pc[s] \in {"create", "write", "sync", "rename"}
    /\ failures < MaxFailures
    /\ failures' = failures + 1
    /\ tmp' \in IF pc[s] = "create" THEN {tmp, NoFile} ELSE {tmp}
    /\ lock' = ReleasedOnError
    /\ Return(s)
    /\ UNCHANGED <<phase, counter, store, final, earlier, made, saves, starts>>

(* ---- the process ---- *)

(* SIGINT or SIGTERM: the shutdown snapshot is taken before the server stops
   accepting requests.                                                     *)
Terminate ==
    /\ phase = "up"
    /\ phase' = "stopping"
    /\ BeginSave("shutdown")
    /\ UNCHANGED <<counter, store, lock, diskVars, made, failures, starts>>

StopAccepting ==
    /\ phase = "stopping"
    /\ pc["shutdown"] = "idle"
    /\ phase' = "draining"
    /\ UNCHANGED <<counter, store, saverVars, diskVars, made, starts>>

(* The requests in flight have been answered and main returns.             *)
Drained ==
    /\ phase = "draining"
    /\ phase' = "exiting"
    /\ UNCHANGED <<counter, store, saverVars, diskVars, made, starts>>

Stopped ==
    /\ phase' = "down"
    /\ store' = NoItems
    /\ counter' = counter
    /\ pc' = [s \in Savers |-> "idle"]
    /\ image' = [s \in Savers |-> NoImage]
    /\ lock' = Free
    /\ UNCHANGED <<made, saves, failures, starts>>

(* The runtime waits for a save that is running.                           *)
Exit ==
    /\ phase = "exiting"
    /\ \A s \in Savers : pc[s] = "idle"
    /\ Stopped
    /\ UNCHANGED diskVars

Kill ==
    /\ phase # "down"
    /\ Stopped
    /\ UNCHANGED diskVars

(* The data of a file that was not synced is torn.                         *)
Torn(file) ==
    IF file.state = "written" THEN [file EXCEPT !.state = "partial"] ELSE file

PowerLoss ==
    /\ phase # "down"
    /\ Stopped
    /\ tmp' = Torn(tmp)
    /\ final' \in {Torn(file) : file \in earlier \cup {final}}
    /\ earlier' = {}

(* load_snapshot refuses a file it cannot read to its end.                 *)
Restorable == final.state \in {"written", "synced"}

Start(restore) ==
    /\ phase = "down"
    /\ starts < MaxStarts
    /\ starts' = starts + 1
    /\ phase' = "up"
    /\ LET loaded == IF restore /\ Restorable THEN final.contents.data ELSE NoItems
       IN  /\ store' = loaded
           /\ counter' = MaxIngestSeq(loaded) + 1
    /\ UNCHANGED <<saverVars, diskVars, made>>

Next ==
    \/ \E g \in Written : Ingest(g) \/ Remove(g)
    \/ \E s \in Savers : Trigger(s) \/ Clone(s) \/ Lock(s) \/ FileStep(s) \/ Fail(s)
    \/ Terminate \/ StopAccepting \/ Drained \/ Exit \/ Kill \/ PowerLoss
    \/ \E restore \in BOOLEAN : Start(restore)

Spec == Init /\ [][Next]_vars

(* A save runs to its end once begun, and so does a shutdown: the threads of
   the runtime keep running.  The lock is handed over fairly.              *)
Fairness ==
    /\ \A s \in Savers :
          /\ WF_vars(Clone(s))
          /\ WF_vars(FileStep(s))
          /\ SF_vars(Lock(s))
    /\ WF_vars(StopAccepting)
    /\ WF_vars(Drained)
    /\ WF_vars(Exit)

FairSpec == Spec /\ Fairness

-----------------------------------------------------------------------------
(* Whatever the moment a save, the process or the machine stops, the
   published file is absent or one complete snapshot: the write lock and the
   order sync, then rename, are what gives it.                             *)
PublishedIsComplete == final.state \in {"absent", "synced"}

(* The published file holds every item that was stored when its save began
   and still is, and none that had been removed by then.                   *)
PublishedIsFaithful ==
    LET file == final.contents
    IN  \A g \in Signals :
           /\ file.began[g] \cap store[g] \subseteq file.data[g]
           /\ \A x \in file.data[g] : x.id <= file.made => x \in file.began[g]

(* Ingest numbers stay usable across restarts: the items in the stores, the
   restored ones included, have distinct numbers, all below the counter.   *)
NumbersStayDistinct ==
    /\ \A n \in NumbersIn(store) : n < counter
    /\ \A g, h \in Signals : \A x \in store[g], y \in store[h] :
          x.seq = y.seq => x = y /\ g = h

(* A save that has begun ends, whichever other saves hold the lock and
   whichever file operations fail.                                         *)
SavesFinish == \A s \in Savers : pc[s] # "idle" ~> pc[s] = "idle"

(* DESIGN.md: the counter is snapshotted and restored "to preserve
   monotonicity".  A process that takes up a snapshot goes on counting from
   where the counter was when that snapshot was begun, so that a checkpoint
   handed out before it still separates what is ingested after it.         *)
RestoreKeepsCounting ==
    [][phase = "down" /\ phase' = "up" /\ store' # NoItems
       => counter' >= final.contents.counter]_vars
=============================================================================
