---------------------------- MODULE SnapshotsProofs ----------------------------
(***************************************************************************)
(* The published snapshot is never incomplete, for any set of savers and   *)
(* any number of saves, failures and restarts.                             *)
(*                                                                         *)
(* The holder of the write lock is the only saver between Create and       *)
(* Rename, so how far the temporary file has got follows from where its    *)
(* holder is: created, then written in full, then synced, then renamed.    *)
(***************************************************************************)
EXTENDS Snapshots, NaturalsInduction, WellFoundedInduction, TLAPS

AtFiles == {"create", "write", "sync", "rename"}

(* The lock is held exactly by the saver that is working on the files.     *)
LockInv ==
    /\ pc \in [Savers -> Signals \cup {"idle", "lock"} \cup AtFiles]
    /\ DOMAIN image = Savers
    /\ \A s \in Savers : lock = s <=> pc[s] \in AtFiles

(* The temporary file has got as far as its writer.                        *)
TmpInv ==
    \A s \in Savers :
        /\ pc[s] = "write" => tmp = File("partial", image[s])
        /\ pc[s] = "sync" => tmp = File("written", image[s])
        /\ pc[s] = "rename" => tmp = File("synced", image[s])

IsComplete(file) == file.state \in {"absent", "synced"}

DiskInv == IsComplete(final) /\ \A file \in earlier : IsComplete(file)

SnapshotInv == LockInv /\ TmpInv /\ DiskInv

LEMMA SnapshotInit == Init => SnapshotInv
BY SaversAssumption
   DEF Init, SnapshotInv, LockInv, TmpInv, DiskInv, IsComplete, NoFile, File, AtFiles

(* A step that leaves the lock, the files and the place of every saver that
   works on the files alone, and the images of those, is harmless.         *)
LEMMA Harmless ==
    ASSUME SnapshotInv, UNCHANGED <<lock, tmp, final, earlier>>,
           pc' \in [Savers -> Signals \cup {"idle", "lock"} \cup AtFiles],
           DOMAIN image' = Savers,
           \A s \in Savers :
              \/ pc'[s] = pc[s] /\ image'[s] = image[s]
              \/ pc[s] \notin AtFiles /\ pc'[s] \notin AtFiles
    PROVE  SnapshotInv'
<1>1. LockInv'
  BY DEF SnapshotInv, LockInv
<1>2. TmpInv'
  BY DEF SnapshotInv, TmpInv, AtFiles, File
<1>3. DiskInv'
  BY DEF SnapshotInv, DiskInv, IsComplete
<1> QED BY <1>1, <1>2, <1>3 DEF SnapshotInv

(* While one saver works on the files, no other does.                      *)
LEMMA OneWriter ==
    ASSUME SnapshotInv, NEW s \in Savers, pc[s] \in AtFiles,
           NEW d \in Savers, d # s
    PROVE  pc[d] \notin AtFiles
BY DEF SnapshotInv, LockInv

(* The saver s moves on within the files and keeps its image.              *)
LEMMA FileMove ==
    ASSUME SnapshotInv, NEW s \in Savers, NEW step \in {"write", "sync", "rename"},
           pc[s] \in AtFiles, Goto(s, step), UNCHANGED <<lock, image, final, earlier>>,
           tmp' = File(CASE step = "write" -> "partial"
                         [] step = "sync" -> "written"
                         [] step = "rename" -> "synced", image[s])
    PROVE  SnapshotInv'
<1>1. pc'[s] = step /\ \A d \in Savers \ {s} : pc'[d] = pc[d]
  BY DEF Goto, SnapshotInv, LockInv
<1>2. pc' \in [Savers -> Signals \cup {"idle", "lock"} \cup AtFiles]
  BY DEF Goto, SnapshotInv, LockInv, AtFiles
<1>3. LockInv'
  BY <1>1, <1>2 DEF SnapshotInv, LockInv, AtFiles
<1>4. \A d \in Savers \ {s} : pc'[d] \notin AtFiles
  BY <1>1, OneWriter
<1>5. TmpInv'
  BY <1>1, <1>4 DEF TmpInv, AtFiles, File
<1>6. DiskInv'
  BY DEF SnapshotInv, DiskInv, IsComplete
<1> QED BY <1>3, <1>5, <1>6 DEF SnapshotInv

(* The saver s leaves the files.                                           *)
LEMMA FileLeave ==
    ASSUME SnapshotInv, NEW s \in Savers, pc[s] \in AtFiles, Return(s),
           lock' = Free, DiskInv'
    PROVE  SnapshotInv'
<1>1. pc'[s] = "idle" /\ \A d \in Savers \ {s} : pc'[d] = pc[d]
  BY DEF Return, SnapshotInv, LockInv
<1>2. pc' \in [Savers -> Signals \cup {"idle", "lock"} \cup AtFiles] /\ DOMAIN image' = Savers
  BY DEF Return, SnapshotInv, LockInv
<1>3. \A d \in Savers : pc'[d] \notin AtFiles
  BY <1>1, OneWriter DEF AtFiles
<1>4. LockInv'
  BY <1>2, <1>3, SaversAssumption DEF LockInv
<1>5. TmpInv'
  BY <1>3 DEF TmpInv, AtFiles
<1> QED BY <1>4, <1>5 DEF SnapshotInv

LEMMA BeginSaveHarmless ==
    ASSUME SnapshotInv, NEW s \in Savers, BeginSave(s), UNCHANGED <<lock, tmp, final, earlier>>
    PROVE  SnapshotInv'
<1>1. pc[s] = "idle" /\ pc' = [pc EXCEPT ![s] = "logs"]
      /\ DOMAIN image' = DOMAIN image /\ \A d \in Savers \ {s} : image'[d] = image[d]
  BY DEF BeginSave, Goto, SnapshotInv, LockInv
<1> QED BY <1>1, Harmless DEF SnapshotInv, LockInv, AtFiles, Signals

LEMMA StoppedHarmless ==
    ASSUME SnapshotInv, Stopped, DiskInv'
    PROVE  SnapshotInv'
<1>1. \A s \in Savers : pc'[s] \notin AtFiles
  BY DEF Stopped, AtFiles
<1>2. LockInv'
  BY <1>1, SaversAssumption DEF Stopped, LockInv
<1>3. TmpInv'
  BY <1>1 DEF TmpInv, AtFiles
<1> QED BY <1>2, <1>3 DEF SnapshotInv

LEMMA SnapshotStep == SnapshotInv /\ [Next]_vars => SnapshotInv'
<1> SUFFICES ASSUME SnapshotInv, [Next]_vars PROVE SnapshotInv'
  OBVIOUS
<1>0. ASSUME UNCHANGED <<pc, image, lock, tmp, final, earlier>> PROVE SnapshotInv'
  BY <1>0, Harmless DEF SnapshotInv, LockInv
<1>1. ASSUME NEW g \in Written, Ingest(g) \/ Remove(g) PROVE SnapshotInv'
  BY <1>0, <1>1 DEF Ingest, Remove, saverVars, diskVars
<1>2. ASSUME NEW s \in Savers, Trigger(s) PROVE SnapshotInv'
  BY <1>2, BeginSaveHarmless DEF Trigger, diskVars
<1>3. ASSUME NEW s \in Savers, Clone(s) PROVE SnapshotInv'
  <2>1. pc[s] \in Signals /\ pc' = [pc EXCEPT ![s] = AfterClone[pc[s]]]
        /\ DOMAIN image' = DOMAIN image /\ \A d \in Savers \ {s} : image'[d] = image[d]
    BY <1>3 DEF Clone, Goto, SnapshotInv, LockInv
  <2>2. AfterClone[pc[s]] \in {"metrics", "traces", "lock"}
    BY <2>1 DEF AfterClone, Signals
  <2>3. UNCHANGED <<lock, tmp, final, earlier>>
    BY <1>3 DEF Clone, diskVars
  <2> QED BY <2>1, <2>2, <2>3, Harmless DEF SnapshotInv, LockInv, AtFiles, Signals
<1>4. ASSUME NEW s \in Savers, Lock(s) PROVE SnapshotInv'
  <2>1. lock = Free /\ lock' = s /\ pc' = [pc EXCEPT ![s] = "create"]
        /\ UNCHANGED <<image, tmp, final, earlier>>
    BY <1>4 DEF Lock, CanLock, Goto, diskVars
  <2>2. \A d \in Savers : pc[d] \notin AtFiles
    BY <2>1, SaversAssumption DEF SnapshotInv, LockInv
  <2>3. LockInv'
    BY <2>1, <2>2 DEF SnapshotInv, LockInv, AtFiles
  <2>4. TmpInv'
    BY <2>1, <2>2 DEF SnapshotInv, LockInv, TmpInv, AtFiles
  <2> QED BY <2>1, <2>3, <2>4 DEF SnapshotInv, DiskInv, IsComplete
<1>5. ASSUME NEW s \in Savers, FileStep(s) PROVE SnapshotInv'
  <2>1. CASE Create(s)
    BY <2>1, FileMove, Zenon DEF Create, AtFiles
  <2>2. CASE Write(s)
    <3>1. tmp = File("partial", image[s])
      BY <2>2 DEF Write, SnapshotInv, TmpInv
    <3>2. tmp' = File("written", image[s])
      BY <2>2, <3>1 DEF Write, File
    <3> QED BY <2>2, <3>2, FileMove, Zenon DEF Write, AtFiles
  <2>3. CASE Sync(s)
    <3>1. tmp = File("written", image[s])
      BY <2>3 DEF Sync, SnapshotInv, TmpInv
    <3>2. tmp' = File("synced", image[s])
      BY <2>3, <3>1 DEF Sync, File
    <3> QED BY <2>3, <3>2, FileMove, Zenon DEF Sync, AtFiles
  <2>4. CASE Rename(s)
    <3>1. tmp = File("synced", image[s]) /\ pc[s] \in AtFiles
      BY <2>4 DEF Rename, SnapshotInv, TmpInv, AtFiles
    <3>2. DiskInv'
      BY <2>4, <3>1 DEF Rename, SnapshotInv, DiskInv, IsComplete, File
    <3> QED BY <2>4, <3>1, <3>2, FileLeave DEF Rename
  <2> QED BY <1>5, <2>1, <2>2, <2>3, <2>4 DEF FileStep
<1>6. ASSUME NEW s \in Savers, Fail(s) PROVE SnapshotInv'
  <2>1. DiskInv'
    BY <1>6 DEF Fail, SnapshotInv, DiskInv, IsComplete
  <2> QED BY <1>6, <2>1, FileLeave DEF Fail, ReleasedOnError, AtFiles
<1>7. CASE Terminate
  BY <1>7, BeginSaveHarmless, SaversAssumption DEF Terminate, diskVars
<1>8. CASE StopAccepting \/ Drained
  BY <1>0, <1>8 DEF StopAccepting, Drained, saverVars, diskVars
<1>9. CASE Exit \/ Kill
  BY <1>9, StoppedHarmless DEF Exit, Kill, diskVars, SnapshotInv, DiskInv, IsComplete
<1>10. CASE PowerLoss
  <2>1. \A file \in earlier \cup {final} : IsComplete(Torn(file))
    BY DEF SnapshotInv, DiskInv, IsComplete, Torn
  <2>2. DiskInv'
    BY <1>10, <2>1 DEF PowerLoss, DiskInv, IsComplete
  <2> QED BY <1>10, <2>2, StoppedHarmless DEF PowerLoss
<1>11. ASSUME NEW restore \in BOOLEAN, Start(restore) PROVE SnapshotInv'
  BY <1>0, <1>11 DEF Start, saverVars, diskVars
<1>12. CASE UNCHANGED vars
  BY <1>0, <1>12 DEF vars
<1> QED
  BY <1>1, <1>2, <1>3, <1>4, <1>5, <1>6, <1>7, <1>8, <1>9, <1>10, <1>11, <1>12 DEF Next

(* At every moment, a kill or a power loss included, aniani.snap is absent or
   a complete, synced snapshot.                                            *)
THEOREM PublishedAlwaysComplete == Spec => []PublishedIsComplete
<1>1. SnapshotInv => PublishedIsComplete
  BY DEF SnapshotInv, DiskInv, IsComplete, PublishedIsComplete
<1> QED BY SnapshotInit, SnapshotStep, <1>1, PTL DEF Spec
-----------------------------------------------------------------------------
(***************************************************************************)
(* What the files hold.  A saver that has cloned a store holds every item  *)
(* that was there when it began and still is, and an item it holds that is *)
(* no newer than its beginning was there then; both survive whatever the   *)
(* stores go through while the save runs.  A saver never holds an item     *)
(* whose number another item of the stores carries, so a restart from its  *)
(* file counts on from a number above all of them.                         *)
(***************************************************************************)
Item == [id : Nat, seq : Nat]
Items == [Signals -> SUBSET Item]
ImageType == [data : Items, began : Items, made : Nat, counter : Nat]
FileType == [state : {"absent", "partial", "written", "synced"}, contents : ImageType]

Typed ==
    /\ made \in Nat /\ counter \in Nat
    /\ store \in Items
    /\ image \in [Savers -> ImageType]
    /\ final \in FileType /\ earlier \subseteq FileType

Older(items, n) == \A g \in Signals : \A x \in items[g] : x.id <= n
Below(items, n) == \A g \in Signals : \A x \in items[g] : x.seq < n

(* Items of the two that share a number are the same item of one store.    *)
Agree(items, others) ==
    \A g, h \in Signals : \A x \in items[g], y \in others[h] : x.seq = y.seq => x = y /\ g = h

(* Nothing that had been removed when the save began.                      *)
NothingRemoved(img) ==
    \A g \in Signals : \A x \in img.data[g] : x.id <= img.made => x \in img.began[g]

(* The stores that a saver at this step has yet to clone.                  *)
Pending(step) ==
    CASE step = "logs" -> Signals
      [] step = "metrics" -> {"metrics", "traces"}
      [] step = "traces" -> {"traces"}
      [] OTHER -> {}

StoreInv == Older(store, made) /\ Below(store, counter) /\ Agree(store, store)

ImageInv(s) ==
    LET img == image[s]
    IN  /\ img.made <= made /\ NothingRemoved(img)
        /\ Older(img.data, made) /\ Older(img.began, made)
        /\ Below(img.data, counter) /\ Agree(img.data, img.data) /\ Agree(img.data, store)
        /\ \A g \in Signals :
              /\ \A x \in store[g] : x.id <= img.made => x \in img.began[g]
              /\ g \in Pending(pc[s]) => img.data[g] = {}
              /\ g \notin Pending(pc[s]) => img.began[g] \cap store[g] \subseteq img.data[g]

FileInv(file) ==
    /\ NothingRemoved(file.contents)
    /\ Older(file.contents.data, made) /\ Older(file.contents.began, made)
    /\ Agree(file.contents.data, file.contents.data)
    /\ \E n \in Nat : Below(file.contents.data, n)

NothingMissing(file) ==
    \A g \in Signals : file.contents.began[g] \cap store[g] \subseteq file.contents.data[g]

ContentsInv ==
    /\ Typed
    /\ StoreInv
    /\ \A s \in Savers : pc[s] # "idle" => ImageInv(s)
    /\ \A file \in earlier \cup {final} : FileInv(file)
    /\ NothingMissing(final)
    /\ phase = "down" => store = NoItems /\ \A s \in Savers : pc[s] = "idle"

LEMMA ContentsImplies == ContentsInv => PublishedIsFaithful /\ NumbersStayDistinct
<1> SUFFICES ASSUME ContentsInv PROVE PublishedIsFaithful /\ NumbersStayDistinct
  OBVIOUS
<1>1. PublishedIsFaithful
  BY DEF PublishedIsFaithful, ContentsInv, NothingMissing, FileInv, NothingRemoved
<1>2. \A n \in NumbersIn(store) : n < counter
  BY DEF NumbersIn, ContentsInv, StoreInv, Below
<1> QED BY <1>1, <1>2 DEF NumbersStayDistinct, ContentsInv, StoreInv, Agree

LEMMA NoItemsTyped == NoItems \in Items /\ NoImage \in ImageType
<1>1. NoItems \in Items
  BY DEF NoItems, Items
<1> QED BY <1>1 DEF NoImage, ImageType

(* A set of numbers with a bound has a largest one.                        *)
LEMMA MaxOfBounded ==
    ASSUME NEW S \in SUBSET Nat, NEW n \in Nat, S # {}, \A m \in S : m < n
    PROVE  Max(S) \in S /\ \A m \in S : m <= Max(S)
<1> DEFINE Bs == {b \in Nat : \A m \in S : m <= b}
           R == OpToRel(<, Nat)
<1>1. n \in Bs
  OBVIOUS
<1>2. \E b \in Bs : \A c \in Bs : <<c, b>> \notin R
  <2>1. Bs \subseteq Nat /\ Bs # {} /\ IsWellFoundedOn(R, Nat)
    BY <1>1, NatLessThanWellFounded
  <2> HIDE DEF Bs, R
  <2> QED BY <2>1, WFMin, Zenon
<1>3. PICK b \in Bs : \A c \in Bs : ~(c < b)
  BY <1>2 DEF OpToRel
<1>4. b \in S
  <2>1. SUFFICES ASSUME b \notin S PROVE FALSE
    OBVIOUS
  <2>2. PICK m \in S : m \in Nat /\ m <= b
    OBVIOUS
  <2>3. b - 1 \in Nat /\ \A k \in S : k <= b - 1
    BY <2>1, <2>2
  <2> QED BY <1>3, <2>3
<1>5. \E x \in S : \A y \in S : x >= y
  BY <1>4
<1>6. Max(S) \in S /\ \A y \in S : Max(S) >= y
  BY <1>5 DEF Max
<1> QED BY <1>6

(* max_ingest_seq is at or above every number of the items.                *)
LEMMA MaxIngestSeqIsHighest ==
    ASSUME NEW items \in Items, NEW n \in Nat, Below(items, n)
    PROVE  MaxIngestSeq(items) \in Nat /\ Below(items, MaxIngestSeq(items) + 1)
<1> DEFINE S == {0} \cup NumbersIn(items)
<1>1. \A g \in Signals : \A x \in items[g] : x.seq \in Nat /\ x.seq < n
  BY DEF Items, Item, Below
<1>2. S \subseteq Nat /\ \A m \in S : m < n + 1
  BY <1>1 DEF NumbersIn
<1>3. Max(S) \in S /\ \A m \in S : m <= Max(S)
  <2> HIDE DEF S
  <2>1. n + 1 \in Nat
    OBVIOUS
  <2>2. S # {}
    BY DEF S
  <2> QED BY <1>2, <2>1, <2>2, MaxOfBounded
<1>4. \A g \in Signals : \A x \in items[g] : x.seq \in S
  BY DEF NumbersIn
<1>5. MaxIngestSeq(items) = Max(S)
  BY DEF MaxIngestSeq
<1>6. ASSUME NEW g \in Signals, NEW x \in items[g] PROVE x.seq < Max(S) + 1
  <2> HIDE DEF S
  <2>1. x.seq \in Nat /\ x.seq <= Max(S) /\ Max(S) \in Nat
    BY <1>1, <1>2, <1>3, <1>4
  <2> QED BY <2>1
<1> QED BY <1>2, <1>3, <1>5, <1>6 DEF Below

LEMMA ContentsInit == Init => ContentsInv
<1> SUFFICES ASSUME Init PROVE ContentsInv
  OBVIOUS
<1>1. Below(NoItems, 0) /\ Older(NoItems, 0) /\ Agree(NoItems, NoItems)
  BY DEF Below, Older, Agree, NoItems
<1>2. MaxIngestSeq(NoItems) \in Nat
  BY <1>1, NoItemsTyped, MaxIngestSeqIsHighest
<1>3. final \in FileType
  BY NoItemsTyped DEF Init, NoFile, File, FileType
<1>4. Typed
  BY <1>2, <1>3, NoItemsTyped DEF Init, Typed
<1>5. StoreInv
  BY <1>1 DEF Init, StoreInv, Below, NoItems
<1>6. final.contents.data = NoItems /\ final.contents.began = NoItems
  BY DEF Init, NoFile, File, NoImage
<1>7. FileInv(final) /\ NothingMissing(final)
  BY <1>1, <1>6 DEF Init, FileInv, NothingRemoved, NothingMissing, NoItems
<1> QED BY <1>4, <1>5, <1>7 DEF Init, ContentsInv

(* A step that only takes items away keeps what is known of the stores, of
   the images and of the files.                                            *)
LEMMA StoreShrinks ==
    ASSUME StoreInv, UNCHANGED <<made, counter>>, \A g \in Signals : store'[g] \subseteq store[g]
    PROVE  StoreInv'
BY DEF StoreInv, Older, Below, Agree

LEMMA ImageKept ==
    ASSUME NEW s \in Savers, ImageInv(s), image'[s] = image[s],
           Pending(pc'[s]) = Pending(pc[s]), UNCHANGED <<made, counter>>,
           \A g \in Signals : store'[g] \subseteq store[g]
    PROVE  ImageInv(s)'
<1>1. Agree(image[s].data, store)'
  BY DEF ImageInv, Agree
<1>2. /\ (image[s].made <= made)' /\ NothingRemoved(image[s])'
      /\ Older(image[s].data, made)' /\ Older(image[s].began, made)'
      /\ Below(image[s].data, counter)' /\ Agree(image[s].data, image[s].data)'
  BY DEF ImageInv, NothingRemoved, Older, Below, Agree
<1> QED BY <1>1, <1>2 DEF ImageInv, Pending

LEMMA FileKept ==
    ASSUME NEW file \in FileType, FileInv(file), made \in Nat, made' \in Nat, made <= made'
    PROVE  FileInv(file)'
<1>1. \A g \in Signals :
         /\ \A x \in file.contents.data[g] : x.id \in Nat
         /\ \A x \in file.contents.began[g] : x.id \in Nat
  BY DEF FileType, ImageType, Items, Item
<1>2. Older(file.contents.data, made') /\ Older(file.contents.began, made')
  BY <1>1 DEF FileInv, Older
<1> QED BY <1>2 DEF FileInv, NothingRemoved, Older, Agree, Below

LEMMA MissingKept ==
    ASSUME NothingMissing(final), UNCHANGED final, \A g \in Signals : store'[g] \subseteq store[g]
    PROVE  NothingMissing(final)'
BY DEF NothingMissing

(* The stores may shrink; savers end or stay at a step with the same clones
   to make; the files stay.                                                *)
LEMMA ContentsKept ==
    ASSUME ContentsInv, store' \in Items, \A g \in Signals : store'[g] \subseteq store[g],
           UNCHANGED <<made, counter, final, earlier>>,
           image' \in [Savers -> ImageType],
           \A s \in Savers :
              \/ pc'[s] = "idle"
              \/ pc[s] # "idle" /\ image'[s] = image[s] /\ Pending(pc'[s]) = Pending(pc[s]),
           phase' = "down" => store' = NoItems /\ \A s \in Savers : pc'[s] = "idle"
    PROVE  ContentsInv'
<1> USE DEF ContentsInv
<1>1. Typed'
  BY DEF Typed
<1>2. StoreInv'
  BY StoreShrinks
<1>3. ASSUME NEW s \in Savers, pc'[s] # "idle" PROVE ImageInv(s)'
  BY <1>3, ImageKept
<1>4. ASSUME NEW file \in earlier \cup {final} PROVE FileInv(file)'
  <2>1. file \in FileType /\ made \in Nat /\ made <= made
    BY DEF Typed
  <2> QED BY <2>1, FileKept
<1>5. NothingMissing(final)'
  BY MissingKept
<1> QED BY <1>1, <1>2, <1>3, <1>4, <1>5

LEMMA IngestContents ==
    ASSUME ContentsInv, NEW g \in Signals, Ingest(g)
    PROVE  ContentsInv'
<1> USE DEF ContentsInv
<1> DEFINE new == [id |-> made + 1, seq |-> counter]
<1>1. /\ made \in Nat /\ counter \in Nat /\ store \in Items
      /\ made' = made + 1 /\ counter' = counter + 1
      /\ UNCHANGED <<phase, pc, image, final, earlier>> /\ phase # "down"
  BY DEF Ingest, Serving, Typed, saverVars, diskVars
<1>2. new \in Item /\ new.id = made + 1 /\ new.seq = counter
  BY <1>1 DEF Item
<1>3. \A h \in Signals : \A x \in store'[h] : x \in store[h] \/ (x = new /\ h = g)
  BY <1>1 DEF Ingest, Items
<1>4. store' \in Items
  BY <1>1, <1>2 DEF Ingest, Items
<1>5. \A h \in Signals : \A x \in store[h] :
         x.id \in Nat /\ x.id <= made /\ x.seq \in Nat /\ x.seq < counter
  BY <1>1 DEF Items, Item, StoreInv, Older, Below
<1> HIDE DEF new
<1>6. Typed'
  BY <1>1, <1>4 DEF Typed
<1>7. StoreInv'
  <2>1. Older(store, made)' /\ Below(store, counter)'
    BY <1>1, <1>2, <1>3, <1>5 DEF Older, Below
  <2>2. Agree(store, store)'
    <3> SUFFICES ASSUME NEW h \in Signals, NEW k \in Signals, NEW x \in store'[h],
                        NEW y \in store'[k], x.seq = y.seq
                 PROVE  x = y /\ h = k
      BY DEF Agree
    <3>1. CASE x \in store[h] /\ y \in store[k]
      BY <3>1 DEF StoreInv, Agree
    <3> QED BY <1>1, <1>2, <1>3, <1>5, <3>1
  <2> QED BY <2>1, <2>2 DEF StoreInv
<1>8. ASSUME NEW s \in Savers, pc'[s] # "idle" PROVE ImageInv(s)'
  <2> DEFINE img == image[s]
  <2>1. ImageInv(s) /\ img \in ImageType /\ image'[s] = img /\ pc'[s] = pc[s]
    BY <1>1, <1>8 DEF Typed
  <2>2. /\ img.made \in Nat /\ img.made <= made
        /\ \A h \in Signals : \A x \in img.data[h] :
              x.id \in Nat /\ x.id <= made /\ x.seq \in Nat /\ x.seq < counter
        /\ \A h \in Signals : \A x \in img.began[h] : x.id \in Nat /\ x.id <= made
    BY <2>1 DEF ImageInv, ImageType, Items, Item, Older, Below
  <2>3. NothingRemoved(img) /\ Agree(img.data, img.data)
    BY <2>1 DEF ImageInv
  <2>4. \A h \in Signals :
           /\ \A x \in store[h] : x.id <= img.made => x \in img.began[h]
           /\ h \in Pending(pc[s]) => img.data[h] = {}
           /\ h \notin Pending(pc[s]) => img.began[h] \cap store[h] \subseteq img.data[h]
    BY <2>1 DEF ImageInv
  <2>5. Agree(img.data, store)
    BY <2>1 DEF ImageInv
  <2> HIDE DEF img
  <2>6. img.made <= made' /\ Older(img.data, made') /\ Older(img.began, made')
        /\ Below(img.data, counter')
    BY <1>1, <2>2 DEF Older, Below
  <2>7. Agree(img.data, store')
    BY <1>1, <1>2, <1>3, <2>2, <2>5 DEF Agree
  <2>8. ASSUME NEW h \in Signals
        PROVE  /\ \A x \in store'[h] : x.id <= img.made => x \in img.began[h]
               /\ h \in Pending(pc[s]) => img.data[h] = {}
               /\ h \notin Pending(pc[s]) => img.began[h] \cap store'[h] \subseteq img.data[h]
    <3>1. ~(new.id <= img.made) /\ new \notin img.began[h]
      BY <1>1, <1>2, <2>2
    <3> QED BY <1>3, <2>4, <3>1
  <2> QED BY <2>1, <2>3, <2>6, <2>7, <2>8 DEF ImageInv, NothingRemoved, Agree, Older, Below, img
<1>9. ASSUME NEW file \in earlier \cup {final} PROVE FileInv(file)'
  BY <1>1, FileKept DEF Typed
<1>10. NothingMissing(final)'
  <2>1. final \in FileType /\ FileInv(final) /\ NothingMissing(final)
    BY DEF Typed
  <2>2. \A h \in Signals : \A x \in final.contents.began[h] : x.id \in Nat /\ x.id <= made
    BY <2>1 DEF FileInv, FileType, ImageType, Items, Item, Older
  <2>3. \A h \in Signals : new \notin final.contents.began[h]
    BY <1>1, <1>2, <2>2
  <2> QED BY <1>1, <1>3, <2>1, <2>3 DEF NothingMissing
<1> QED BY <1>1, <1>6, <1>7, <1>8, <1>9, <1>10

LEMMA BeginContents ==
    ASSUME SnapshotInv, ContentsInv, NEW s \in Savers, BeginSave(s),
           UNCHANGED <<store, made, counter, final, earlier>>,
           phase # "down", phase' # "down"
    PROVE  ContentsInv'
<1> USE DEF ContentsInv
<1> DEFINE img == [NoImage EXCEPT !.began = store, !.made = made, !.counter = counter]
<1>1. made \in Nat /\ counter \in Nat /\ store \in Items /\ image \in [Savers -> ImageType]
  BY DEF Typed
<1>2. img.data = NoItems /\ img.began = store /\ img.made = made /\ img \in ImageType
  BY <1>1, NoItemsTyped DEF NoImage, ImageType
<1>3. /\ image' \in [Savers -> ImageType] /\ image'[s] = img /\ pc'[s] = "logs"
      /\ \A d \in Savers \ {s} : image'[d] = image[d] /\ pc'[d] = pc[d]
  <2>1. image' = [image EXCEPT ![s] = img] /\ pc' = [pc EXCEPT ![s] = "logs"]
    BY DEF BeginSave, Goto
  <2>2. pc'[s] = "logs" /\ \A d \in Savers \ {s} : pc'[d] = pc[d]
    BY <2>1 DEF SnapshotInv, LockInv
  <2> HIDE DEF img
  <2> QED BY <1>1, <1>2, <2>1, <2>2
<1> HIDE DEF img
<1>4. Typed' /\ StoreInv'
  BY <1>1, <1>3, StoreShrinks DEF Typed
<1>5. ImageInv(s)'
  <2>1. NothingRemoved(img) /\ Older(img.data, made) /\ Below(img.data, counter)
        /\ Agree(img.data, img.data) /\ Agree(img.data, store)
    BY <1>2 DEF NothingRemoved, Older, Below, Agree, NoItems
  <2>2. Older(img.began, made) /\ img.made <= made
    BY <1>1, <1>2 DEF StoreInv
  <2>3. \A g \in Signals : g \in Pending(pc'[s]) /\ img.data[g] = {}
    BY <1>2, <1>3 DEF Pending, NoItems
  <2> QED
    BY <1>2, <1>3, <2>1, <2>2, <2>3 DEF ImageInv, NothingRemoved, Older, Below, Agree, Pending
<1>6. ASSUME NEW d \in Savers, pc'[d] # "idle" PROVE ImageInv(d)'
  BY <1>3, <1>5, <1>6, ImageKept
<1>7. ASSUME NEW file \in earlier \cup {final} PROVE FileInv(file)'
  BY <1>1, FileKept DEF Typed
<1>8. NothingMissing(final)'
  BY MissingKept
<1> QED BY <1>4, <1>6, <1>7, <1>8

LEMMA CloneContents ==
    ASSUME SnapshotInv, ContentsInv, NEW s \in Savers, Clone(s)
    PROVE  ContentsInv'
<1> USE DEF ContentsInv
<1> DEFINE g == pc[s]
           img == image'[s]
<1>1. /\ made \in Nat /\ counter \in Nat /\ store \in Items /\ image \in [Savers -> ImageType]
      /\ g \in Signals /\ UNCHANGED <<phase, counter, store, made, final, earlier>>
  BY DEF Typed, Clone, diskVars
<1>2. g # "idle" /\ ImageInv(s) /\ phase # "down" /\ image[s] \in ImageType
  BY <1>1 DEF Signals
<1>3. /\ pc'[s] = AfterClone[g] /\ \A d \in Savers \ {s} : image'[d] = image[d] /\ pc'[d] = pc[d]
      /\ image'[s] = [image[s] EXCEPT !.data = [image[s].data EXCEPT ![g] = store[g]]]
  <2>1. image' = [image EXCEPT ![s].data[pc[s]] = store[pc[s]]]
        /\ pc' = [pc EXCEPT ![s] = AfterClone[pc[s]]]
    BY DEF Clone, Goto, Cloned
  <2> QED BY <1>1, <2>1 DEF SnapshotInv, LockInv
<1>4. /\ img.made = image[s].made /\ img.began = image[s].began /\ img.counter = image[s].counter
      /\ img.data = [image[s].data EXCEPT ![g] = store[g]]
      /\ image[s].data \in Items
  BY <1>2, <1>3 DEF ImageType
<1>5. /\ img.data \in Items /\ img.data[g] = store[g]
      /\ \A h \in Signals \ {g} : img.data[h] = image[s].data[h]
  BY <1>1, <1>4 DEF Items
<1>6. img \in ImageType
  <2>1. img = [image[s] EXCEPT !.data = img.data]
    BY <1>2, <1>3, <1>4
  <2> QED BY <1>2, <1>5, <2>1 DEF ImageType
<1>7. image' \in [Savers -> ImageType]
  <2>1. DOMAIN image' = Savers /\ \A d \in Savers : image'[d] \in ImageType
    BY <1>1, <1>3, <1>6 DEF Clone
  <2>2. image' = [d \in Savers |-> image'[d]]
    BY <1>1 DEF Clone
  <2> QED BY <2>1, <2>2
<1>8. Typed' /\ StoreInv'
  BY <1>1, <1>7, StoreShrinks DEF Typed
<1>9. Pending(pc'[s]) = Pending(g) \ {g}
  BY <1>1, <1>3 DEF Pending, AfterClone, Signals
<1>10. ImageInv(s)'
  <2>1. NothingRemoved(img)
    BY <1>2, <1>4, <1>5 DEF ImageInv, NothingRemoved
  <2>2. Older(img.data, made) /\ Below(img.data, counter)
    BY <1>2, <1>5 DEF ImageInv, StoreInv, Older, Below
  <2>3. Agree(img.data, store)
    BY <1>2, <1>5 DEF ImageInv, StoreInv, Agree
  <2>4. Agree(img.data, img.data)
    BY <1>2, <1>5 DEF ImageInv, StoreInv, Agree
  <2>5. Older(img.began, made) /\ img.made <= made
    BY <1>2, <1>4 DEF ImageInv
  <2>6. ASSUME NEW h \in Signals
        PROVE  /\ \A x \in store[h] : x.id <= img.made => x \in img.began[h]
               /\ h \in Pending(pc'[s]) => img.data[h] = {}
               /\ h \notin Pending(pc'[s]) => img.began[h] \cap store[h] \subseteq img.data[h]
    BY <1>2, <1>4, <1>5, <1>9 DEF ImageInv
  <2> HIDE DEF img, g
  <2> QED
    BY <1>1, <2>1, <2>2, <2>3, <2>4, <2>5, <2>6
       DEF img, ImageInv, NothingRemoved, Older, Below, Agree, Pending
<1>11. ASSUME NEW d \in Savers, pc'[d] # "idle" PROVE ImageInv(d)'
  BY <1>1, <1>3, <1>10, <1>11, ImageKept
<1>12. ASSUME NEW file \in earlier \cup {final} PROVE FileInv(file)'
  BY <1>1, FileKept DEF Typed
<1>13. NothingMissing(final)'
  BY <1>1, MissingKept
<1> QED BY <1>1, <1>2, <1>8, <1>11, <1>12, <1>13

(* What a saver holds when it has cloned everything is fit to be published. *)
LEMMA RenameContents ==
    ASSUME SnapshotInv, ContentsInv, NEW s \in Savers, Rename(s),
           UNCHANGED <<phase, counter, store, made>>
    PROVE  ContentsInv'
<1> USE DEF ContentsInv
<1> DEFINE img == image[s]
<1>1. /\ final' = File("synced", img) /\ earlier' = earlier \cup {final}
      /\ pc[s] = "rename" /\ ImageInv(s) /\ phase # "down"
      /\ made \in Nat /\ counter \in Nat /\ img \in ImageType
  BY DEF Rename, SnapshotInv, TmpInv, Typed
<1>2. /\ image' \in [Savers -> ImageType] /\ pc'[s] = "idle"
      /\ \A d \in Savers \ {s} : image'[d] = image[d] /\ pc'[d] = pc[d]
  BY NoItemsTyped DEF Rename, Return, Typed, SnapshotInv, LockInv
<1>3. final' \in FileType /\ final'.contents = img
  BY <1>1 DEF File, FileType
<1>4. FileInv(final') /\ NothingMissing(final')
  <2>1. Pending(pc[s]) = {}
    BY <1>1 DEF Pending
  <2>2. FileInv(final')
    BY <1>1, <1>3 DEF ImageInv, FileInv
  <2>3. NothingMissing(final')
    BY <1>1, <1>3, <2>1 DEF ImageInv, NothingMissing
  <2> QED BY <2>2, <2>3
<1>5. Typed' /\ StoreInv'
  BY <1>1, <1>2, <1>3, StoreShrinks DEF Typed
<1>6. ASSUME NEW d \in Savers, pc'[d] # "idle" PROVE ImageInv(d)'
  BY <1>2, <1>6, ImageKept
<1>7. ASSUME NEW file \in earlier' \cup {final'} PROVE FileInv(file)'
  <2>1. file \in FileType /\ FileInv(file)
    BY <1>1, <1>3, <1>4 DEF Typed
  <2> QED BY <1>1, <2>1, FileKept
<1>8. NothingMissing(final)'
  BY <1>4 DEF NothingMissing
<1>9. \A file \in (earlier \cup {final})' : FileInv(file)'
  BY <1>7
<1> QED BY <1>1, <1>5, <1>6, <1>8, <1>9

(* The process stops with nothing but its files left.                      *)
LEMMA StoppedContents ==
    ASSUME ContentsInv, Stopped,
           \A file \in earlier' \cup {final'} :
              \E old \in earlier \cup {final} :
                 file.contents = old.contents /\ file \in FileType
    PROVE  ContentsInv'
<1> USE DEF ContentsInv
<1>1. /\ store' = NoItems /\ counter' = counter /\ made' = made /\ made \in Nat /\ counter \in Nat
      /\ \A s \in Savers : pc'[s] = "idle"
      /\ image' \in [Savers -> ImageType]
  BY NoItemsTyped DEF Stopped, Typed
<1>2. Typed'
  BY <1>1, NoItemsTyped DEF Typed
<1>3. StoreInv'
  BY <1>1 DEF StoreInv, Older, Below, Agree, NoItems
<1>4. ASSUME NEW file \in earlier' \cup {final'} PROVE FileInv(file)'
  <2>1. PICK old \in earlier \cup {final} : file.contents = old.contents /\ file \in FileType
    OBVIOUS
  <2>2. FileInv(file)
    BY <2>1 DEF FileInv
  <2> QED BY <1>1, <2>1, <2>2, FileKept
<1>5. NothingMissing(final)'
  BY <1>1 DEF NothingMissing, NoItems
<1>6. \A file \in (earlier \cup {final})' : FileInv(file)'
  BY <1>4
<1> QED BY <1>1, <1>2, <1>3, <1>5, <1>6

(* The process starts with the stores of the published file or with none,
   and counts on from the highest number it finds.                         *)
LEMMA StartContents ==
    ASSUME ContentsInv, NEW restore \in BOOLEAN, Start(restore)
    PROVE  ContentsInv'
<1> USE DEF ContentsInv
<1> DEFINE loaded == IF restore /\ Restorable THEN final.contents.data ELSE NoItems
<1>1. /\ store' = loaded /\ counter' = MaxIngestSeq(loaded) + 1 /\ phase' = "up"
      /\ UNCHANGED <<made, pc, image, final, earlier>> /\ phase = "down"
  BY DEF Start, saverVars, diskVars
<1>2. /\ loaded \in Items /\ Older(loaded, made) /\ Agree(loaded, loaded)
      /\ \E n \in Nat : Below(loaded, n)
  <2>1. /\ NoItems \in Items /\ Older(NoItems, made) /\ Agree(NoItems, NoItems)
        /\ Below(NoItems, 0)
    BY NoItemsTyped DEF Older, Agree, Below, NoItems
  <2>2. final.contents.data \in Items /\ FileInv(final)
    BY DEF Typed, FileType, ImageType
  <2> QED BY <2>1, <2>2 DEF FileInv
<1>3. \A g \in Signals : final.contents.began[g] \cap loaded[g] \subseteq final.contents.data[g]
  BY DEF NoItems
<1> HIDE DEF loaded
<1>4. MaxIngestSeq(loaded) \in Nat /\ Below(loaded, MaxIngestSeq(loaded) + 1)
  BY <1>2, MaxIngestSeqIsHighest
<1>5. Typed'
  BY <1>1, <1>2, <1>4 DEF Typed
<1>6. StoreInv'
  BY <1>1, <1>2, <1>4 DEF StoreInv, Older, Below, Agree
<1>7. \A s \in Savers : pc'[s] = "idle"
  BY <1>1
<1>8. ASSUME NEW file \in earlier \cup {final} PROVE FileInv(file)'
  <2>1. file \in FileType /\ made \in Nat /\ made <= made
    BY DEF Typed
  <2> QED BY <1>1, <2>1, FileKept
<1>9. NothingMissing(final)'
  BY <1>1, <1>3 DEF NothingMissing
<1> QED BY <1>1, <1>5, <1>6, <1>7, <1>8, <1>9

LEMMA ContentsStep == SnapshotInv /\ ContentsInv /\ [Next]_vars => ContentsInv'
<1> SUFFICES ASSUME SnapshotInv, ContentsInv, [Next]_vars PROVE ContentsInv'
  OBVIOUS
<1>0. /\ store \in Items /\ image \in [Savers -> ImageType] /\ final \in FileType
      /\ earlier \subseteq FileType
      /\ \A g \in Signals : store[g] \subseteq store[g]
      /\ phase = "down" => \A s \in Savers : pc[s] = "idle"
  BY DEF ContentsInv, Typed
<1>1. ASSUME NEW g \in Written, Ingest(g) PROVE ContentsInv'
  BY <1>1, IngestContents, SaversAssumption
<1>2. ASSUME NEW g \in Written, Remove(g) PROVE ContentsInv'
  <2>1. store' \in Items /\ (\A h \in Signals : store'[h] \subseteq store[h])
        /\ phase' # "down" /\ UNCHANGED <<pc, image, made, counter, final, earlier>>
    BY <1>0, <1>2 DEF Remove, Items, Serving, saverVars, diskVars
  <2> QED BY <1>0, <2>1, ContentsKept
<1>3. ASSUME NEW s \in Savers, Trigger(s) PROVE ContentsInv'
  BY <1>3, BeginContents DEF Trigger, Serving, diskVars
<1>4. ASSUME NEW s \in Savers, Clone(s) PROVE ContentsInv'
  BY <1>4, CloneContents
<1>5. ASSUME NEW s \in Savers, NEW step \in AtFiles, Goto(s, step),
             pc[s] \in AtFiles \cup {"lock"},
             UNCHANGED <<phase, store, image, made, counter, final, earlier>>
      PROVE  ContentsInv'
  <2>1. phase # "down"
    BY <1>0, <1>5 DEF AtFiles
  <2>2. \A d \in Savers : \/ pc'[d] = pc[d]
                          \/ pc[d] # "idle" /\ Pending(pc'[d]) = Pending(pc[d])
    BY <1>5 DEF Goto, Pending, AtFiles, SnapshotInv, LockInv
  <2> QED BY <1>0, <1>5, <2>1, <2>2, ContentsKept
<1>6. ASSUME NEW s \in Savers, Lock(s) PROVE ContentsInv'
  BY <1>5, <1>6 DEF Lock, AtFiles, diskVars
<1>7. ASSUME NEW s \in Savers, FileStep(s) PROVE ContentsInv'
  <2>1. CASE Create(s) \/ Write(s) \/ Sync(s)
    BY <1>5, <1>7, <2>1 DEF FileStep, Create, Write, Sync, AtFiles
  <2>2. CASE Rename(s)
    BY <1>7, <2>2, RenameContents DEF FileStep
  <2> QED BY <1>7, <2>1, <2>2 DEF FileStep
<1>8. ASSUME NEW s \in Savers, Fail(s) PROVE ContentsInv'
  <2>1. /\ image' \in [Savers -> ImageType] /\ pc'[s] = "idle" /\ pc[s] # "idle"
        /\ \A d \in Savers \ {s} : image'[d] = image[d] /\ pc'[d] = pc[d]
        /\ UNCHANGED <<phase, counter, store, final, earlier, made>>
    BY <1>0, <1>8, NoItemsTyped DEF Fail, Return, SnapshotInv, LockInv
  <2>2. phase # "down"
    BY <1>0, <2>1
  <2> QED BY <1>0, <2>1, <2>2, ContentsKept
<1>9. CASE Terminate
  BY <1>9, BeginContents, SaversAssumption DEF Terminate, diskVars
<1>10. CASE StopAccepting \/ Drained
  <2>1. UNCHANGED <<pc, image, store, made, counter, final, earlier>> /\ phase' # "down"
    BY <1>10 DEF StopAccepting, Drained, saverVars, diskVars
  <2> QED BY <1>0, <2>1, ContentsKept
<1>11. CASE Exit \/ Kill
  BY <1>0, <1>11, StoppedContents DEF Exit, Kill, diskVars
<1>12. CASE PowerLoss
  <2>1. \A old \in earlier \cup {final} :
           Torn(old) \in FileType /\ Torn(old).contents = old.contents
    BY <1>0 DEF Torn, FileType
  <2>2. earlier' = {} /\ \E old \in earlier \cup {final} : final' = Torn(old)
    BY <1>12 DEF PowerLoss
  <2> QED BY <1>12, <2>1, <2>2, StoppedContents DEF PowerLoss
<1>13. ASSUME NEW restore \in BOOLEAN, Start(restore) PROVE ContentsInv'
  BY <1>13, StartContents
<1>14. CASE UNCHANGED vars
  <2>1. UNCHANGED <<phase, pc, image, store, made, counter, final, earlier>>
    BY <1>14 DEF vars
  <2>2. phase = "down" => store = NoItems
    BY DEF ContentsInv
  <2> QED BY <1>0, <2>1, <2>2, ContentsKept
<1> QED
  BY <1>1, <1>2, <1>3, <1>4, <1>6, <1>7, <1>8, <1>9, <1>10, <1>11, <1>12, <1>13, <1>14 DEF Next

LEMMA ContentsAlways == Spec => [](SnapshotInv /\ ContentsInv)
<1>1. (SnapshotInv /\ ContentsInv) /\ [Next]_vars => (SnapshotInv /\ ContentsInv)'
  BY SnapshotStep, ContentsStep
<1> QED BY SnapshotInit, ContentsInit, <1>1, PTL DEF Spec

(* Though the three stores are cloned at three moments, with ingestion,
   eviction, resets and other saves in between, the file that is published
   lacks nothing that was stored all along and revives nothing that had been
   removed; and so does the file a power loss brings back.                 *)
THEOREM PublishedAlwaysFaithful == Spec => []PublishedIsFaithful
BY ContentsAlways, ContentsImplies, PTL

(* Through any number of crashes and restarts from any published file, the
   items in the stores carry distinct numbers below the counter.           *)
THEOREM NumbersAlwaysDistinct == Spec => []NumbersStayDistinct
BY ContentsAlways, ContentsImplies, PTL
=============================================================================
