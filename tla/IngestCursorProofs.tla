-------------------------- MODULE IngestCursorProofs --------------------------
(***************************************************************************)
(* Proofs about the ingest cursor, for any number of requests, items,      *)
(* sessions and calls.                                                     *)
(*                                                                         *)
(* The numbers a request has drawn never change once it is acknowledged,   *)
(* and all of them are below the counter.  A checkpoint is a value of the  *)
(* counter, so it is above every number of every request acknowledged by   *)
(* then, and a summary keeps only numbers at or above it.                  *)
(***************************************************************************)
EXTENDS IngestCursor, SequenceTheorems, TLAPS

(* Every tool is a sequence of sections.                                   *)
LEMMA ToolsTyped == \A tool \in DOMAIN Tools : Tools[tool] \in Seq(SectionType)
<1>1. ListServices \in Seq(SectionType)
  BY DEF ListServices, Section, SectionType, Signals
<1>2. Reset \in Seq(SectionType)
  BY DEF Reset, Section, SectionType, Signals
<1>3. SubSeq(Reset, 1, 3) \in Seq(SectionType)
  BY <1>2 DEF Reset
<1>4. CheckHealth \in Seq(SectionType)
  BY DEF CheckHealth, Section, SectionType, Signals
<1>5. SummarizeActivity \in Seq(SectionType)
  <2>1. <<Section("cursor", "none"), Section("items", "logs"),
          Section("items", "traces"), Section("items", "metrics")>> \in Seq(SectionType)
    BY DEF Section, SectionType, Signals
  <2> QED BY <1>1, <2>1 DEF SummarizeActivity
<1>6. <<Section("cursor", "none")>> \in Seq(SectionType)
  BY DEF Section, SectionType
<1>7. DOMAIN Tools = {"mark_checkpoint", "list_services", "check_health",
                      "summarize_activity", "reset", "http_reset"}
  BY DEF Tools
<1>8. /\ Tools["mark_checkpoint"] = <<Section("cursor", "none")>>
      /\ Tools["list_services"] = ListServices
      /\ Tools["check_health"] = CheckHealth
      /\ Tools["summarize_activity"] = SummarizeActivity
      /\ Tools["reset"] = Reset
      /\ Tools["http_reset"] = SubSeq(Reset, 1, 3)
  BY DEF Tools
<1> QED BY <1>1, <1>2, <1>3, <1>4, <1>5, <1>6, <1>7, <1>8

LEMMA CheckpointTyped == counter \in Nat => Checkpoint \in Token
BY DEF Checkpoint, Token, Acked, Begun

LEMMA NoCallTyped == NoCall \in CallType
<1>1. NoSince \in Token
  BY DEF NoSince, Token
<1> QED BY <1>1 DEF NoCall, CallType, Scopes

(* A section names a store exactly when it visits one.                     *)
LEMMA HereTyped ==
    ASSUME TypeOK, NEW c \in Sessions, Busy(c)
    PROVE  /\ Tail(call[c].todo) \in Seq(SectionType)
           /\ Head(call[c].todo) \in SectionType
           /\ Head(call[c].todo).does # "cursor" => Here(c) \in Signals
<1>1. call[c].todo \in Seq(SectionType) /\ call[c].todo # <<>>
  BY DEF TypeOK, CallType, Busy
<1>2. Head(call[c].todo) \in SectionType /\ Tail(call[c].todo) \in Seq(SectionType)
  BY <1>1
<1> QED BY <1>2 DEF SectionType, Here

LEMMA ItemsTyped ==
    ASSUME TypeOK, NEW r \in Requests
    PROVE  ItemsOf(r) \subseteq Item
<1> SUFFICES ASSUME NEW i \in DOMAIN stamped[r]
             PROVE  [req |-> r, svc |-> Batch[r][i].svc, name |-> Batch[r][i].name,
                     seq |-> stamped[r][i]] \in Item
  BY DEF ItemsOf
<1>1. stamped[r] \in Seq(Nat) /\ Batch[r] \in Seq([svc : Services, name : Names])
      /\ Len(stamped[r]) <= Len(Batch[r])
  BY RequestAssumption DEF TypeOK
<1>2. stamped[r][i] \in Nat /\ i \in DOMAIN Batch[r]
  BY <1>1
<1>3. Batch[r][i] \in [svc : Services, name : Names]
  <2> DEFINE T == [svc : Services, name : Names]
  <2>1. Batch[r] \in Seq(T)
    BY <1>1
  <2> HIDE DEF T
  <2>2. Batch[r][i] \in T
    BY <1>2, <2>1
  <2> QED BY <2>2 DEF T
<1> QED BY <1>2, <1>3 DEF Item

(* What a section that reads items adds to its call.  Log entries and spans
   in the window are all taken; of the metrics, unless the call says that
   there were too many, one sample of every telling series.                *)
ReadBy(c) == Window(About(Here(c), call[c].scope), call[c].since.value)

LEMMA ItemsRead ==
    ASSUME TypeOK, NEW c \in Sessions, ReadItems(c)
    PROVE  \E shown \in SUBSET ReadBy(c), cut \in BOOLEAN :
              /\ call' = [call EXCEPT ![c] = [call[c] EXCEPT !.seen = call[c].seen \cup shown,
                                                            !.cut = cut,
                                                            !.todo = Tail(call[c].todo)]]
              /\ Here(c) # "metrics" => cut = call[c].cut /\ shown = ReadBy(c)
              /\ Here(c) = "metrics" => cut \/ SeriesIn(Telling(ReadBy(c))) = SeriesIn(shown)
<1>1. call[c] \in CallType /\ call \in [Sessions -> CallType]
  BY DEF TypeOK
<1> DEFINE items == About(Here(c), call[c].scope)
           since == call[c].since.value
<1>2. CASE Here(c) # "metrics"
  <2> DEFINE new == [call[c] EXCEPT !.seen = call[c].seen \cup ReadBy(c),
                                    !.todo = Tail(call[c].todo)]
             old == [call[c] EXCEPT !.seen = call[c].seen \cup ReadBy(c),
                                    !.cut = call[c].cut,
                                    !.todo = Tail(call[c].todo)]
  <2>1. call' = [call EXCEPT ![c] = new]
    BY <1>1, <1>2 DEF ReadItems, ReadBy
  <2>2. new = old
    <3> HIDE DEF ReadBy
    <3> QED BY <1>1 DEF CallType
  <2>3. call[c].cut \in BOOLEAN
    BY <1>1 DEF CallType
  <2> QED BY <1>2, <2>1, <2>2, <2>3
<1>3. CASE Here(c) = "metrics"
  <2>0. PICK latest \in Latest(Telling(items), since) :
            \E shown \in Truncated(latest) :
               call' = [call EXCEPT ![c].seen = @ \cup shown,
                                    ![c].cut = TooMany(latest),
                                    ![c].todo = Tail(@)]
    BY <1>3 DEF ReadItems
  <2>1. PICK shown \in Truncated(latest) :
            call' = [call EXCEPT ![c].seen = @ \cup shown,
                                 ![c].cut = TooMany(latest),
                                 ![c].todo = Tail(@)]
    BY <2>0
  <2>2. /\ latest \subseteq Window(Telling(items), since)
        /\ SeriesIn(latest) = SeriesIn(Window(Telling(items), since))
    BY <2>0 DEF Latest
  <2>3. Window(Telling(items), since) = Telling(ReadBy(c))
    BY DEF Window, Telling, ReadBy
  <2>4. shown \subseteq latest /\ (TooMany(latest) \/ shown = latest)
    BY <2>1 DEF Truncated, TooMany
  <2>5. shown \in SUBSET ReadBy(c)
    BY <2>2, <2>3, <2>4 DEF Telling
  <2>6. TooMany(latest) \in BOOLEAN
    BY DEF TooMany
  <2>7. call' = [call EXCEPT ![c] = [call[c] EXCEPT !.seen = call[c].seen \cup shown,
                                                   !.cut = TooMany(latest),
                                                   !.todo = Tail(call[c].todo)]]
    BY <1>1, <2>1
  <2>8. TooMany(latest) \/ SeriesIn(Telling(ReadBy(c))) = SeriesIn(shown)
    BY <2>2, <2>3, <2>4
  <2> QED BY <1>3, <2>5, <2>6, <2>7, <2>8
<1> QED BY <1>2, <1>3

LEMMA TypeInit == Init => TypeOK
<1> SUFFICES ASSUME Init PROVE TypeOK
  OBVIOUS
<1>1. call \in [Sessions -> CallType]
  BY NoCallTyped DEF Init
<1>2. \A r \in Requests : Len(stamped[r]) = 0 /\ Len(Batch[r]) \in Nat
  BY RequestAssumption DEF Init
<1>3. \A r \in Requests : Len(stamped[r]) <= Len(Batch[r])
  BY <1>2
<1> QED BY <1>1, <1>3 DEF Init, TypeOK

LEMMA TypeStep == TypeOK /\ [Next]_vars => TypeOK'
<1> SUFFICES ASSUME TypeOK, [Next]_vars PROVE TypeOK'
  OBVIOUS
<1>1. ASSUME NEW r \in Requests, Stamp(r) PROVE TypeOK'
  <2>1. stamped[r] \in Seq(Nat) /\ Batch[r] \in Seq([svc : Services, name : Names])
        /\ counter \in Nat
    BY RequestAssumption DEF TypeOK
  <2>2. Append(stamped[r], counter) \in Seq(Nat)
        /\ Len(Append(stamped[r], counter)) = Len(stamped[r]) + 1
    BY <2>1
  <2>3. Len(Append(stamped[r], counter)) <= Len(Batch[r])
    BY <1>1, <2>1, <2>2 DEF Stamp
  <2>4. stamped' \in [Requests -> Seq(Nat)] /\ stamped'[r] = Append(stamped[r], counter)
        /\ \A q \in Requests \ {r} : stamped'[q] = stamped[q]
    BY <1>1, <2>2 DEF Stamp, TypeOK
  <2>5. counter' \in Nat /\ answer[r] = "none"
    BY <1>1, <2>1 DEF Stamp, Advanced
  <2>6. UNCHANGED <<store, answer, call, tokens>>
    BY <1>1 DEF Stamp, callVars
  <2> QED BY <2>3, <2>4, <2>5, <2>6 DEF TypeOK
<1>2. ASSUME NEW r \in Requests, Store(r) PROVE TypeOK'
  <2>1. store' \in [Signals -> SUBSET Item]
    BY <1>2, ItemsTyped DEF Store, TypeOK
  <2>2. answer' \in [Requests -> {"none", "acked", "rejected"}]
        /\ \A q \in Requests \ {r} : answer'[q] = answer[q]
    BY <1>2 DEF Store, TypeOK
  <2>3. UNCHANGED <<counter, stamped, call, tokens>> /\ Len(stamped[r]) = Len(Batch[r])
    BY <1>2 DEF Store, callVars, Prepared
  <2> QED BY <2>1, <2>2, <2>3 DEF TypeOK
<1>3. ASSUME NEW r \in Requests, Reject(r) PROVE TypeOK'
  <2>1. answer' \in [Requests -> {"none", "acked", "rejected"}]
        /\ \A q \in Requests \ {r} : answer'[q] = answer[q]
    BY <1>3 DEF Reject, TypeOK
  <2>2. UNCHANGED <<counter, store, stamped, call, tokens>> /\ Len(stamped[r]) = Len(Batch[r])
    BY <1>3 DEF Reject, callVars, Prepared
  <2> QED BY <2>1, <2>2 DEF TypeOK
<1>4. ASSUME NEW g \in Signals, Evict(g) PROVE TypeOK'
  <2>1. store' \in [Signals -> SUBSET Item]
    BY <1>4 DEF Evict, TypeOK
  <2> QED BY <1>4, <2>1 DEF Evict, TypeOK, callVars, requestVars
<1>5. ASSUME NEW c \in Sessions, NEW tool \in Offered[c], NEW scope \in Scopes,
             NEW since \in tokens \cup {NoSince}, Begin(c, tool, scope, since)
      PROVE TypeOK'
  <2>1. tool \in DOMAIN Tools /\ Tools[tool] \in Seq(SectionType)
    BY OfferedAssumption, ToolsTyped
  <2>2. since \in Token
    BY DEF TypeOK, NoSince, Token
  <2>3. [NoCall EXCEPT !.tool = tool, !.scope = scope, !.since = since,
                       !.todo = Tools[tool], !.acked = Acked] \in CallType
    BY <2>1, <2>2, NoCallTyped DEF CallType, Acked
  <2>4. call' \in [Sessions -> CallType]
    BY <1>5, <2>3 DEF Begin, TypeOK
  <2> QED BY <1>5, <2>4 DEF Begin, TypeOK, requestVars
<1>6. ASSUME NEW c \in Sessions, ReadNames(c) PROVE TypeOK'
  <2>1. Busy(c) /\ Here(c) \in Signals /\ Tail(call[c].todo) \in Seq(SectionType)
    BY <1>6, HereTyped DEF ReadNames, Doing
  <2>2. ServicesIn(Here(c)) \subseteq Services
    BY <2>1 DEF ServicesIn, TypeOK, Item
  <2>3. NamesSoFar(call[c].names, Here(c)) \subseteq Services
    BY <2>2 DEF NamesSoFar, TypeOK, CallType
  <2>4. PICK rest \in Seq(SectionType) :
            call' = [call EXCEPT ![c].names = NamesSoFar(call[c].names, Here(c)),
                                 ![c].todo = rest]
    <3>1. <<>> \in Seq(SectionType)
      OBVIOUS
    <3> QED BY <1>6, <2>1, <3>1 DEF ReadNames
  <2>5. call' \in [Sessions -> CallType]
    BY <2>3, <2>4, ZenonT(60) DEF TypeOK, CallType
  <2> QED BY <1>6, <2>5 DEF ReadNames, TypeOK, requestVars
<1>7. ASSUME NEW c \in Sessions, ReadCursor(c) PROVE TypeOK'
  <2>1. Tail(call[c].todo) \in Seq(SectionType)
    BY <1>7, HereTyped DEF ReadCursor, Doing
  <2>2. call' \in [Sessions -> CallType]
    BY <1>7, <2>1, ZenonT(60) DEF ReadCursor, TypeOK, CallType
  <2>3. tokens' \subseteq Token
    BY <1>7, CheckpointTyped DEF ReadCursor, TypeOK
  <2> QED BY <1>7, <2>2, <2>3 DEF ReadCursor, TypeOK, requestVars
<1>8. ASSUME NEW c \in Sessions, ReadItems(c) PROVE TypeOK'
  <2>1. Busy(c) /\ Here(c) \in Signals /\ Tail(call[c].todo) \in Seq(SectionType)
    BY <1>8, HereTyped DEF ReadItems, Doing
  <2>2. ReadBy(c) \subseteq Item
    BY <2>1 DEF ReadBy, Window, About, TypeOK
  <2>3. call' \in [Sessions -> CallType]
    <3>1. PICK shown \in SUBSET ReadBy(c), cut \in BOOLEAN :
             call' = [call EXCEPT ![c] = [call[c] EXCEPT !.seen = call[c].seen \cup shown,
                                                         !.cut = cut,
                                                         !.todo = Tail(call[c].todo)]]
      BY <1>8, ItemsRead
    <3>2. call[c] \in CallType /\ call \in [Sessions -> CallType]
      BY DEF TypeOK
    <3>3. call[c].seen \cup shown \subseteq Item
      BY <2>2, <3>2 DEF CallType
    <3>4. [call[c] EXCEPT !.seen = call[c].seen \cup shown, !.cut = cut,
                          !.todo = Tail(call[c].todo)] \in CallType
      BY <2>1, <3>2, <3>3, ZenonT(60) DEF CallType
    <3> QED BY <3>1, <3>2, <3>4
  <2> QED BY <1>8, <2>3 DEF ReadItems, TypeOK, requestVars
<1>9. ASSUME NEW c \in Sessions, ClearStore(c) PROVE TypeOK'
  <2>1. Tail(call[c].todo) \in Seq(SectionType)
    BY <1>9, HereTyped DEF ClearStore, Doing
  <2>2. call' \in [Sessions -> CallType]
    BY <1>9, <2>1, ZenonT(60) DEF ClearStore, TypeOK, CallType
  <2>3. store' \in [Signals -> SUBSET Item]
    BY <1>9 DEF ClearStore, TypeOK
  <2> QED BY <1>9, <2>2, <2>3 DEF ClearStore, TypeOK, requestVars
<1>10. CASE UNCHANGED vars
  BY <1>10 DEF vars, TypeOK
<1> QED BY <1>1, <1>2, <1>3, <1>4, <1>5, <1>6, <1>7, <1>8, <1>9, <1>10 DEF Next

(* Every variable of the cursor keeps its type, and a request is answered only
   with all its items stamped.                                             *)
THEOREM TypeInvariant == Spec => []TypeOK
BY TypeInit, TypeStep, PTL DEF Spec

-----------------------------------------------------------------------------
(* Only Stamp touches the numbers, the counter and the set of requests that
   are still drawing.                                                      *)
LEMMA NumbersInit == Init => NumbersAreUnique
BY DEF Init, NumbersAreUnique

LEMMA NumbersStep == TypeOK /\ NumbersAreUnique /\ [Next]_vars => NumbersAreUnique'
<1> SUFFICES ASSUME TypeOK, NumbersAreUnique, [Next]_vars PROVE NumbersAreUnique'
  OBVIOUS
<1>1. ASSUME NEW r \in Requests, Stamp(r) PROVE NumbersAreUnique'
  <2> DEFINE n == Len(stamped[r]) + 1
  <2>1. stamped[r] \in Seq(Nat) /\ counter \in Nat
    BY DEF TypeOK
  <2>2. /\ stamped'[r] = Append(stamped[r], counter)
        /\ \A q \in Requests \ {r} : stamped'[q] = stamped[q]
        /\ counter' = counter + 1
    BY <1>1 DEF Stamp, Advanced, TypeOK
  <2>3. /\ DOMAIN stamped'[r] = DOMAIN stamped[r] \cup {n}
        /\ n \notin DOMAIN stamped[r]
        /\ stamped'[r][n] = counter
        /\ \A i \in DOMAIN stamped[r] : stamped'[r][i] = stamped[r][i]
    BY <2>1, <2>2
  <2>4. ASSUME NEW q \in Requests, NEW i \in DOMAIN stamped'[q]
        PROVE  \/ i \in DOMAIN stamped[q] /\ stamped'[q][i] = stamped[q][i]
               \/ q = r /\ i = n /\ stamped'[q][i] = counter
    BY <2>2, <2>3
  <2>5. \A q \in Requests : \A i \in DOMAIN stamped[q] :
           stamped[q][i] \in Nat /\ stamped[q][i] < counter
    BY DEF TypeOK, NumbersAreUnique
  <2> SUFFICES ASSUME NEW r1 \in Requests, NEW r2 \in Requests,
                      NEW i \in DOMAIN stamped'[r1], NEW j \in DOMAIN stamped'[r2]
               PROVE  /\ stamped'[r1][i] < counter'
                      /\ stamped'[r1][i] = stamped'[r2][j] => r1 = r2 /\ i = j
    BY DEF NumbersAreUnique
  <2>6. stamped'[r1][i] < counter'
    BY <2>1, <2>2, <2>4, <2>5
  <2>7. ASSUME stamped'[r1][i] = stamped'[r2][j] PROVE r1 = r2 /\ i = j
    <3>1. CASE i \in DOMAIN stamped[r1] /\ stamped'[r1][i] = stamped[r1][i]
      <4>1. stamped'[r2][j] # counter
        BY <2>1, <2>5, <2>7, <3>1
      <4>2. j \in DOMAIN stamped[r2] /\ stamped'[r2][j] = stamped[r2][j]
        BY <2>4, <4>1
      <4>3. stamped[r1][i] = stamped[r2][j]
        BY <2>7, <3>1, <4>2
      <4> QED BY <3>1, <4>2, <4>3 DEF NumbersAreUnique
    <3>2. CASE r1 = r /\ i = n /\ stamped'[r1][i] = counter
      <4>1. stamped'[r2][j] = counter
        BY <2>7, <3>2
      <4>2. ~(j \in DOMAIN stamped[r2] /\ stamped'[r2][j] = stamped[r2][j])
        BY <2>1, <2>5, <4>1
      <4>3. r2 = r /\ j = n
        BY <2>4, <4>2
      <4> QED BY <3>2, <4>3
    <3> QED BY <2>4, <3>1, <3>2
  <2> QED BY <2>6, <2>7
<1>2. ASSUME UNCHANGED <<stamped, counter>> PROVE NumbersAreUnique'
  BY <1>2 DEF NumbersAreUnique
<1> QED
  BY <1>1, <1>2, ZenonT(60) DEF Next, vars, Store, Reject, Evict, Begin, ReadNames, ReadCursor,
                    ReadItems, ClearStore, requestVars

(* However the fetch_adds of the requests interleave, no two items carry the
   same number and every number is below the counter.                      *)
THEOREM NumbersAlwaysUnique == Spec => []NumbersAreUnique
<1>1. TypeOK /\ NumbersAreUnique /\ [Next]_vars => (TypeOK /\ NumbersAreUnique)'
  BY TypeStep, NumbersStep
<1> QED BY TypeInit, NumbersInit, <1>1, PTL DEF Spec

-----------------------------------------------------------------------------
(* The item carries a number its request has drawn.                        *)
HasItsNumber(x) == \E i \in DOMAIN stamped[x.req] : x.seq = stamped[x.req][i]

(* What is stored belongs to an acknowledged request.                      *)
StoredIsAcked ==
    \A g \in Signals : \A x \in store[g] :
        answer[x.req] = "acked" /\ HasItsNumber(x) /\ Signal[x.req] = g

(* The token is above every number of the requests acknowledged before it. *)
Covers(token) ==
    \A r \in token.acked :
        answer[r] = "acked" /\ \A i \in DOMAIN stamped[r] : stamped[r][i] < token.value

TokensCover ==
    /\ \A token \in tokens : Covers(token)
    /\ \A c \in Sessions : Covers(call[c].since)

(* What a call has collected passed its filter.                            *)
ReportsAreFiltered ==
    \A c \in Sessions : \A x \in call[c].seen :
        x.seq >= call[c].since.value /\ answer[x.req] = "acked" /\ HasItsNumber(x)

CursorInv ==
    TypeOK /\ NumbersAreUnique /\ StoredIsAcked /\ TokensCover /\ ReportsAreFiltered

LEMMA CursorInvImplies == CursorInv => OldTelemetryStaysOut
<1> SUFFICES ASSUME CursorInv, NEW c \in Sessions, NEW x \in call[c].seen,
                    x.req \in call[c].since.acked
             PROVE  FALSE
  BY DEF OldTelemetryStaysOut
<1>1. call[c] \in CallType /\ x \in Item
  BY DEF CursorInv, TypeOK, CallType
<1>2. x.seq \in Nat /\ call[c].since.value \in Int
  BY <1>1 DEF CallType, Item, Token
<1>3. PICK i \in DOMAIN stamped[x.req] : x.seq = stamped[x.req][i]
  BY DEF CursorInv, ReportsAreFiltered, HasItsNumber
<1>4. stamped[x.req][i] < call[c].since.value
  BY <1>3 DEF CursorInv, TokensCover, Covers
<1>5. x.seq >= call[c].since.value
  BY DEF CursorInv, ReportsAreFiltered
<1> QED BY <1>2, <1>3, <1>4, <1>5

LEMMA CheckpointCovers == CursorInv => Covers(Checkpoint)
<1> SUFFICES ASSUME CursorInv, NEW r \in Checkpoint.acked
             PROVE  answer[r] = "acked"
                    /\ \A i \in DOMAIN stamped[r] : stamped[r][i] < Checkpoint.value
  BY DEF Covers
<1> QED BY DEF Checkpoint, Acked, CursorInv, NumbersAreUnique

(* An acknowledged request draws no more numbers, so what has been recorded
   about it stays true.                                                    *)
LEMMA AckedIsSettled ==
    ASSUME TypeOK, [Next]_vars, NEW r \in Requests, answer[r] = "acked"
    PROVE  answer'[r] = "acked" /\ stamped'[r] = stamped[r]
<1>1. ASSUME NEW q \in Requests, Stamp(q) PROVE answer'[r] = "acked" /\ stamped'[r] = stamped[r]
  BY <1>1 DEF Stamp, TypeOK
<1>2. ASSUME NEW q \in Requests, Store(q) \/ Reject(q)
      PROVE answer'[r] = "acked" /\ stamped'[r] = stamped[r]
  BY <1>2 DEF Store, Reject, TypeOK
<1>3. ASSUME UNCHANGED <<stamped, answer>> PROVE answer'[r] = "acked" /\ stamped'[r] = stamped[r]
  BY <1>3
<1> QED
  BY <1>1, <1>2, <1>3, ZenonT(60) DEF Next, vars, Evict, Begin, ReadNames, ReadCursor,
                          ReadItems, ClearStore, requestVars

LEMMA CursorInvInit == Init => CursorInv
<1>1. Init => StoredIsAcked
  BY DEF Init, StoredIsAcked
<1>2. Init => TokensCover
  BY DEF Init, TokensCover, Covers, NoCall, NoSince
<1>3. Init => ReportsAreFiltered
  BY DEF Init, ReportsAreFiltered, NoCall
<1> QED BY <1>1, <1>2, <1>3, TypeInit, NumbersInit DEF CursorInv

LEMMA StoredStep == CursorInv /\ [Next]_vars => StoredIsAcked'
<1> SUFFICES ASSUME CursorInv, [Next]_vars, NEW g \in Signals, NEW x \in store'[g]
             PROVE  answer'[x.req] = "acked" /\ HasItsNumber(x)' /\ Signal[x.req] = g
  BY DEF StoredIsAcked
<1> USE DEF CursorInv
<1>1. ASSUME x \in store[g]
      PROVE answer'[x.req] = "acked" /\ HasItsNumber(x)' /\ Signal[x.req] = g
  <2>1. x.req \in Requests
    BY <1>1 DEF TypeOK, Item
  <2>2. answer[x.req] = "acked" /\ HasItsNumber(x) /\ Signal[x.req] = g
    BY <1>1 DEF StoredIsAcked
  <2>3. answer'[x.req] = "acked" /\ stamped'[x.req] = stamped[x.req]
    BY <2>1, <2>2, AckedIsSettled
  <2> QED BY <2>2, <2>3 DEF HasItsNumber
<1>2. ASSUME NEW r \in Requests, Store(r), x \in ItemsOf(r), g = Signal[r]
      PROVE answer'[x.req] = "acked" /\ HasItsNumber(x)' /\ Signal[x.req] = g
  <2>1. PICK i \in DOMAIN stamped[r] :
            x = [req |-> r, svc |-> Batch[r][i].svc, name |-> Batch[r][i].name,
                 seq |-> stamped[r][i]]
    BY <1>2 DEF ItemsOf
  <2>2. x.req = r /\ x.seq = stamped[r][i]
    BY <2>1
  <2>3. answer'[r] = "acked" /\ stamped' = stamped
    BY <1>2 DEF Store, TypeOK
  <2> QED BY <1>2, <2>1, <2>2, <2>3 DEF HasItsNumber
<1>3. ASSUME NEW r \in Requests, Store(r)
      PROVE x \in store[g] \/ (x \in ItemsOf(r) /\ g = Signal[r])
  BY <1>3 DEF Store, TypeOK
<1>4. ASSUME NEW h \in Signals, Evict(h) PROVE x \in store[g]
  BY <1>4 DEF Evict, TypeOK
<1>5. ASSUME NEW c \in Sessions, ClearStore(c) PROVE x \in store[g]
  BY <1>5 DEF ClearStore, TypeOK
<1>6. ASSUME UNCHANGED store PROVE x \in store[g]
  BY <1>6
<1> QED
  BY <1>1, <1>2, <1>3, <1>4, <1>5, <1>6
     DEF Next, vars, Stamp, Reject, Begin, ReadNames, ReadCursor, ReadItems

(* A step of a running call changes neither its checkpoint nor, unless it
   reads items, what it has seen.                                          *)
LEMMA RunningCall ==
    ASSUME TypeOK, NEW c \in Sessions, NEW d \in Sessions,
           ReadNames(d) \/ ReadCursor(d) \/ ReadItems(d) \/ ClearStore(d)
    PROVE  /\ call'[c].since = call[c].since
           /\ (ReadItems(d) /\ c = d) \/ call'[c].seen = call[c].seen
<1>1. call[d] \in CallType /\ call[c] \in CallType
  BY DEF TypeOK
<1>2. CASE ReadNames(d)
  <2>1. PICK names, rest : call' = [call EXCEPT ![d].names = names, ![d].todo = rest]
    BY <1>2 DEF ReadNames
  <2> QED BY <1>1, <2>1 DEF CallType, TypeOK
<1>3. CASE ReadCursor(d) \/ ClearStore(d)
  <2>1. call' = [call EXCEPT ![d].todo = Tail(@)]
    BY <1>3 DEF ReadCursor, ClearStore
  <2> QED BY <1>1, <2>1 DEF CallType, TypeOK
<1>4. CASE ReadItems(d)
  <2>1. PICK seen, cut, todo :
            call' = [call EXCEPT ![d] = [call[d] EXCEPT !.seen = seen, !.cut = cut, !.todo = todo]]
    <3>1. PICK shown \in SUBSET ReadBy(d), cut \in BOOLEAN :
             call' = [call EXCEPT ![d] = [call[d] EXCEPT !.seen = call[d].seen \cup shown,
                                                         !.cut = cut,
                                                         !.todo = Tail(call[d].todo)]]
      BY <1>4, ItemsRead
    <3> QED BY <3>1
  <2> QED BY <1>1, <1>4, <2>1 DEF CallType, TypeOK
<1> QED BY <1>2, <1>3, <1>4

LEMMA TokensStep == CursorInv /\ [Next]_vars => TokensCover'
<1> SUFFICES ASSUME CursorInv, [Next]_vars PROVE TokensCover'
  OBVIOUS
<1> USE DEF CursorInv
<1>1. ASSUME NEW token \in Token, Covers(token) PROVE Covers(token)'
  <2> SUFFICES ASSUME NEW r \in token.acked
               PROVE  /\ answer'[r] = "acked"
                      /\ \A i \in DOMAIN stamped'[r] : stamped'[r][i] < token.value
    BY DEF Covers
  <2>1. r \in Requests /\ answer[r] = "acked"
    BY <1>1 DEF Token, Covers
  <2>2. answer'[r] = "acked" /\ stamped'[r] = stamped[r]
    BY <2>1, AckedIsSettled
  <2> QED BY <1>1, <2>2 DEF Covers
<1>2. ASSUME NEW token \in tokens' PROVE Covers(token)'
  <2>1. token \in tokens \/ token = Checkpoint
    BY <1>2 DEF Next, vars, Stamp, Store, Reject, Evict, Begin, ReadNames, ReadCursor,
                ReadItems, ClearStore, callVars
  <2>2. token \in Token /\ Covers(token)
    BY <2>1, CheckpointTyped, CheckpointCovers DEF TypeOK, TokensCover
  <2> QED BY <1>1, <2>2
<1>3. ASSUME NEW c \in Sessions PROVE Covers(call[c].since)'
  <2>1. call[c].since \in Token /\ Covers(call[c].since) /\ Covers(NoSince) /\ NoSince \in Token
    BY DEF TypeOK, CallType, TokensCover, Covers, NoSince, Token
  <2>2. call'[c].since = call[c].since \/ call'[c].since \in tokens \cup {NoSince}
    <3>1. ASSUME NEW d \in Sessions, NEW tool \in Offered[d], NEW scope \in Scopes,
                 NEW since \in tokens \cup {NoSince}, Begin(d, tool, scope, since)
          PROVE  call'[c].since = call[c].since \/ call'[c].since \in tokens \cup {NoSince}
      BY <3>1 DEF Begin, TypeOK, NoCall
    <3>2. ASSUME NEW d \in Sessions,
                 ReadNames(d) \/ ReadCursor(d) \/ ReadItems(d) \/ ClearStore(d)
          PROVE  call'[c].since = call[c].since
      BY <3>2, RunningCall
    <3>3. ASSUME UNCHANGED call PROVE call'[c].since = call[c].since
      BY <3>3
    <3> QED BY <3>1, <3>2, <3>3 DEF Next, vars, Stamp, Store, Reject, Evict, callVars
  <2>3. call'[c].since \in Token /\ Covers(call'[c].since)
    BY <2>1, <2>2 DEF TypeOK, TokensCover
  <2>4. \A token \in Token : Covers(token) => Covers(token)'
    BY <1>1
  <2> QED BY <2>3, <2>4 DEF Covers
<1> QED BY <1>2, <1>3 DEF TokensCover

LEMMA ReportsStep == CursorInv /\ [Next]_vars => ReportsAreFiltered'
<1> SUFFICES ASSUME CursorInv, [Next]_vars, NEW c \in Sessions, NEW x \in call'[c].seen
             PROVE  /\ x.seq >= call'[c].since.value
                    /\ answer'[x.req] = "acked"
                    /\ HasItsNumber(x)'
  BY DEF ReportsAreFiltered
<1> USE DEF CursorInv
<1>1. ASSUME x.req \in Requests, answer[x.req] = "acked", HasItsNumber(x)
      PROVE answer'[x.req] = "acked" /\ HasItsNumber(x)'
  <2>1. answer'[x.req] = "acked" /\ stamped'[x.req] = stamped[x.req]
    BY <1>1, AckedIsSettled
  <2> QED BY <1>1, <2>1 DEF HasItsNumber
<1>2. ASSUME x \in call[c].seen, call'[c].since = call[c].since
      PROVE  /\ x.seq >= call'[c].since.value
             /\ answer'[x.req] = "acked"
             /\ HasItsNumber(x)'
  <2>1. x.req \in Requests
    BY <1>2 DEF TypeOK, CallType, Item
  <2> QED BY <1>1, <1>2, <2>1 DEF ReportsAreFiltered
<1>3. ASSUME NEW d \in Sessions, NEW tool \in Offered[d], NEW scope \in Scopes,
             NEW since \in tokens \cup {NoSince}, Begin(d, tool, scope, since)
      PROVE  x \in call[c].seen /\ call'[c].since = call[c].since
  <2>1. CASE c = d
    <3>1. call'[c].seen = {}
      BY <1>3, <2>1 DEF Begin, TypeOK, NoCall
    <3> QED BY <3>1
  <2>2. CASE c # d
    BY <1>3, <2>2 DEF Begin, TypeOK
  <2> QED BY <2>1, <2>2
<1>4. ASSUME NEW d \in Sessions,
             ReadNames(d) \/ ReadCursor(d) \/ ReadItems(d) \/ ClearStore(d),
             ~(ReadItems(d) /\ c = d)
      PROVE  x \in call[c].seen /\ call'[c].since = call[c].since
  BY <1>4, RunningCall
<1>5. ASSUME ReadItems(c)
      PROVE  /\ x.seq >= call'[c].since.value
             /\ answer'[x.req] = "acked"
             /\ HasItsNumber(x)'
  <2>1. call'[c].since = call[c].since
    BY <1>5, RunningCall
  <2>2. CASE x \in call[c].seen
    BY <1>2, <2>1, <2>2
  <2>3. CASE x \notin call[c].seen
    <3>1. x \in About(Here(c), call[c].scope) /\ Keep(call[c].since.value, x.seq)
      <4>1. call[c] \in CallType
        BY DEF TypeOK
      <4>2. PICK shown \in SUBSET ReadBy(c), cut \in BOOLEAN :
               call' = [call EXCEPT ![c] = [call[c] EXCEPT !.seen = call[c].seen \cup shown,
                                                           !.cut = cut,
                                                           !.todo = Tail(call[c].todo)]]
        BY <1>5, ItemsRead
      <4>3. call'[c].seen = call[c].seen \cup shown
        BY <4>1, <4>2 DEF TypeOK, CallType
      <4> QED BY <2>3, <4>3 DEF ReadBy, Window
    <3>2. Here(c) \in Signals
      BY <1>5, HereTyped DEF ReadItems, Doing
    <3>3. x \in store[Here(c)]
      BY <3>1, <3>2 DEF About
    <3>4. x.req \in Requests /\ answer[x.req] = "acked" /\ HasItsNumber(x)
      BY <3>2, <3>3 DEF TypeOK, Item, StoredIsAcked
    <3> QED BY <1>1, <2>1, <3>1, <3>4 DEF Keep
  <2> QED BY <2>2, <2>3
<1>6. ASSUME UNCHANGED call PROVE x \in call[c].seen /\ call'[c].since = call[c].since
  BY <1>6
<1> QED
  BY <1>2, <1>3, <1>4, <1>5, <1>6 DEF Next, vars, Stamp, Store, Reject, Evict, callVars

(* However requests, calls and eviction interleave, a summary since a
   checkpoint reports nothing acknowledged before the checkpoint.          *)
THEOREM OldTelemetryAlwaysStaysOut == Spec => []OldTelemetryStaysOut
<1>1. CursorInv /\ [Next]_vars => CursorInv'
  BY TypeStep, NumbersStep, StoredStep, TokensStep, ReportsStep DEF CursorInv
<1> QED BY CursorInvInit, <1>1, CursorInvImplies, PTL DEF Spec
-----------------------------------------------------------------------------
(* Section does of store g is still ahead of session c.                    *)
Ahead(c, does, g) == \E i \in DOMAIN call[c].todo : call[c].todo[i] = Section(does, g)

Resets == {"reset", "http_reset"}
Listings == {"list_services", "check_health", "summarize_activity"}

(* A call reads names before anything else and clears the traces last; only
   a reset clears at all, and only a listing reads names.                  *)
InOrder(todo) ==
    \A i, j \in DOMAIN todo : i < j =>
        /\ todo[j].does = "names" => todo[i].does = "names"
        /\ todo[j].does = "clear" => todo[i] # Section("clear", "traces")

OrderOf(c) ==
    /\ InOrder(call[c].todo)
    /\ call[c].tool \in Resets \/ \A g \in Signals : ~Ahead(c, "clear", g)
    /\ call[c].tool \in Listings \/ \A g \in Signals : ~Ahead(c, "names", g)

CallsInOrder == \A c \in Sessions : OrderOf(c)

(* What is remembered as acknowledged is acknowledged.                     *)
RemembersAcked ==
    /\ \A c \in Sessions : call[c].acked \subseteq Acked
    /\ \A rs \in wiped : rs[1] \in Acked

(* A request that had not begun at the checkpoint draws from its value on. *)
Bounds(token) ==
    /\ token.value <= counter
    /\ \A r \in Requests \ token.begun : \A i \in DOMAIN stamped[r] :
          stamped[r][i] >= token.value

TokensBound ==
    /\ \A token \in tokens : Bounds(token)
    /\ \A c \in Sessions : Bounds(call[c].since)

(* A store that a reset has left behind holds nothing it had to remove.    *)
ClearedBehind ==
    \A c \in Sessions : call[c].tool \in Resets =>
        \A g \in Signals : ~Ahead(c, "clear", g) =>
            \A x \in store[g] : x.req \in call[c].acked => ~InScope(x.svc, call[c].scope)

(* The services of a store whose names were read are among the names.      *)
NamedBehind ==
    \A c \in Sessions : call[c].tool \in Listings =>
        \A g \in Signals : ~Ahead(c, "names", g) =>
            \A x \in store[g] : x.req \in call[c].acked => x.svc \in call[c].names

(* The call ended because its service was unknown.                         *)
Refused(c) == ~Busy(c) /\ call[c].scope \notin call[c].names

(* The new items of a store the summary has visited are accounted for.     *)
SeenBehind ==
    \A c \in Sessions : call[c].tool = "summarize_activity" =>
        \A g \in Signals :
            \/ Ahead(c, "items", g)
            \/ Refused(c)
            \/ \A x \in store[g] :
                  /\ x.req \in call[c].acked \ call[c].since.begun
                  /\ x.svc = call[c].scope
                  => Reported(c, g, x)

ProgressInv ==
    CursorInv /\ CallsInOrder /\ RemembersAcked /\ TokensBound
    /\ ClearedBehind /\ NamedBehind /\ SeenBehind /\ ResetRemovesEarlierTelemetry

(* Without a section ahead of it, a finished call has left every store
   behind.                                                                 *)
LEMMA NothingAhead ==
    ASSUME NEW c \in Sessions, ~Busy(c), NEW does, NEW g
    PROVE  ~Ahead(c, does, g)
BY DEF Busy, Ahead

LEMMA ProgressImplies ==
    ProgressInv => NewTelemetryIsReported /\ ServicesAreListed
<1> SUFFICES ASSUME ProgressInv PROVE NewTelemetryIsReported /\ ServicesAreListed
  OBVIOUS
<1>1. ServicesAreListed
  <2> SUFFICES ASSUME NEW c \in Sessions, Finished(c), call[c].tool \in Listings,
                      NEW g \in Signals, NEW x \in store[g], x.req \in call[c].acked
               PROVE  x.svc \in call[c].names
    BY DEF ServicesAreListed, Listings
  <2> QED BY NothingAhead DEF Finished, ProgressInv, NamedBehind
<1>2. NewTelemetryIsReported
  <2> SUFFICES ASSUME NEW c \in Sessions, Summarized(c), NEW g \in Signals,
                      NEW x \in store[g], x.req \in call[c].acked,
                      x.req \notin call[c].since.begun, x.svc = call[c].scope
               PROVE  Reported(c, g, x)
    BY DEF NewTelemetryIsReported
  <2>1. ~Busy(c) /\ Finished(c) /\ call[c].tool = "summarize_activity"
    BY DEF Summarized, Finished
  <2>2. x.svc \in call[c].names
    BY <1>1, <2>1 DEF ServicesAreListed
  <2>3. ~Refused(c) /\ ~Ahead(c, "items", g)
    BY <2>1, <2>2, NothingAhead DEF Refused
  <2> QED BY <2>1, <2>3 DEF ProgressInv, SeenBehind
<1> QED BY <1>1, <1>2

(* The tools visit the stores they promise to, in the order the invariant
   needs.                                                                  *)
LEMMA ToolsInOrder ==
    ASSUME NEW tool \in DOMAIN Tools
    PROVE  /\ InOrder(Tools[tool])
           /\ tool \notin Resets =>
                 \A i \in DOMAIN Tools[tool] : Tools[tool][i].does # "clear"
           /\ tool \notin Listings =>
                 \A i \in DOMAIN Tools[tool] : Tools[tool][i].does # "names"
           /\ tool \in Resets =>
                 \A g \in Signals : \E i \in DOMAIN Tools[tool] : Tools[tool][i] = Section("clear", g)
           /\ tool \in Listings =>
                 \A g \in Signals : \E i \in DOMAIN Tools[tool] : Tools[tool][i] = Section("names", g)
           /\ tool = "summarize_activity" =>
                 \A g \in Signals : \E i \in DOMAIN Tools[tool] : Tools[tool][i] = Section("items", g)
<1>1. DOMAIN Tools = {"mark_checkpoint", "list_services", "check_health",
                      "summarize_activity", "reset", "http_reset"}
  BY DEF Tools
<1>2. CASE tool = "mark_checkpoint"
  <2>1. Tools[tool] = <<Section("cursor", "none")>>
    BY <1>2 DEF Tools
  <2> QED BY <1>2, <2>1 DEF InOrder, Section, Resets, Listings
<1>3. CASE tool = "list_services"
  <2>1. Tools[tool] = <<Section("names", "logs"), Section("names", "metrics"),
                        Section("names", "traces")>>
    BY <1>3 DEF Tools, ListServices
  <2> QED BY <1>3, <2>1 DEF InOrder, Section, Resets, Listings, Signals
<1>4. CASE tool = "check_health"
  <2>1. Tools[tool] = <<Section("names", "logs"), Section("names", "traces"),
                        Section("names", "metrics")>>
    BY <1>4 DEF Tools, CheckHealth
  <2> QED BY <1>4, <2>1 DEF InOrder, Section, Resets, Listings, Signals
<1>5. CASE tool = "summarize_activity"
  <2> DEFINE T == Tools[tool]
             N == ListServices
             I == <<Section("cursor", "none"), Section("items", "logs"),
                    Section("items", "traces"), Section("items", "metrics")>>
  <2>1. T = N \o I
    BY <1>5 DEF Tools, SummarizeActivity
  <2>2. N \in Seq(SectionType) /\ I \in Seq(SectionType) /\ Len(N) = 3 /\ Len(I) = 4
    BY DEF ListServices, Section, SectionType, Signals
  <2>3. DOMAIN T = 1 .. 7 /\ T[1] = N[1] /\ T[2] = N[2] /\ T[3] = N[3]
        /\ T[4] = I[1] /\ T[5] = I[2] /\ T[6] = I[3] /\ T[7] = I[4]
    <3> HIDE DEF N, I, T
    <3>1. N \in Seq(SectionType) /\ I \in Seq(SectionType)
      BY <2>2
    <3>2. /\ N \o I \in Seq(SectionType)
          /\ Len(N \o I) = Len(N) + Len(I)
          /\ \A i \in 1 .. Len(N) + Len(I) :
                (N \o I)[i] = IF i <= Len(N) THEN N[i] ELSE I[i - Len(N)]
      BY <3>1, ConcatProperties, Zenon
    <3> QED BY <2>1, <2>2, <3>2
  <2>4. /\ T[1] = Section("names", "logs") /\ T[2] = Section("names", "metrics")
        /\ T[3] = Section("names", "traces") /\ T[4] = Section("cursor", "none")
        /\ T[5] = Section("items", "logs") /\ T[6] = Section("items", "traces")
        /\ T[7] = Section("items", "metrics")
    <3> HIDE DEF T
    <3> QED BY <2>3 DEF ListServices
  <2> HIDE DEF T
  <2> QED BY <1>5, <2>3, <2>4 DEF T, InOrder, Section, Resets, Listings, Signals
<1>6. CASE tool = "reset"
  <2>1. Tools[tool] = <<Section("clear", "logs"), Section("clear", "metrics"),
                        Section("clear", "traces"), Section("cursor", "none")>>
    BY <1>6 DEF Tools, Reset
  <2> QED BY <1>6, <2>1 DEF InOrder, Section, Resets, Listings, Signals
<1>7. CASE tool = "http_reset"
  <2> DEFINE T == Tools[tool]
  <2>1. T = SubSeq(Reset, 1, 3)
    BY <1>7 DEF Tools
  <2>2. Reset \in Seq(SectionType) /\ Len(Reset) = 4
    BY DEF Reset, Section, SectionType, Signals
  <2>3. DOMAIN T = 1 .. 3 /\ T[1] = Reset[1] /\ T[2] = Reset[2] /\ T[3] = Reset[3]
    <3> HIDE DEF T
    <3> QED BY <2>1, <2>2
  <2>4. /\ T[1] = Section("clear", "logs") /\ T[2] = Section("clear", "metrics")
        /\ T[3] = Section("clear", "traces")
    <3> HIDE DEF T
    <3> QED BY <2>3 DEF Reset
  <2> HIDE DEF T
  <2> QED BY <1>7, <2>3, <2>4 DEF T, InOrder, Section, Resets, Listings, Signals
<1> QED BY <1>1, <1>2, <1>3, <1>4, <1>5, <1>6, <1>7

LEMMA ProgressInit == Init => ProgressInv
<1> SUFFICES ASSUME Init PROVE ProgressInv
  OBVIOUS
<1>1. \A c \in Sessions : call[c] = NoCall
  BY DEF Init
<1>2. \A c \in Sessions : /\ call[c].todo = <<>> /\ call[c].acked = {}
                          /\ call[c].tool = "none" /\ call[c].since = NoSince
  BY <1>1 DEF NoCall
<1>3. CallsInOrder
  BY <1>2 DEF CallsInOrder, OrderOf, InOrder, Ahead
<1>4. RemembersAcked
  BY <1>2 DEF Init, RemembersAcked
<1>5. TokensBound
  BY <1>2 DEF Init, TokensBound, Bounds, NoSince
<1>6. ClearedBehind /\ NamedBehind /\ SeenBehind
  BY <1>2 DEF ClearedBehind, NamedBehind, SeenBehind, Resets, Listings
<1>7. ResetRemovesEarlierTelemetry
  BY DEF Init, ResetRemovesEarlierTelemetry
<1> QED BY <1>3, <1>4, <1>5, <1>6, <1>7, CursorInvInit DEF ProgressInv

(* Nothing already acknowledged enters a store.                            *)
LEMMA StoresOnlyLose ==
    ASSUME CursorInv, [Next]_vars, NEW g \in Signals, NEW x \in store'[g], x.req \in Acked
    PROVE  x \in store[g]
<1> USE DEF CursorInv
<1>1. ASSUME NEW r \in Requests, Store(r) PROVE x \in store[g]
  <2>1. x \in store[g] \/ x \in ItemsOf(r)
    BY <1>1 DEF Store, TypeOK
  <2>2. ASSUME x \in ItemsOf(r) PROVE FALSE
    <3>1. x.req = r
      BY <2>2 DEF ItemsOf
    <3> QED BY <1>1, <3>1 DEF Store, Acked
  <2> QED BY <2>1, <2>2
<1>2. ASSUME NEW h \in Signals, Evict(h) PROVE x \in store[g]
  BY <1>2 DEF Evict, TypeOK
<1>3. ASSUME NEW c \in Sessions, ClearStore(c) PROVE x \in store[g]
  BY <1>3 DEF ClearStore, TypeOK
<1>4. ASSUME UNCHANGED store PROVE x \in store[g]
  BY <1>4
<1> QED
  BY <1>1, <1>2, <1>3, <1>4 DEF Next, vars, Stamp, Reject, Begin, ReadNames, ReadCursor, ReadItems

LEMMA AckedGrows ==
    ASSUME TypeOK, [Next]_vars
    PROVE  Acked \subseteq Acked'
BY AckedIsSettled DEF Acked

Step(c) == ReadNames(c) \/ ReadCursor(c) \/ ReadItems(c) \/ ClearStore(c)

(* The call ends early, after the last names it reads.                     *)
Refuses(c) ==
    /\ ReadNames(c)
    /\ call'[c].todo = <<>>
    /\ Tail(call[c].todo) # <<>> /\ Head(Tail(call[c].todo)).does # "names"
    /\ call'[c].scope \notin call'[c].names

(* What a step of a running call does to it.                               *)
LEMMA CallStep ==
    ASSUME TypeOK, NEW c \in Sessions, Step(c)
    PROVE  /\ Busy(c)
           /\ \A d \in Sessions \ {c} : call'[d] = call[d]
           /\ call'[c].tool = call[c].tool /\ call'[c].scope = call[c].scope
           /\ call'[c].since = call[c].since /\ call'[c].acked = call[c].acked
           /\ call[c].names \subseteq call'[c].names
           /\ call[c].seen \subseteq call'[c].seen
           /\ (ReadItems(c) /\ Here(c) = "metrics") \/ call'[c].cut = call[c].cut
           /\ ReadNames(c) => call'[c].names = call[c].names \cup ServicesIn(Here(c))
           /\ call'[c].todo = Tail(call[c].todo) \/ Refuses(c)
<1>1. call[c] \in CallType /\ call \in [Sessions -> CallType]
  BY DEF TypeOK
<1>2. CASE ReadNames(c)
  <2> DEFINE names == call[c].names \cup ServicesIn(Here(c))
             unknown == /\ Tail(call[c].todo) # <<>>
                        /\ Head(Tail(call[c].todo)).does # "names"
                        /\ call[c].scope \notin names
             rest == IF unknown THEN <<>> ELSE Tail(call[c].todo)
  <2>1. call' = [call EXCEPT ![c].names = names, ![c].todo = rest]
    BY <1>2 DEF ReadNames, NamesSoFar
  <2>2. rest = Tail(call[c].todo) \/ (rest = <<>> /\ unknown)
    OBVIOUS
  <2>3. Busy(c)
    BY <1>2 DEF ReadNames, Doing
  <2>4. /\ \A d \in Sessions \ {c} : call'[d] = call[d]
        /\ call'[c] = [call[c] EXCEPT !.names = names, !.todo = rest]
    <3> HIDE DEF names, rest
    <3> QED BY <1>1, <2>1
  <2>5. /\ call'[c].tool = call[c].tool /\ call'[c].scope = call[c].scope
        /\ call'[c].since = call[c].since /\ call'[c].acked = call[c].acked
        /\ call'[c].seen = call[c].seen /\ call'[c].cut = call[c].cut
        /\ call'[c].names = names /\ call'[c].todo = rest
    <3> HIDE DEF names, rest
    <3> QED BY <1>1, <2>4 DEF CallType
  <2> QED BY <1>2, <2>2, <2>3, <2>4, <2>5 DEF Refuses
<1>3. CASE ReadCursor(c) \/ ClearStore(c)
  <2>1. call' = [call EXCEPT ![c].todo = Tail(@)] /\ Busy(c)
    BY <1>3 DEF ReadCursor, ClearStore, Doing
  <2>2. ~ReadNames(c)
    BY <1>3 DEF ReadCursor, ClearStore, Doing, ReadNames
  <2> QED BY <1>1, <2>1, <2>2 DEF CallType
<1>4. CASE ReadItems(c)
  <2>1. PICK shown \in SUBSET ReadBy(c), cut \in BOOLEAN :
           /\ call' = [call EXCEPT ![c] = [call[c] EXCEPT !.seen = call[c].seen \cup shown,
                                                         !.cut = cut,
                                                         !.todo = Tail(call[c].todo)]]
           /\ Here(c) # "metrics" => cut = call[c].cut
    BY <1>4, ItemsRead
  <2>2. ~ReadNames(c) /\ Busy(c)
    BY <1>4 DEF ReadItems, Doing, ReadNames
  <2> QED BY <1>1, <1>4, <2>1, <2>2 DEF CallType
<1> QED BY <1>2, <1>3, <1>4 DEF Step

(* What is no longer ahead was done in this step or left before it.        *)
LEMMA LeavesBehind ==
    ASSUME TypeOK, NEW c \in Sessions, Step(c), NEW does, NEW g, Ahead(c, does, g),
           call'[c].todo = Tail(call[c].todo), ~Ahead(c, does, g)'
    PROVE  Head(call[c].todo) = Section(does, g)
<1>1. call[c].todo \in Seq(SectionType) /\ call[c].todo # <<>>
  BY CallStep DEF TypeOK, CallType, Busy
<1>2. PICK i \in DOMAIN call[c].todo : call[c].todo[i] = Section(does, g)
  BY DEF Ahead
<1>3. CASE i = 1
  BY <1>1, <1>2, <1>3
<1>4. CASE i # 1
  <2> DEFINE j == i - 1
  <2>1. j \in DOMAIN Tail(call[c].todo) /\ j + 1 = i
    BY <1>1, <1>2, <1>4
  <2>2. Tail(call[c].todo)[j] = call[c].todo[j + 1]
    BY <1>1, <2>1
  <2> QED BY <1>2, <2>1, <2>2 DEF Ahead
<1> QED BY <1>3, <1>4

(* Nothing comes to be ahead of a running call.                            *)
LEMMA AheadShrinks ==
    ASSUME TypeOK, NEW c \in Sessions, Step(c), NEW does, NEW g, Ahead(c, does, g)'
    PROVE  Ahead(c, does, g)
<1>1. call[c].todo \in Seq(SectionType) /\ call[c].todo # <<>>
  BY CallStep DEF TypeOK, CallType, Busy
<1>2. PICK i \in DOMAIN call'[c].todo : call'[c].todo[i] = Section(does, g)
  BY DEF Ahead
<1>3. call'[c].todo = Tail(call[c].todo)
  BY <1>2, CallStep DEF Refuses
<1>4. i + 1 \in DOMAIN call[c].todo /\ Tail(call[c].todo)[i] = call[c].todo[i + 1]
  BY <1>1, <1>2, <1>3
<1> QED BY <1>2, <1>3, <1>4 DEF Ahead

(* A call that begins has everything ahead of it and nothing behind.       *)
LEMMA CallBegins ==
    ASSUME TypeOK, NEW c \in Sessions, NEW tool \in Offered[c], NEW scope \in Scopes,
           NEW since \in tokens \cup {NoSince}, Begin(c, tool, scope, since)
    PROVE  /\ tool \in DOMAIN Tools
           /\ \A d \in Sessions \ {c} : call'[d] = call[d]
           /\ call'[c].tool = tool /\ call'[c].todo = Tools[tool]
           /\ call'[c].since = since /\ call'[c].acked = Acked
<1>1. tool \in DOMAIN Tools
  BY OfferedAssumption
<1> QED BY <1>1 DEF Begin, NoCall, TypeOK

(* Every step begins a call, carries one a section further, or leaves the
   calls alone.                                                            *)
LEMMA CallSteps ==
    ASSUME [Next]_vars
    PROVE  \/ \E c \in Sessions : \E tool \in Offered[c], scope \in Scopes,
                 since \in tokens \cup {NoSince} : Begin(c, tool, scope, since)
           \/ \E c \in Sessions : Step(c)
           \/ UNCHANGED call
BY DEF Next, Step, Stamp, Store, Reject, Evict, callVars, vars

LEMMA TodoTyped ==
    ASSUME TypeOK, NEW c \in Sessions
    PROVE  call[c].todo \in Seq(SectionType)
BY DEF TypeOK, CallType

LEMMA OrderStep == ProgressInv /\ [Next]_vars => CallsInOrder'
<1> SUFFICES ASSUME ProgressInv, [Next]_vars, NEW c \in Sessions
             PROVE  OrderOf(c)'
  BY DEF CallsInOrder, OrderOf, InOrder
<1>1. TypeOK /\ OrderOf(c)
  BY DEF ProgressInv, CursorInv, CallsInOrder
<1>2. ASSUME NEW tool \in Offered[c], NEW scope \in Scopes,
             NEW since \in tokens \cup {NoSince}, Begin(c, tool, scope, since)
      PROVE  OrderOf(c)'
  <2>1. tool \in DOMAIN Tools /\ call'[c].tool = tool /\ call'[c].todo = Tools[tool]
    BY <1>1, <1>2, CallBegins
  <2>2. /\ InOrder(Tools[tool])
        /\ tool \notin Resets =>
              \A i \in DOMAIN Tools[tool] : Tools[tool][i].does # "clear"
        /\ tool \notin Listings =>
              \A i \in DOMAIN Tools[tool] : Tools[tool][i].does # "names"
    BY <2>1, ToolsInOrder
  <2>3. /\ tool \notin Resets => \A g \in Signals : ~Ahead(c, "clear", g)'
        /\ tool \notin Listings => \A g \in Signals : ~Ahead(c, "names", g)'
    BY <2>1, <2>2 DEF Ahead, Section
  <2> QED BY <2>1, <2>2, <2>3 DEF InOrder, OrderOf
<1>3. ASSUME Step(c)
      PROVE  OrderOf(c)'
  <2>1. call[c].todo \in Seq(SectionType) /\ call[c].todo # <<>> /\ call'[c].tool = call[c].tool
    BY <1>1, <1>3, CallStep, TodoTyped DEF Busy
  <2>2. call'[c].todo = Tail(call[c].todo) \/ call'[c].todo = <<>>
    BY <1>1, <1>3, CallStep DEF Refuses
  <2>3. InOrder(<<>>)
    BY DEF InOrder
  <2>4. InOrder(Tail(call[c].todo))
    <3> SUFFICES ASSUME NEW i \in DOMAIN Tail(call[c].todo),
                        NEW j \in DOMAIN Tail(call[c].todo), i < j
                 PROVE  /\ Tail(call[c].todo)[j].does = "names"
                           => Tail(call[c].todo)[i].does = "names"
                        /\ Tail(call[c].todo)[j].does = "clear"
                           => Tail(call[c].todo)[i] # Section("clear", "traces")
      BY DEF InOrder
    <3>1. /\ i + 1 \in DOMAIN call[c].todo /\ j + 1 \in DOMAIN call[c].todo /\ i + 1 < j + 1
          /\ Tail(call[c].todo)[i] = call[c].todo[i + 1]
          /\ Tail(call[c].todo)[j] = call[c].todo[j + 1]
      BY <2>1
    <3> QED BY <1>1, <3>1 DEF InOrder, OrderOf
  <2>5. InOrder(call'[c].todo)
    BY <2>2, <2>3, <2>4
  <2> QED BY <1>1, <1>3, <2>1, <2>5, AheadShrinks DEF InOrder, OrderOf
<1>4. ASSUME call'[c] = call[c]
      PROVE  OrderOf(c)'
  BY <1>1, <1>4 DEF InOrder, OrderOf, Ahead
<1> QED BY <1>1, <1>2, <1>3, <1>4, CallSteps, CallBegins, CallStep

LEMMA RemembersStep == ProgressInv /\ [Next]_vars => RemembersAcked'
<1> SUFFICES ASSUME ProgressInv, [Next]_vars PROVE RemembersAcked'
  OBVIOUS
<1>1. TypeOK /\ RemembersAcked /\ Acked \subseteq Acked'
  BY AckedGrows DEF ProgressInv, CursorInv
<1>2. ASSUME NEW c \in Sessions PROVE call'[c].acked \subseteq Acked'
  <2>1. call'[c].acked = call[c].acked \/ call'[c].acked = Acked
    BY <1>1, CallSteps, CallBegins, CallStep
  <2> QED BY <1>1, <2>1 DEF RemembersAcked
<1>3. ASSUME NEW rs \in wiped' PROVE rs[1] \in Acked'
  <2>1. CASE rs \in wiped
    BY <1>1, <2>1 DEF RemembersAcked
  <2>2. ASSUME NEW c \in Sessions, ClearStore(c), rs \notin wiped PROVE rs[1] \in Acked'
    <3>1. rs \in call[c].acked \X Services
      BY <1>3, <2>2 DEF ClearStore
    <3> QED BY <1>1, <3>1 DEF RemembersAcked
  <2>3. ASSUME UNCHANGED wiped PROVE rs \in wiped
    BY <1>3, <2>3
  <2> QED BY <2>1, <2>2, <2>3, ZenonT(60) DEF Next, vars, Stamp, Store, Reject, Evict, Begin, ReadNames,
                                  ReadCursor, ReadItems, callVars
<1> QED BY <1>2, <1>3 DEF RemembersAcked

LEMMA BoundsStep == ProgressInv /\ [Next]_vars => TokensBound'
<1> SUFFICES ASSUME ProgressInv, [Next]_vars PROVE TokensBound'
  OBVIOUS
<1>1. TypeOK /\ TokensBound /\ counter \in Nat
  BY DEF ProgressInv, CursorInv, TypeOK
<1>2. ASSUME NEW token \in Token, Bounds(token) PROVE Bounds(token)'
  <2>1. token.value \in Int /\ token.value <= counter
    BY <1>2 DEF Token, Bounds
  <2>2. ASSUME NEW r \in Requests, Stamp(r) PROVE Bounds(token)'
    <3>1. stamped[r] \in Seq(Nat)
      BY <1>1 DEF TypeOK
    <3>2. /\ stamped'[r] = Append(stamped[r], counter)
          /\ \A q \in Requests \ {r} : stamped'[q] = stamped[q]
          /\ counter' = counter + 1
      BY <1>1, <2>2 DEF Stamp, Advanced, TypeOK
    <3>3. \A i \in DOMAIN stamped'[r] :
             (i \in DOMAIN stamped[r] /\ stamped'[r][i] = stamped[r][i]) \/ stamped'[r][i] = counter
      BY <3>1, <3>2
    <3>4. ASSUME NEW q \in Requests \ token.begun, NEW i \in DOMAIN stamped'[q]
          PROVE  stamped'[q][i] >= token.value
      <4>1. CASE q # r
        BY <1>2, <3>2, <3>4, <4>1 DEF Bounds
      <4>2. CASE q = r
        BY <1>1, <1>2, <2>1, <3>3, <3>4, <4>2 DEF Bounds
      <4> QED BY <4>1, <4>2
    <3>5. token.value <= counter'
      BY <1>1, <2>1, <3>2
    <3> QED BY <3>4, <3>5 DEF Bounds
  <2>3. ASSUME UNCHANGED <<stamped, counter>> PROVE Bounds(token)'
    BY <1>2, <2>3 DEF Bounds
  <2> QED
    BY <2>2, <2>3, ZenonT(60) DEF Next, vars, Store, Reject, Evict, Begin, ReadNames, ReadCursor,
                      ReadItems, ClearStore, requestVars
<1>3. Checkpoint \in Token /\ Bounds(Checkpoint)
  <2>1. Checkpoint.value = counter /\ Checkpoint.begun = Begun
    BY DEF Checkpoint
  <2>2. \A r \in Requests \ Begun : stamped[r] = <<>>
    BY DEF Begun
  <2> QED BY <1>1, <2>1, <2>2, CheckpointTyped DEF Bounds
<1>4. NoSince \in Token /\ Bounds(NoSince)
  <2>1. NoSince \in Token /\ NoSince.value = -1
    BY DEF NoSince, Token
  <2>2. \A r \in Requests : \A i \in DOMAIN stamped[r] : stamped[r][i] \in Nat
    BY <1>1 DEF TypeOK
  <2> QED BY <1>1, <2>1, <2>2 DEF Bounds
<1>5. ASSUME NEW token \in tokens' PROVE Bounds(token)'
  <2>1. token \in tokens \/ token = Checkpoint
    BY <1>5 DEF Next, vars, Stamp, Store, Reject, Evict, Begin, ReadNames, ReadCursor,
                ReadItems, ClearStore, callVars
  <2>2. token \in Token /\ Bounds(token)
    BY <1>1, <1>3, <2>1 DEF TypeOK, TokensBound
  <2> QED BY <1>2, <2>2
<1>6. ASSUME NEW c \in Sessions PROVE Bounds(call[c].since)'
  <2>1. call[c].since \in Token /\ Bounds(call[c].since)
    BY <1>1 DEF TypeOK, CallType, TokensBound
  <2>2. call'[c].since = call[c].since \/ call'[c].since \in tokens \cup {NoSince}
    BY <1>1, CallSteps, CallBegins, CallStep
  <2>3. call'[c].since \in Token /\ Bounds(call'[c].since)
    BY <1>1, <1>4, <2>1, <2>2 DEF TypeOK, TokensBound
  <2>4. \A token \in Token : Bounds(token) => Bounds(token)'
    BY <1>2
  <2> QED BY <2>3, <2>4 DEF Bounds
<1> QED BY <1>5, <1>6 DEF TokensBound

(* Only a listing reads names.                                             *)
LEMMA NamesAreListings ==
    ASSUME ProgressInv, NEW c \in Sessions, ReadNames(c)
    PROVE  call[c].tool \in Listings
<1>1. TypeOK /\ OrderOf(c)
  BY DEF ProgressInv, CursorInv, CallsInOrder
<1>2. call[c].todo \in Seq(SectionType) /\ call[c].todo # <<>> /\ Head(call[c].todo).does = "names"
  BY <1>1, TodoTyped DEF ReadNames, Doing, Busy
<1>3. 1 \in DOMAIN call[c].todo /\ call[c].todo[1] = Head(call[c].todo)
  BY <1>2
<1>4. Head(call[c].todo) \in SectionType
  BY <1>2
<1>5. PICK g \in Signals : Head(call[c].todo) = Section("names", g)
  BY <1>2, <1>4 DEF SectionType, Section
<1>6. Ahead(c, "names", g)
  BY <1>3, <1>5 DEF Ahead
<1> QED BY <1>1, <1>6 DEF OrderOf

LEMMA ClearedStep == ProgressInv /\ [Next]_vars => ClearedBehind'
<1> SUFFICES ASSUME ProgressInv, [Next]_vars, NEW c \in Sessions, call'[c].tool \in Resets,
                    NEW g \in Signals, ~Ahead(c, "clear", g)',
                    NEW x \in store'[g], x.req \in call'[c].acked
             PROVE  ~InScope(x.svc, call'[c].scope)
  BY DEF ClearedBehind, InScope
<1>1. CursorInv /\ TypeOK /\ ClearedBehind /\ RemembersAcked
  BY DEF ProgressInv, CursorInv
<1>2. ASSUME NEW tool \in Offered[c], NEW scope \in Scopes,
             NEW since \in tokens \cup {NoSince}, Begin(c, tool, scope, since)
      PROVE  FALSE
  <2>1. tool \in DOMAIN Tools /\ call'[c].tool = tool /\ call'[c].todo = Tools[tool]
    BY <1>1, <1>2, CallBegins
  <2>2. \E i \in DOMAIN Tools[tool] : Tools[tool][i] = Section("clear", g)
    BY <2>1, ToolsInOrder
  <2> QED BY <2>1, <2>2 DEF Ahead
<1>3. ASSUME ~Ahead(c, "clear", g), call'[c].tool = call[c].tool,
             call'[c].scope = call[c].scope, call'[c].acked = call[c].acked
      PROVE  ~InScope(x.svc, call'[c].scope)
  <2>1. x \in store[g]
    BY <1>1, <1>3, StoresOnlyLose DEF RemembersAcked
  <2> QED BY <1>1, <1>3, <2>1 DEF ClearedBehind
<1>4. ASSUME Step(c) PROVE ~InScope(x.svc, call'[c].scope)
  <2>1. /\ call'[c].tool = call[c].tool /\ call'[c].scope = call[c].scope
        /\ call'[c].acked = call[c].acked
        /\ call'[c].todo = Tail(call[c].todo) \/ Refuses(c)
    BY <1>1, <1>4, CallStep
  <2>2. ASSUME Refuses(c) PROVE FALSE
    <3>1. ReadNames(c)
      BY <2>2 DEF Refuses
    <3>2. call[c].tool \in Listings
      BY <3>1, NamesAreListings
    <3> QED BY <2>1, <3>2 DEF Listings, Resets
  <2>3. CASE call'[c].todo = Tail(call[c].todo) /\ Ahead(c, "clear", g)
    <3>1. Head(call[c].todo) = Section("clear", g) /\ Busy(c)
      BY <1>1, <1>4, <2>3, LeavesBehind, CallStep
    <3>2. ClearStore(c) /\ Here(c) = g
      <4>1. Head(call[c].todo).does = "clear" /\ Head(call[c].todo).signal = g
        BY <3>1 DEF Section
      <4> QED BY <1>4, <4>1 DEF Step, ReadNames, ReadCursor, ReadItems, Doing, Here
    <3>3. x \notin Cleared(g, call[c].scope) /\ x \in store[g]
      BY <1>1, <3>2 DEF ClearStore, TypeOK
    <3> QED BY <2>1, <3>3 DEF Cleared
  <2> QED BY <1>3, <2>1, <2>2, <2>3
<1>5. ASSUME call'[c] = call[c] PROVE ~InScope(x.svc, call'[c].scope)
  <2>1. ~Ahead(c, "clear", g)
    BY <1>5 DEF Ahead
  <2> QED BY <1>3, <1>5, <2>1
<1> QED BY <1>1, <1>2, <1>4, <1>5, CallSteps, CallBegins, CallStep

LEMMA NamedStep == ProgressInv /\ [Next]_vars => NamedBehind'
<1> SUFFICES ASSUME ProgressInv, [Next]_vars, NEW c \in Sessions, call'[c].tool \in Listings,
                    NEW g \in Signals, ~Ahead(c, "names", g)',
                    NEW x \in store'[g], x.req \in call'[c].acked
             PROVE  x.svc \in call'[c].names
  BY DEF NamedBehind
<1>1. CursorInv /\ TypeOK /\ NamedBehind /\ RemembersAcked /\ OrderOf(c)
  BY DEF ProgressInv, CursorInv, CallsInOrder
<1>2. ASSUME NEW tool \in Offered[c], NEW scope \in Scopes,
             NEW since \in tokens \cup {NoSince}, Begin(c, tool, scope, since)
      PROVE  FALSE
  <2>1. tool \in DOMAIN Tools /\ call'[c].tool = tool /\ call'[c].todo = Tools[tool]
    BY <1>1, <1>2, CallBegins
  <2>2. \E i \in DOMAIN Tools[tool] : Tools[tool][i] = Section("names", g)
    BY <2>1, ToolsInOrder
  <2> QED BY <2>1, <2>2 DEF Ahead
<1>3. ASSUME ~Ahead(c, "names", g), call'[c].tool = call[c].tool,
             call[c].names \subseteq call'[c].names, call'[c].acked = call[c].acked
      PROVE  x.svc \in call'[c].names
  <2>1. x \in store[g]
    BY <1>1, <1>3, StoresOnlyLose DEF RemembersAcked
  <2> QED BY <1>1, <1>3, <2>1 DEF NamedBehind
<1>4. ASSUME Step(c) PROVE x.svc \in call'[c].names
  <2>1. /\ call'[c].tool = call[c].tool /\ call[c].names \subseteq call'[c].names
        /\ call'[c].acked = call[c].acked
        /\ call'[c].todo = Tail(call[c].todo) \/ Refuses(c)
        /\ call[c].todo \in Seq(SectionType) /\ call[c].todo # <<>>
    BY <1>1, <1>4, CallStep, TodoTyped DEF Busy
  <2>2. ASSUME Head(call[c].todo) = Section("names", g) PROVE x.svc \in call'[c].names
    <3>1. ReadNames(c) /\ Here(c) = g
      <4>1. Head(call[c].todo).does = "names" /\ Head(call[c].todo).signal = g
        BY <2>2 DEF Section
      <4> QED BY <1>4, <4>1 DEF Step, ClearStore, ReadCursor, ReadItems, Doing, Here
    <3>2. x \in store[g]
      BY <3>1 DEF ReadNames
    <3>3. x.svc \in ServicesIn(g)
      BY <3>2 DEF ServicesIn
    <3> QED BY <1>1, <1>4, <3>1, <3>3, CallStep
  <2>3. ASSUME Refuses(c), Ahead(c, "names", g) PROVE Head(call[c].todo) = Section("names", g)
    <3>1. PICK i \in DOMAIN call[c].todo : call[c].todo[i] = Section("names", g)
      BY <2>3 DEF Ahead
    <3>2. Tail(call[c].todo) # <<>> /\ Head(Tail(call[c].todo)).does # "names"
      BY <2>3 DEF Refuses
    <3>3. 2 \in DOMAIN call[c].todo /\ call[c].todo[2].does # "names"
      BY <2>1, <3>2
    <3>4. call[c].todo[i].does = "names"
      BY <3>1 DEF Section
    <3>5. ~(2 < i) /\ i # 2
      BY <1>1, <3>3, <3>4 DEF OrderOf, InOrder
    <3>6. i = 1
      BY <2>1, <3>1, <3>5
    <3> QED BY <2>1, <3>1, <3>6
  <2>4. CASE Ahead(c, "names", g)
    BY <1>1, <1>4, <2>1, <2>2, <2>3, <2>4, LeavesBehind
  <2> QED BY <1>3, <2>1, <2>4
<1>5. ASSUME call'[c] = call[c] PROVE x.svc \in call'[c].names
  <2>1. ~Ahead(c, "names", g)
    BY <1>5 DEF Ahead
  <2> QED BY <1>3, <1>5, <2>1
<1> QED BY <1>1, <1>2, <1>4, <1>5, CallSteps, CallBegins, CallStep

(* What a summary must report passes its filter when it is read.           *)
LEMMA NewIsKept ==
    ASSUME ProgressInv, NEW c \in Sessions, NEW g \in Signals, NEW x \in store[g],
           x.req \notin call[c].since.begun, x.svc = call[c].scope
    PROVE  x \in Window(About(g, call[c].scope), call[c].since.value)
<1>1. TypeOK /\ StoredIsAcked /\ TokensBound
  BY DEF ProgressInv, CursorInv
<1>2. x \in Item /\ x.req \in Requests
  BY <1>1 DEF TypeOK, Item
<1>3. x \in About(g, call[c].scope)
  BY DEF About
<1>4. PICK i \in DOMAIN stamped[x.req] : x.seq = stamped[x.req][i]
  BY <1>1 DEF StoredIsAcked, HasItsNumber
<1>5. Keep(call[c].since.value, x.seq)
  BY <1>1, <1>2, <1>4 DEF TokensBound, Bounds, Keep
<1> QED BY <1>3, <1>5 DEF Window

LEMMA SeenStep == ProgressInv /\ [Next]_vars => SeenBehind'
<1> DEFINE Due(c, x) == /\ x.req \in call[c].acked \ call[c].since.begun
                        /\ x.svc = call[c].scope
<1> SUFFICES ASSUME ProgressInv, [Next]_vars, NEW c \in Sessions,
                    call'[c].tool = "summarize_activity", NEW g \in Signals,
                    ~Ahead(c, "items", g)', ~Refused(c)', NEW x \in store'[g], Due(c, x)'
             PROVE  Reported(c, g, x)'
  BY DEF SeenBehind
<1>1. CursorInv /\ TypeOK /\ SeenBehind /\ RemembersAcked
  BY DEF ProgressInv, CursorInv
<1>2. ASSUME NEW tool \in Offered[c], NEW scope \in Scopes,
             NEW since \in tokens \cup {NoSince}, Begin(c, tool, scope, since)
      PROVE  FALSE
  <2>1. tool \in DOMAIN Tools /\ call'[c].tool = tool /\ call'[c].todo = Tools[tool]
    BY <1>1, <1>2, CallBegins
  <2>2. \E i \in DOMAIN Tools[tool] : Tools[tool][i] = Section("items", g)
    BY <2>1, ToolsInOrder
  <2> QED BY <2>1, <2>2 DEF Ahead
<1>3. ASSUME ~Ahead(c, "items", g), ~Refused(c), call'[c].tool = call[c].tool,
             Due(c, x), call[c].seen \subseteq call'[c].seen,
             g = "metrics" => call'[c].cut = call[c].cut
      PROVE  Reported(c, g, x)'
  <2>1. x \in store[g]
    BY <1>1, <1>3, StoresOnlyLose DEF RemembersAcked
  <2>2. Reported(c, g, x)
    BY <1>1, <1>3, <2>1 DEF SeenBehind
  <2> QED BY <1>3, <2>2 DEF Reported
<1>4. ASSUME Step(c) PROVE Reported(c, g, x)'
  <2>1. /\ call'[c].tool = call[c].tool /\ call'[c].scope = call[c].scope
        /\ call'[c].since = call[c].since /\ call'[c].acked = call[c].acked
        /\ call[c].seen \subseteq call'[c].seen /\ Busy(c)
        /\ call'[c].todo = Tail(call[c].todo) \/ Refuses(c)
    BY <1>1, <1>4, CallStep
  <2>2. Due(c, x) /\ ~Refused(c)
    BY <2>1 DEF Refused
  <2>3. call'[c].todo = Tail(call[c].todo)
    BY <2>1 DEF Refuses, Refused, Busy
  <2>4. CASE Ahead(c, "items", g)
    <3>1. Head(call[c].todo) = Section("items", g)
      BY <1>1, <1>4, <2>3, <2>4, LeavesBehind
    <3>2. ReadItems(c) /\ Here(c) = g
      BY <1>4, <3>1 DEF Step, ReadNames, ReadCursor, ClearStore, Doing, Section, Here
    <3>3. x \in store[g]
      BY <3>2 DEF ReadItems
    <3>4. x \in ReadBy(c)
      BY <2>2, <3>2, <3>3, NewIsKept DEF ReadBy
    <3>5. PICK shown \in SUBSET ReadBy(c), cut \in BOOLEAN :
             /\ call' = [call EXCEPT ![c] = [call[c] EXCEPT !.seen = call[c].seen \cup shown,
                                                           !.cut = cut,
                                                           !.todo = Tail(call[c].todo)]]
             /\ g # "metrics" => cut = call[c].cut /\ shown = ReadBy(c)
             /\ g = "metrics" => cut \/ SeriesIn(Telling(ReadBy(c))) = SeriesIn(shown)
      BY <1>1, <3>2, ItemsRead
    <3>6. call'[c].seen = call[c].seen \cup shown /\ call'[c].cut = cut
      BY <1>1, <3>5 DEF TypeOK, CallType
    <3>7. CASE g # "metrics"
      BY <3>4, <3>5, <3>6, <3>7 DEF Reported
    <3>8. CASE g = "metrics"
      <4> SUFFICES ASSUME x.name \in Notable, ~cut
                   PROVE  \E y \in call'[c].seen :
                             Signal[y.req] = "metrics" /\ SeriesOf(y) = SeriesOf(x)
        BY <3>6, <3>8 DEF Reported
      <4>1. SeriesOf(x) \in SeriesIn(Telling(ReadBy(c)))
        BY <3>4 DEF Telling, SeriesIn
      <4>2. PICK y \in shown : SeriesOf(y) = SeriesOf(x)
        BY <3>5, <3>8, <4>1 DEF SeriesIn
      <4>3. y \in store[g]
        BY <3>2, <3>5 DEF ReadBy, Window, About
      <4>4. Signal[y.req] = "metrics"
        BY <1>1, <3>8, <4>3 DEF CursorInv, StoredIsAcked
      <4> QED BY <3>6, <4>2, <4>4
    <3> QED BY <3>7, <3>8
  <2>5. CASE ~Ahead(c, "items", g)
    <3>1. g = "metrics" => call'[c].cut = call[c].cut
      <4> SUFFICES ASSUME g = "metrics", ReadItems(c), Here(c) = "metrics" PROVE FALSE
        BY <1>1, <1>4, CallStep
      <4>1. call[c].todo \in Seq(SectionType) /\ call[c].todo # <<>>
        BY <1>1, <2>1, TodoTyped DEF Busy
      <4>2. Head(call[c].todo) \in SectionType /\ call[c].todo[1] = Head(call[c].todo)
            /\ 1 \in DOMAIN call[c].todo
        BY <4>1
      <4>3. Head(call[c].todo) = Section("items", "metrics")
        BY <4>2 DEF ReadItems, Doing, Here, SectionType, Section
      <4> QED BY <2>5, <4>2, <4>3 DEF Ahead
    <3> QED BY <1>3, <2>1, <2>2, <2>5, <3>1
  <2> QED BY <2>4, <2>5
<1>5. ASSUME call'[c] = call[c] PROVE Reported(c, g, x)'
  <2>1. ~Ahead(c, "items", g) /\ ~Refused(c) /\ Due(c, x)
    BY <1>5 DEF Ahead, Refused, Busy
  <2> QED BY <1>3, <1>5, <2>1
<1> QED BY <1>1, <1>2, <1>4, <1>5, CallSteps, CallBegins, CallStep

(* When the traces are cleared, the logs and the metrics have been.        *)
LEMMA RemovedStep == ProgressInv /\ [Next]_vars => ResetRemovesEarlierTelemetry'
<1> SUFFICES ASSUME ProgressInv, [Next]_vars, ClearedBehind', NEW g \in Signals,
                    NEW x \in store'[g], <<x.req, x.svc>> \in wiped'
             PROVE  FALSE
  BY ClearedStep DEF ResetRemovesEarlierTelemetry
<1>1. CursorInv /\ TypeOK /\ RemembersAcked /\ CallsInOrder /\ ResetRemovesEarlierTelemetry
  BY DEF ProgressInv, CursorInv
<1>2. ASSUME <<x.req, x.svc>> \in wiped PROVE FALSE
  <2>1. x.req \in Acked
    BY <1>1, <1>2 DEF RemembersAcked
  <2>2. x \in store[g]
    BY <1>1, <2>1, StoresOnlyLose
  <2> QED BY <1>1, <1>2, <2>2 DEF ResetRemovesEarlierTelemetry
<1>3. ASSUME NEW c \in Sessions, ClearStore(c), <<x.req, x.svc>> \notin wiped PROVE FALSE
  <2>1. /\ Here(c) = "traces"
        /\ x.req \in call[c].acked /\ InScope(x.svc, call[c].scope)
    BY <1>3 DEF ClearStore
  <2>2. Step(c) /\ Busy(c) /\ call[c].todo \in Seq(SectionType) /\ call[c].todo # <<>>
    BY <1>1, <1>3, TodoTyped DEF Step, ClearStore, Doing, Busy
  <2>3. Head(call[c].todo) \in SectionType /\ Head(call[c].todo).does = "clear"
    BY <1>3, <2>2 DEF ClearStore, Doing
  <2>4. Head(call[c].todo) = Section("clear", "traces") /\ call[c].todo[1] = Head(call[c].todo)
    BY <2>1, <2>2, <2>3 DEF SectionType, Section, Here
  <2>5. call'[c].todo = Tail(call[c].todo)
    BY <1>1, <1>3, <2>2, CallStep DEF Refuses, ReadNames, ClearStore, Doing
  <2>6. ASSUME NEW h \in Signals PROVE ~Ahead(c, "clear", h)'
    <3> SUFFICES ASSUME NEW i \in DOMAIN Tail(call[c].todo),
                        Tail(call[c].todo)[i] = Section("clear", h)
                 PROVE  FALSE
      BY <2>5 DEF Ahead
    <3>1. i + 1 \in DOMAIN call[c].todo /\ call[c].todo[i + 1] = Section("clear", h)
          /\ 1 < i + 1 /\ 1 \in DOMAIN call[c].todo
      BY <2>2
    <3>2. call[c].todo[i + 1].does = "clear"
      BY <3>1 DEF Section
    <3> QED BY <1>1, <2>4, <3>1, <3>2 DEF CallsInOrder, OrderOf, InOrder
  <2>7. call[c].tool \in Resets
    <3>1. Ahead(c, "clear", "traces")
      BY <2>2, <2>4 DEF Ahead
    <3> QED BY <1>1, <3>1 DEF CallsInOrder, OrderOf, Signals
  <2>8. call'[c].tool = call[c].tool /\ call'[c].acked = call[c].acked
        /\ call'[c].scope = call[c].scope
    BY <1>1, <2>2, CallStep
  <2> QED BY <2>1, <2>6, <2>7, <2>8 DEF ClearedBehind, InScope
<1>4. ASSUME UNCHANGED wiped PROVE <<x.req, x.svc>> \in wiped
  BY <1>4
<1> QED
  BY <1>2, <1>3, <1>4 DEF Next, vars, Stamp, Store, Reject, Evict, Begin, ReadNames,
                          ReadCursor, ReadItems, callVars

LEMMA ProgressAlways == Spec => []ProgressInv
<1>1. ProgressInv /\ [Next]_vars => ProgressInv'
  BY TypeStep, NumbersStep, StoredStep, TokensStep, ReportsStep, OrderStep, RemembersStep,
     BoundsStep, ClearedStep, NamedStep, SeenStep, RemovedStep DEF ProgressInv, CursorInv
<1> QED BY ProgressInit, <1>1, PTL DEF Spec

(* However ingestion, eviction, other calls and other resets interleave with
   the three clears of a reset, nothing in its scope that was acknowledged
   before it began is left or comes back once it has cleared the traces.   *)
THEOREM ResetAlwaysRemoves == Spec => []ResetRemovesEarlierTelemetry
BY ProgressAlways, PTL DEF ProgressInv

(* list_services, check_health and the guard of summarize_activity never
   overlook a service whose telemetry was stored throughout the call.      *)
THEOREM ServicesAlwaysListed == Spec => []ServicesAreListed
BY ProgressAlways, ProgressImplies, PTL

(* A summary never misses telemetry begun after its checkpoint and
   acknowledged before it was asked for, unless that was removed meanwhile. *)
THEOREM NewTelemetryAlwaysReported == Spec => []NewTelemetryIsReported
BY ProgressAlways, ProgressImplies, PTL
=============================================================================
