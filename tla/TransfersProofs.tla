--------------------------- MODULE TransfersProofs ---------------------------
(***************************************************************************)
(* Proofs about Transfers, for any clients and scripts, any number of       *)
(* transfers and any pool of folder APIs: what --print-tag-at-start prints, *)
(* when a command in the foreground may return, and that the command        *)
(* transfers loses no row of the list it took.                              *)
(*                                                                          *)
(* The SDK's thread calls a listener that lives in the frame of a petition  *)
(* thread, and sets a promise that lives in the frame of uploadNode.  The   *)
(* inductive invariant says that both are still there: a transfer that runs *)
(* calls the listener of a thread that has not returned (ListenersLive), a  *)
(* queued one that will tell its start is the one its thread sleeps for     *)
(* (StartsAwaited), and the counters that the thread waits on count its own *)
(* transfers and no other (OwnCounted).                                     *)
(*                                                                          *)
(* The list has an invariant of its own: what it holds are transfers of the *)
(* moment it was taken (ListKnown), and each that it owes to its reader has *)
(* a row or is still to be asked for, unless there are rows enough or one   *)
(* of them has ended meanwhile (OwedIsListed).                              *)
(***************************************************************************)
EXTENDS Transfers, FiniteSetTheorems, SequenceTheorems, TLAPS

-----------------------------------------------------------------------------
(* The inductive invariant *)

Fields ==
    /\ DOMAIN run = Threads /\ DOMAIN listener = Threads /\ DOMAIN xfer = Tags
    /\ \A t \in Threads :
          DOMAIN run[t] = DOMAIN IdleRun /\ DOMAIN listener[t] = DOMAIN NewListener
    /\ \A k \in Tags : DOMAIN xfer[k] = DOMAIN NoTransfer

(* A command is only where its kind may be. *)
Places ==
    \A t \in Threads :
        /\ At(t, "decrypt") => Req(t).op \in {"get", "import"}
        /\ run[t].pc \in {"publicnode", "download", "details", "quota"} => Req(t).op = "get"
        /\ run[t].pc \in {"makedir", "upload", "started"} => Req(t).op = "put"

Transferring(t) ==
    \/ run[t].pc \in {"download", "details", "quota", "upload", "started", "finish"}
    \/ run[t].pc \in {"logout", "free"} /\ Req(t).op = "get"

PrintsTag(t) == Req(t).op = "put" /\ Req(t).tag

(* The thread sleeps on the promise of the transfer it has just started. *)
AwaitsStart(t, k) == At(t, "started") /\ run[t].frame = k /\ run[t].promise = NoTag

(* A transfer that runs calls only the listener of a thread that still      *)
(* waits for it.                                                            *)
ListenersLive ==
    \A k \in Tags : Running(k) /\ xfer[k].to = "multi" =>
        /\ xfer[k].by \in Threads
        /\ k \in run[xfer[k].by].own
        /\ ~At(xfer[k].by, "idle")

(* A transfer that will tell its start to a promise is the one the thread   *)
(* waits for.                                                               *)
StartAwaited(k) ==
    xfer[k].state = "queued" =>
        /\ xfer[k].to = "self" =>
              xfer[k].by \in Threads /\ AwaitsStart(xfer[k].by, k) /\ xfer[k].source = k
        /\ xfer[k].to = "multi" /\ PrintsTag(xfer[k].by) =>
              AwaitsStart(xfer[k].by, k) /\ listener[xfer[k].by].callback = k

StartsAwaited == \A k \in Tags : StartAwaited(k)

CallbackForTag == \A t \in Threads : listener[t].callback # 0 => PrintsTag(t)

PromisesOwn ==
    \A t \in Threads :
        /\ run[t].promise \in 0 .. MaxTransfers
        /\ At(t, "started") => run[t].frame \in Tags /\ run[t].promise \in {NoTag, run[t].frame}
        /\ run[t].tags \in Seq({<<k, k>> : k \in Tags})

Ended(t) == {k \in run[t].own : xfer[k].state = "done"}

(* The counters of the listener are those of the transfers it is told of.   *)
OwnCounted ==
    \A t \in Threads : ~At(t, "idle") =>
        /\ run[t].own # {} => Transferring(t)
        /\ run[t].own \subseteq Tags
        /\ \A k \in run[t].own :
              /\ xfer[k].by = t /\ xfer[k].state \in {"queued", "active", "done"}
              /\ Running(k) => xfer[k].to = "multi"
        /\ listener[t].created = Cardinality(run[t].own)
        /\ listener[t].permits = Cardinality(Ended(t))
        /\ (\E k \in Ended(t) : xfer[k].error # "OK") => listener[t].finalerror # "OK"

IInv ==
    /\ Fields
    /\ Places
    /\ ListenersLive
    /\ StartsAwaited
    /\ CallbackForTag
    /\ PromisesOwn
    /\ OwnCounted

-----------------------------------------------------------------------------
(* Tags *)

LEMMA TagsAreFinite == IsFiniteSet(Tags) /\ Tags \subseteq Nat
BY BoundsAssumption, FS_Interval DEF Tags, BoundsAssumption

LEMMA Induction ==
  ASSUME NEW T, 0 \in T, \A n \in Nat : n \in T => n + 1 \in T
  PROVE  Nat \subseteq T
<1> SUFFICES ASSUME NEW x \in Nat, x \notin T PROVE FALSE
  OBVIOUS
<1> DEFINE A == {n \in 0 .. x : n \in T}
           B == A \ {0}
           f == [n \in A |-> n + 1]
<1>1. A \in SUBSET (0 .. x) /\ 0 \in A
  OBVIOUS
<1>2. IsFiniteSet(A)
  <2> HIDE DEF A
  <2>1. IsFiniteSet(0 .. x)
    BY FS_Interval
  <2> QED
    BY <1>1, <2>1, FS_Subset
<1>3. f \in [A -> B]
  OBVIOUS
<1>4. Cardinality(B) = Cardinality(A) - 1 /\ IsFiniteSet(B) /\ Cardinality(A) \in Nat
  BY <1>1, <1>2, FS_RemoveElement, FS_CardinalityType
<1>5. PICK m \in A, n \in A : m # n /\ f[m] = f[n]
  <2> HIDE DEF f, A, B
  <2> QED
    BY <1>2, <1>3, <1>4, FS_PigeonHole
<1> QED
  BY <1>5

LEMMA LeastTag ==
    ASSUME NEW S \in SUBSET Tags, S # {}
    PROVE  \E k \in S : \A j \in 1 .. (k - 1) : j \notin S
<1> SUFFICES ASSUME \A k \in S : \E j \in 1 .. (k - 1) : j \in S PROVE FALSE
  OBVIOUS
<1> DEFINE T == {n \in Nat : \A k \in S : n < k}
<1>1. S \subseteq Nat /\ \A k \in S : 0 < k
  BY DEF Tags
<1>2. 0 \in T
  BY <1>1
<1>3. ASSUME NEW n \in Nat, n \in T PROVE n + 1 \in T
  <2> SUFFICES ASSUME NEW k \in S, ~(n + 1 < k) PROVE FALSE
    OBVIOUS
  <2>1. k = n + 1
    BY <1>1, <1>3
  <2>2. PICK j \in 1 .. (k - 1) : j \in S
    OBVIOUS
  <2>3. j \in Nat /\ j <= n
    BY <2>1
  <2> QED
    BY <1>3, <2>2, <2>3
<1>4. Nat \subseteq T
  <2> HIDE DEF T
  <2> QED
    BY <1>2, <1>3, Induction
<1>5. PICK k : k \in S
  OBVIOUS
<1> QED
  BY <1>1, <1>4, <1>5

LEMMA NextTagIsFree == CanStart => NextTag \in Tags /\ xfer[NextTag].state = "none"
<1> SUFFICES ASSUME CanStart PROVE NextTag \in Tags /\ xfer[NextTag].state = "none"
  OBVIOUS
<1> DEFINE S == {k \in Tags : xfer[k].state = "none"}
<1>1. S \in SUBSET Tags /\ S # {}
  BY DEF CanStart
<1>2. PICK k \in S : \A j \in 1 .. (k - 1) : j \notin S
  <2> HIDE DEF S
  <2> QED
    BY <1>1, LeastTag
<1>3. \A j \in 1 .. (k - 1) : j \in Tags
  BY TagsAreFinite, BoundsAssumption DEF Tags, BoundsAssumption
<1>4. k \in Tags /\ xfer[k].state = "none" /\ \A j \in 1 .. (k - 1) : xfer[j].state # "none"
  BY <1>2, <1>3
<1> QED
  BY <1>4 DEF NextTag

-----------------------------------------------------------------------------
(* What the steps do to the state that the invariant is about. *)

LEMMA EmptyTags == <<>> \in Seq({<<k, k>> : k \in Tags})
BY EmptySeq

LEMMA NewListenerFields ==
    /\ NewListener.created = 0 /\ NewListener.permits = 0 /\ NewListener.callback = 0
    /\ NewListener.finalerror = "OK"
BY DEF NewListener

LEMMA InitIInv == Init => IInv
<1> SUFFICES ASSUME Init PROVE IInv
  OBVIOUS
<1>1. \A t \in Threads : run[t] = IdleRun /\ listener[t] = NewListener
  BY DEF Init
<1>2. DOMAIN run = Threads /\ DOMAIN listener = Threads /\ DOMAIN xfer = Tags
  BY DEF Init
<1>3. \A k \in Tags : /\ DOMAIN xfer[k] = DOMAIN NoTransfer
                      /\ xfer[k].to = "none"
  BY DEF Init, NoTransfer
<1>4. Fields
  BY <1>1, <1>2, <1>3 DEF Fields
<1>5. \A t \in Threads : /\ run[t].pc = "idle" /\ run[t].promise = NoTag
                         /\ run[t].tags = <<>>
  BY <1>1 DEF IdleRun
<1>6. Places /\ OwnCounted
  BY <1>5 DEF Places, OwnCounted, At
<1>8. ListenersLive /\ StartsAwaited
  BY <1>3 DEF ListenersLive, StartsAwaited, StartAwaited
<1>9. CallbackForTag
  BY <1>1, NewListenerFields DEF CallbackForTag
<1>7. PromisesOwn
  <2>1. NoTag \in 0 .. MaxTransfers
    BY BoundsAssumption DEF NoTag, BoundsAssumption
  <2>2. \A t \in Threads : run[t].tags \in Seq({<<k, k>> : k \in Tags})
    BY <1>5, EmptyTags
  <2> QED
    BY <1>5, <2>1, <2>2 DEF PromisesOwn, At
<1> QED
  BY <1>4, <1>6, <1>7, <1>8, <1>9 DEF IInv

(* The transfer still is what its listeners know of it. *)
Kept(k) ==
    /\ xfer'[k].state = xfer[k].state
    /\ xfer'[k].by = xfer[k].by /\ xfer'[k].to = xfer[k].to
    /\ xfer'[k].source = xfer[k].source
    /\ xfer[k].state = "done" => xfer'[k].error = xfer[k].error

OthersStay(t) == \A u \in Threads \ {t} : run'[u] = run[u] /\ listener'[u] = listener[u]

PlacesOf(t) ==
    /\ At(t, "decrypt") => Req(t).op \in {"get", "import"}
    /\ run[t].pc \in {"publicnode", "download", "details", "quota"} => Req(t).op = "get"
    /\ run[t].pc \in {"makedir", "upload", "started"} => Req(t).op = "put"

(* A step that goes on from one wait to the next and starts nothing. *)
Goes(t) ==
    /\ OthersStay(t)
    /\ listener' = listener
    /\ run'[t].own = run[t].own /\ run'[t].req = run[t].req
    /\ ~At(t, "idle")
    /\ Transferring(t) => Transferring(t)' /\ run'[t].pc # "idle"
    /\ \A k \in Tags : Kept(k)

Moves(t) ==
    /\ Goes(t)
    /\ run'[t].promise = run[t].promise /\ run'[t].frame = run[t].frame
    /\ run'[t].tags = run[t].tags
    /\ ~At(t, "started") /\ run'[t].pc # "started"

LEMMA GoesKeepsOwn ==
    ASSUME IInv, NEW t \in Threads, Goes(t) PROVE
    /\ ListenersLive' /\ OwnCounted'
<1>1. \A k \in Tags : /\ xfer'[k].state = xfer[k].state /\ xfer'[k].by = xfer[k].by
                      /\ xfer'[k].to = xfer[k].to
  BY DEF Goes, Kept
<1>2. \A k \in Tags : Running(k)' <=> Running(k)
  BY <1>1 DEF Running
<1>3. \A u \in Threads : run'[u].own = run[u].own /\ listener'[u] = listener[u]
  BY DEF Goes, OthersStay
<1>4. \A u \in Threads : run[u].own # {} /\ ~At(u, "idle") => run'[u].pc # "idle"
  BY DEF IInv, OwnCounted, Goes, OthersStay, At
<1>5. ListenersLive'
  BY <1>1, <1>2, <1>3, <1>4 DEF IInv, ListenersLive, At
<1>6. \A u \in Threads : run'[u].pc # "idle" => ~At(u, "idle")
  BY DEF Goes, OthersStay, At
<1>7. ASSUME NEW u \in Threads, run'[u].pc # "idle"
      PROVE  /\ run'[u].own # {} => Transferring(u)'
             /\ run'[u].own \subseteq Tags
             /\ \A k \in run'[u].own :
                   /\ xfer'[k].by = u /\ xfer'[k].state \in {"queued", "active", "done"}
                   /\ Running(k)' => xfer'[k].to = "multi"
             /\ listener'[u].created = Cardinality(run'[u].own)
             /\ listener'[u].permits = Cardinality(Ended(u)')
             /\ (\E k \in Ended(u)' : xfer'[k].error # "OK") => listener'[u].finalerror # "OK"
  <2>1. /\ run[u].own # {} => Transferring(u)
        /\ run[u].own \subseteq Tags
        /\ \A k \in run[u].own :
              /\ xfer[k].by = u /\ xfer[k].state \in {"queued", "active", "done"}
              /\ Running(k) => xfer[k].to = "multi"
        /\ listener[u].created = Cardinality(run[u].own)
        /\ listener[u].permits = Cardinality(Ended(u))
        /\ (\E k \in Ended(u) : xfer[k].error # "OK") => listener[u].finalerror # "OK"
    BY <1>6, <1>7 DEF IInv, OwnCounted
  <2>2. Ended(u)' = Ended(u)
    BY <1>1, <1>3, <2>1 DEF Ended
  <2>3. \A k \in Ended(u) : xfer'[k].error = xfer[k].error
    BY <2>1 DEF Goes, Kept, Ended
  <2>4. Transferring(u) => Transferring(u)'
    BY DEF Goes, OthersStay, Transferring, Req
  <2> QED
    BY <1>1, <1>2, <1>3, <2>1, <2>2, <2>3, <2>4
<1>8. OwnCounted'
  BY <1>7 DEF OwnCounted, At
<1> QED
  BY <1>5, <1>8

LEMMA MovesKeepsPromises ==
    ASSUME IInv, NEW t \in Threads, Moves(t) PROVE
    /\ StartsAwaited' /\ CallbackForTag' /\ PromisesOwn'
<1>1. \A k \in Tags : /\ xfer'[k].state = xfer[k].state /\ xfer'[k].by = xfer[k].by
                      /\ xfer'[k].to = xfer[k].to /\ xfer'[k].source = xfer[k].source
  BY DEF Moves, Goes, Kept
<1>2. \A u \in Threads : /\ run'[u].req = run[u].req /\ listener'[u] = listener[u]
                         /\ run'[u].promise = run[u].promise /\ run'[u].frame = run[u].frame
                         /\ run'[u].tags = run[u].tags
                         /\ run'[u].pc = "started" <=> run[u].pc = "started"
  BY DEF Moves, Goes, OthersStay, At
<1>3. \A u \in Threads : PrintsTag(u)' <=> PrintsTag(u)
  BY <1>2 DEF PrintsTag, Req
<1>4. CallbackForTag'
  BY <1>2, <1>3 DEF IInv, CallbackForTag
<1>5. PromisesOwn'
  BY <1>2 DEF IInv, PromisesOwn, At
<1>6. \A k \in Tags : xfer[k].state = "queued" /\ xfer[k].to = "multi" => xfer[k].by \in Threads
  BY DEF IInv, ListenersLive, Running
<1>7. StartsAwaited'
  BY <1>1, <1>2, <1>3, <1>6 DEF IInv, StartsAwaited, StartAwaited, AwaitsStart, At
<1> QED
  BY <1>4, <1>5, <1>7

LEMMA FieldNames ==
    ASSUME Fields PROVE
    /\ DOMAIN run = Threads /\ DOMAIN listener = Threads /\ DOMAIN xfer = Tags
    /\ \A t \in Threads :
          /\ DOMAIN run[t] = {"pc", "req", "jobs", "out", "api", "api4get", "promise", "frame",
                             "tags", "show", "own"}
          /\ DOMAIN listener[t] = {"created", "finished", "permits", "finalerror",
                                  "startedCount", "ongoing", "transferred", "total",
                                  "informed", "callback", "told"}
    /\ \A k \in Tags : DOMAIN xfer[k] = {"state", "type", "by", "to", "handle", "source", "api",
                                         "bytes", "error", "sync", "paused"}
BY DEF Fields, IdleRun, NewListener, NoTransfer

Waits(t) ==
    \/ PoolEmpty(t) \/ SemaphoreWait(t) \/ PopApi(t) \/ FreeFolder(t)
    \/ DownloadOverQuota(t) \/ DetailsAnswered(t) \/ DecryptAnswered(t) \/ Refused(t)
    \/ PublicNodeAnswered(t) \/ FolderLoginAnswered(t) \/ FolderFetchAnswered(t)
    \/ AuthorizeNode(t) \/ DownloadsStarted(t) \/ CopyAnswered(t) \/ FolderLogoutAnswered(t)
    \/ ImportFileAnswered(t) \/ PutMakedirAnswered(t) \/ UploadMissing(t) \/ UploadsStarted(t)
    \/ AllTransfersAnswered(t) \/ TransferByTag(t) \/ TagRequestAnswered(t)
    \/ TransfersDone(t) \/ ShowCompleted(t) \/ ShowNext(t) \/ ShowPrint(t)

LEMMA WaitsMove ==
    ASSUME IInv, NEW t \in Threads, Waits(t) PROVE Moves(t) /\ PlacesOf(t)' /\ Fields'
<1>0. PlacesOf(t) /\ Fields
  BY DEF IInv, Places, PlacesOf
<1> DEFINE Result == Moves(t) /\ PlacesOf(t)' /\ Fields'
<1>1. ASSUME PoolEmpty(t) PROVE Result
  BY <1>0, <1>1, FieldNames
     DEF PoolEmpty, NoFolderApis, Go, Fail, At, Req, Moves, Goes, OthersStay, Kept,
         Transferring, PlacesOf, Fields, NoFault, Fault, sdkVars, poolVars
<1>2. ASSUME SemaphoreWait(t) PROVE Result
  BY <1>0, <1>2, FieldNames
     DEF SemaphoreWait, Go, Fail, At, Req, Moves, Goes, OthersStay, Kept,
         Transferring, PlacesOf, Fields, NoFault, Fault, sdkVars, poolVars
<1>3. ASSUME PopApi(t) PROVE Result
  BY <1>0, <1>3, FieldNames
     DEF PopApi, Go, Fail, At, Req, Moves, Goes, OthersStay, Kept,
         Transferring, PlacesOf, Fields, NoFault, Fault, sdkVars, poolVars
<1>4. ASSUME FreeFolder(t) PROVE Result
  BY <1>0, <1>4, FieldNames
     DEF FreeFolder, FreeApiFolder, Go, Fail, At, Req, Moves, Goes, OthersStay, Kept,
         Transferring, PlacesOf, Fields, NoFault, Fault, sdkVars, poolVars
<1>5. ASSUME DownloadOverQuota(t) PROVE Result
  <2>1. At(t, "download") /\ run'[t].pc \in {"download", "details"}
    BY <1>5, FieldNames, <1>0 DEF DownloadOverQuota, NextJob, Go, At
  <2>2. /\ DOMAIN run' = Threads /\ DOMAIN run'[t] = DOMAIN run[t]
        /\ run'[t].own = run[t].own /\ run'[t].tags = run[t].tags
        /\ run'[t].promise = run[t].promise /\ run'[t].frame = run[t].frame
        /\ run'[t].req = run[t].req
        /\ \A u \in Threads \ {t} : run'[u] = run[u]
    BY <1>5, FieldNames, <1>0 DEF DownloadOverQuota, NextJob, Go
  <2>3. listener' = listener /\ DOMAIN xfer' = Tags
    BY <1>5, FieldNames, <1>0 DEF DownloadOverQuota, NextJob, Go, sdkVars
  <2>7. \A k \in Tags : Kept(k) /\ DOMAIN xfer'[k] = DOMAIN xfer[k]
    BY <1>5, FieldNames, <1>0 DEF DownloadOverQuota, NextJob, Go, ToEnd, Running, Kept, sdkVars
  <2>4. Fields'
    <3>1. \A u \in Threads : DOMAIN run'[u] = DOMAIN run[u]
      BY <2>2
    <3> QED
      BY <1>0, <2>2, <2>3, <2>7, <3>1 DEF Fields
  <2>5. PlacesOf(t)'
    BY <1>0, <2>1, <2>2 DEF At, Req, PlacesOf
  <2>6. Moves(t)
    BY <1>0, <2>1, <2>2, <2>3, <2>7 DEF At, Req, Moves, Goes, OthersStay, Transferring, PlacesOf
  <2> QED
    BY <2>4, <2>5, <2>6
<1>6. ASSUME DetailsAnswered(t) PROVE Result
  <2>1. At(t, "details") /\ run'[t].pc = "download"
    BY <1>6, FieldNames, <1>0 DEF DetailsAnswered, Answered, NextJob, At
  <2>2. /\ DOMAIN run' = Threads /\ DOMAIN run'[t] = DOMAIN run[t]
        /\ run'[t].own = run[t].own /\ run'[t].tags = run[t].tags
        /\ run'[t].promise = run[t].promise /\ run'[t].frame = run[t].frame
        /\ run'[t].req = run[t].req
        /\ \A u \in Threads \ {t} : run'[u] = run[u]
    BY <1>6, FieldNames, <1>0 DEF DetailsAnswered, Answered, NextJob
  <2>3. listener' = listener /\ DOMAIN xfer' = Tags
    BY <1>6, FieldNames, <1>0 DEF DetailsAnswered, Answered, NextJob, sdkVars
  <2>7. \A k \in Tags : Kept(k) /\ DOMAIN xfer'[k] = DOMAIN xfer[k]
    BY <1>6, FieldNames, <1>0 DEF DetailsAnswered, Answered, NextJob, ToEnd, Running, Kept, sdkVars
  <2>4. Fields'
    <3>1. \A u \in Threads : DOMAIN run'[u] = DOMAIN run[u]
      BY <2>2
    <3> QED
      BY <1>0, <2>2, <2>3, <2>7, <3>1 DEF Fields
  <2>5. PlacesOf(t)'
    BY <1>0, <2>1, <2>2 DEF At, Req, PlacesOf
  <2>6. Moves(t)
    BY <1>0, <2>1, <2>2, <2>3, <2>7 DEF At, Req, Moves, Goes, OthersStay, Transferring, PlacesOf
  <2> QED
    BY <2>4, <2>5, <2>6
<1>7. ASSUME DecryptAnswered(t) PROVE Result
  BY <1>0, <1>7, FieldNames
     DEF DecryptAnswered, Answered, AfterDecrypt, Go, Fail, At, Req, Moves, Goes, OthersStay, Kept,
         Transferring, PlacesOf, Fields, NoFault, Fault, sdkVars, poolVars
<1>8. ASSUME Refused(t) PROVE Result
  BY <1>0, <1>8, FieldNames
     DEF Refused, Go, Fail, At, Req, Moves, Goes, OthersStay, Kept,
         Transferring, PlacesOf, Fields, NoFault, Fault, sdkVars, poolVars
<1>9. ASSUME PublicNodeAnswered(t) PROVE Result
  BY <1>0, <1>9, FieldNames
     DEF PublicNodeAnswered, Answered, Go, Fail, At, Req, Moves, Goes, OthersStay, Kept,
         Transferring, PlacesOf, Fields, NoFault, Fault, sdkVars, poolVars
<1>10. ASSUME FolderLoginAnswered(t) PROVE Result
  BY <1>0, <1>10, FieldNames
     DEF FolderLoginAnswered, Go, Fail, At, Req, Moves, Goes, OthersStay, Kept,
         Transferring, PlacesOf, Fields, NoFault, Fault, sdkVars, poolVars
<1>11. ASSUME FolderFetchAnswered(t) PROVE Result
  BY <1>0, <1>11, FieldNames
     DEF FolderFetchAnswered, Answered, Go, Fail, At, Req, Moves, Goes, OthersStay, Kept,
         Transferring, PlacesOf, Fields, NoFault, Fault, sdkVars, poolVars
<1>12. ASSUME AuthorizeNode(t) PROVE Result
  BY <1>0, <1>12, FieldNames
     DEF AuthorizeNode, Go, Fail, At, Req, Moves, Goes, OthersStay, Kept,
         Transferring, PlacesOf, Fields, NoFault, Fault, sdkVars, poolVars
<1>13. ASSUME DownloadsStarted(t) PROVE Result
  BY <1>0, <1>13, FieldNames
     DEF DownloadsStarted, Go, Fail, At, Req, Moves, Goes, OthersStay, Kept,
         Transferring, PlacesOf, Fields, NoFault, Fault, sdkVars, poolVars
<1>14. ASSUME CopyAnswered(t) PROVE Result
  BY <1>0, <1>14, FieldNames
     DEF CopyAnswered, Answered, Go, Fail, At, Req, Moves, Goes, OthersStay, Kept,
         Transferring, PlacesOf, Fields, NoFault, Fault, sdkVars, poolVars
<1>15. ASSUME FolderLogoutAnswered(t) PROVE Result
  BY <1>0, <1>15, FieldNames
     DEF FolderLogoutAnswered, Go, Fail, At, Req, Moves, Goes, OthersStay, Kept,
         Transferring, PlacesOf, Fields, NoFault, Fault, sdkVars, poolVars
<1>16. ASSUME ImportFileAnswered(t) PROVE Result
  BY <1>0, <1>16, FieldNames
     DEF ImportFileAnswered, Answered, Return, Go, Fail, At, Req, Moves, Goes, OthersStay, Kept,
         Transferring, PlacesOf, Fields, NoFault, Fault, sdkVars, poolVars
<1>17. ASSUME PutMakedirAnswered(t) PROVE Result
  BY <1>0, <1>17, FieldNames
     DEF PutMakedirAnswered, Answered, Go, Fail, At, Req, Moves, Goes, OthersStay, Kept,
         Transferring, PlacesOf, Fields, NoFault, Fault, sdkVars, poolVars
<1>18. ASSUME UploadMissing(t) PROVE Result
  BY <1>0, <1>18, FieldNames
     DEF UploadMissing, Go, Fail, At, Req, Moves, Goes, OthersStay, Kept,
         Transferring, PlacesOf, Fields, NoFault, Fault, sdkVars, poolVars
<1>19. ASSUME UploadsStarted(t) PROVE Result
  BY <1>0, <1>19, FieldNames
     DEF UploadsStarted, Go, Fail, At, Req, Moves, Goes, OthersStay, Kept,
         Transferring, PlacesOf, Fields, NoFault, Fault, sdkVars, poolVars
<1>20. ASSUME AllTransfersAnswered(t) PROVE Result
  <2>1. At(t, "alltransfers") /\ run'[t].pc = "alltransfers"
    BY <1>20, FieldNames, <1>0 DEF AllTransfersAnswered, At
  <2>2. /\ DOMAIN run' = Threads /\ DOMAIN run'[t] = DOMAIN run[t]
        /\ run'[t].own = run[t].own /\ run'[t].tags = run[t].tags
        /\ run'[t].promise = run[t].promise /\ run'[t].frame = run[t].frame
        /\ run'[t].req = run[t].req
        /\ \A u \in Threads \ {t} : run'[u] = run[u]
    BY <1>20, FieldNames, <1>0 DEF AllTransfersAnswered
  <2>3. listener' = listener /\ DOMAIN xfer' = Tags
    BY <1>20, FieldNames, <1>0 DEF AllTransfersAnswered, sdkVars
  <2>7. \A k \in Tags : Kept(k) /\ DOMAIN xfer'[k] = DOMAIN xfer[k]
    <3> SUFFICES ASSUME NEW k \in Tags PROVE Kept(k) /\ DOMAIN xfer'[k] = DOMAIN xfer[k]
      OBVIOUS
    <3>1. \/ xfer'[k] = xfer[k]
          \/ Running(k) /\ xfer'[k] = ToEnd(k)
      BY <1>20, FieldNames, <1>0 DEF AllTransfersAnswered, sdkVars
    <3>2. Running(k) => xfer[k].state # "done"
      BY DEF Running
    <3> QED
      BY <3>1, <3>2, FieldNames, <1>0 DEF ToEnd, Kept
  <2>4. Fields'
    <3>1. \A u \in Threads : DOMAIN run'[u] = DOMAIN run[u]
      BY <2>2
    <3> QED
      BY <1>0, <2>2, <2>3, <2>7, <3>1 DEF Fields
  <2>5. PlacesOf(t)'
    BY <1>0, <2>1, <2>2 DEF At, Req, PlacesOf
  <2>6. Moves(t)
    BY <1>0, <2>1, <2>2, <2>3, <2>7 DEF At, Req, Moves, Goes, OthersStay, Transferring, PlacesOf
  <2> QED
    BY <2>4, <2>5, <2>6
<1>21. ASSUME TransferByTag(t) PROVE Result
  BY <1>0, <1>21, FieldNames
     DEF TransferByTag, Go, Fail, At, Req, Moves, Goes, OthersStay, Kept,
         Transferring, PlacesOf, Fields, NoFault, Fault, sdkVars, poolVars
<1>22. ASSUME TagRequestAnswered(t) PROVE Result
  <2>1. At(t, "tagrequest") /\ run'[t].pc = "bytag"
    BY <1>22, FieldNames, <1>0 DEF TagRequestAnswered, At
  <2>2. /\ DOMAIN run' = Threads /\ DOMAIN run'[t] = DOMAIN run[t]
        /\ run'[t].own = run[t].own /\ run'[t].tags = run[t].tags
        /\ run'[t].promise = run[t].promise /\ run'[t].frame = run[t].frame
        /\ run'[t].req = run[t].req
        /\ \A u \in Threads \ {t} : run'[u] = run[u]
    BY <1>22, FieldNames, <1>0 DEF TagRequestAnswered
  <2>3. listener' = listener /\ DOMAIN xfer' = Tags
    BY <1>22, FieldNames, <1>0 DEF TagRequestAnswered, sdkVars
  <2>7. \A k \in Tags : Kept(k) /\ DOMAIN xfer'[k] = DOMAIN xfer[k]
    <3> SUFFICES ASSUME NEW k \in Tags PROVE Kept(k) /\ DOMAIN xfer'[k] = DOMAIN xfer[k]
      OBVIOUS
    <3>1. \/ xfer'[k] = xfer[k]
          \/ Running(k) /\ xfer'[k] = ToEnd(k)
          \/ \E b \in BOOLEAN : Running(k) /\ xfer'[k] = [xfer[k] EXCEPT !.paused = b]
      BY <1>22, FieldNames, <1>0 DEF TagRequestAnswered, sdkVars
    <3>2. Running(k) => xfer[k].state # "done"
      BY DEF Running
    <3> QED
      BY <3>1, <3>2, FieldNames, <1>0 DEF ToEnd, Kept
  <2>4. Fields'
    <3>1. \A u \in Threads : DOMAIN run'[u] = DOMAIN run[u]
      BY <2>2
    <3> QED
      BY <1>0, <2>2, <2>3, <2>7, <3>1 DEF Fields
  <2>5. PlacesOf(t)'
    BY <1>0, <2>1, <2>2 DEF At, Req, PlacesOf
  <2>6. Moves(t)
    BY <1>0, <2>1, <2>2, <2>3, <2>7 DEF At, Req, Moves, Goes, OthersStay, Transferring, PlacesOf
  <2> QED
    BY <2>4, <2>5, <2>6
<1>23. ASSUME TransfersDone(t) PROVE Result
  BY <1>0, <1>23, FieldNames
     DEF TransfersDone, Return, Go, Fail, At, Req, Moves, Goes, OthersStay, Kept,
         Transferring, PlacesOf, Fields, NoFault, Fault, sdkVars, poolVars
<1>24. ASSUME ShowCompleted(t) PROVE Result
  BY <1>0, <1>24, FieldNames
     DEF ShowCompleted, Go, Fail, At, Req, Moves, Goes, OthersStay, Kept,
         Transferring, PlacesOf, Fields, NoFault, Fault, sdkVars, poolVars
<1>25. ASSUME ShowNext(t) PROVE Result
  BY <1>0, <1>25, FieldNames
     DEF ShowNext, TakeNext, Go, Fail, At, Req, Moves, Goes, OthersStay, Kept,
         Transferring, PlacesOf, Fields, NoFault, Fault, sdkVars, poolVars
<1>26. ASSUME ShowPrint(t) PROVE Result
  BY <1>0, <1>26, FieldNames
     DEF ShowPrint, Go, Fail, At, Req, Moves, Goes, OthersStay, Kept,
         Transferring, PlacesOf, Fields, NoFault, Fault, sdkVars, poolVars
<1> QED
  BY <1>1, <1>2, <1>3, <1>4, <1>5, <1>6, <1>7, <1>8, <1>9, <1>10, <1>11, <1>12, <1>13,
     <1>14, <1>15, <1>16, <1>17, <1>18, <1>19, <1>20, <1>21, <1>22, <1>23, <1>24, <1>25, <1>26
     DEF Waits

(* A command begins, or is refused at once: nothing is left of the one      *)
(* before.                                                                  *)
Begins(t) ==
    /\ At(t, "idle")
    /\ OthersStay(t)
    /\ xfer' = xfer
    /\ listener'[t] = NewListener
    /\ run'[t].own = {} /\ run'[t].tags = <<>> /\ run'[t].promise = NoTag
    /\ run'[t].pc # "started"

LEMMA CommandsBegin ==
    ASSUME IInv, NEW t \in Threads, Command(t) PROVE Begins(t) /\ PlacesOf(t)' /\ Fields'
<1>0. Fields
  BY DEF IInv
<1> DEFINE Result == Begins(t) /\ PlacesOf(t)' /\ Fields'
           New(pc) == NewRun(t, Head(script[t]), pc)
           Refusal(code) == [IdleRun EXCEPT !.req = Head(script[t]), !.out = code]
<1>b. ASSUME NEW op, Begin(t, op)
      PROVE  /\ At(t, "idle") /\ Head(script[t]).op = op /\ xfer' = xfer
             /\ listener' = [listener EXCEPT ![t] = NewListener]
             /\ DOMAIN listener' = Threads /\ listener'[t] = NewListener
             /\ \A u \in Threads \ {t} : listener'[u] = listener[u]
  BY <1>0, <1>b, FieldNames DEF Begin, sdkVars
<1>1. ASSUME GetRemote(t) PROVE Result
  <2>0. Begin(t, "get")
    BY <1>1 DEF GetRemote
  <2>1. \/ run' = [run EXCEPT ![t] = [New("finish") EXCEPT !.out = "NOTFOUND"]]
        \/ run' = [run EXCEPT ![t] = Refusal(DestinationError(Head(script[t])))]
        \/ run' = [run EXCEPT ![t] = [New("download") EXCEPT !.jobs = Head(script[t]).nodes]]
    BY <1>1 DEF GetRemote, Refuse
  <2>2. /\ DOMAIN run' = Threads
        /\ \A u \in Threads \ {t} : run'[u] = run[u]
    BY <2>1, <1>0, FieldNames
  <2>3. \/ run'[t] = [New("finish") EXCEPT !.out = "NOTFOUND"]
        \/ run'[t] = Refusal(DestinationError(Head(script[t])))
        \/ run'[t] = [New("download") EXCEPT !.jobs = Head(script[t]).nodes]
    BY <2>1, <1>0, FieldNames
  <2>4. /\ DOMAIN run' = Threads /\ DOMAIN run'[t] = DOMAIN IdleRun
        /\ \A u \in Threads \ {t} : run'[u] = run[u]
        /\ run'[t].own = {} /\ run'[t].tags = <<>> /\ run'[t].promise = NoTag
    <3>1. CASE run'[t] = [New("finish") EXCEPT !.out = "NOTFOUND"]
      BY <2>2, <3>1 DEF NewRun, IdleRun
    <3>2. CASE run'[t] = Refusal(DestinationError(Head(script[t])))
      BY <2>2, <3>2 DEF NewRun, IdleRun
    <3>3. CASE run'[t] = [New("download") EXCEPT !.jobs = Head(script[t]).nodes]
      BY <2>2, <3>3 DEF NewRun, IdleRun
    <3> QED
      BY <2>2, <2>3, <3>1, <3>2, <3>3
  <2>5. /\ run'[t].pc # "started" /\ PlacesOf(t)'
    <3>1. CASE run'[t] = [New("finish") EXCEPT !.out = "NOTFOUND"]
      BY <2>0, <1>b, <3>1 DEF NewRun, IdleRun, PlacesOf, At, Req
    <3>2. CASE run'[t] = Refusal(DestinationError(Head(script[t])))
      BY <2>0, <1>b, <3>2 DEF NewRun, IdleRun, PlacesOf, At, Req
    <3>3. CASE run'[t] = [New("download") EXCEPT !.jobs = Head(script[t]).nodes]
      BY <2>0, <1>b, <3>3 DEF NewRun, IdleRun, PlacesOf, At, Req
    <3> QED
      BY <2>3, <3>1, <3>2, <3>3
  <2> QED
    BY <1>0, <1>b, <2>0, <2>4, <2>5 DEF Begins, Fields, OthersStay, At
<1>2. ASSUME GetLink(t) PROVE Result
  <2>0. Begin(t, "get")
    BY <1>2 DEF GetLink
  <2>1. /\ DOMAIN run' = Threads /\ DOMAIN run'[t] = DOMAIN IdleRun
        /\ \A u \in Threads \ {t} : run'[u] = run[u]
        /\ run'[t].own = {} /\ run'[t].tags = <<>> /\ run'[t].promise = NoTag
    BY <1>2, <1>0, FieldNames DEF GetLink, Refuse, NewRun, IdleRun
  <2>2. /\ run'[t].pc # "started" /\ PlacesOf(t)'
    BY <1>2, <1>0, <2>0, <1>b, FieldNames
       DEF GetLink, AfterDecrypt, Refuse, NewRun, IdleRun, PlacesOf, At, Req
  <2> QED
    BY <1>0, <1>b, <2>0, <2>1, <2>2 DEF Begins, Fields, OthersStay, At
<1>3. ASSUME ImportLink(t) PROVE Result
  <2>0. Begin(t, "import")
    BY <1>3 DEF ImportLink
  <2>1. /\ DOMAIN run' = Threads /\ DOMAIN run'[t] = DOMAIN IdleRun
        /\ \A u \in Threads \ {t} : run'[u] = run[u]
        /\ run'[t].own = {} /\ run'[t].tags = <<>> /\ run'[t].promise = NoTag
    BY <1>3, <1>0, FieldNames DEF ImportLink, Refuse, NewRun, IdleRun
  <2>2. /\ run'[t].pc # "started" /\ PlacesOf(t)'
    BY <1>3, <1>0, <2>0, <1>b, FieldNames
       DEF ImportLink, AfterDecrypt, Refuse, NewRun, IdleRun, PlacesOf, At, Req
  <2> QED
    BY <1>0, <1>b, <2>0, <2>1, <2>2 DEF Begins, Fields, OthersStay, At
<1>4. ASSUME Put(t) PROVE Result
  <2>0. Begin(t, "put")
    BY <1>4 DEF Put
  <2>1. \/ run' = [run EXCEPT ![t] = New("makedir")]
        \/ run' = [run EXCEPT ![t] = Refusal("NOTFOUND")]
        \/ run' = [run EXCEPT ![t] = Refusal("INVALIDTYPE")]
        \/ run' = [run EXCEPT ![t] = [New("upload") EXCEPT !.jobs = Head(script[t]).paths]]
    BY <1>4 DEF Put, Refuse
  <2>2. /\ DOMAIN run' = Threads
        /\ \A u \in Threads \ {t} : run'[u] = run[u]
    BY <2>1, <1>0, FieldNames
  <2>3. \/ run'[t] = New("makedir")
        \/ run'[t] = Refusal("NOTFOUND")
        \/ run'[t] = Refusal("INVALIDTYPE")
        \/ run'[t] = [New("upload") EXCEPT !.jobs = Head(script[t]).paths]
    BY <2>1, <1>0, FieldNames
  <2>4. /\ DOMAIN run' = Threads /\ DOMAIN run'[t] = DOMAIN IdleRun
        /\ \A u \in Threads \ {t} : run'[u] = run[u]
        /\ run'[t].own = {} /\ run'[t].tags = <<>> /\ run'[t].promise = NoTag
    <3>1. CASE run'[t] = New("makedir")
      BY <2>2, <3>1 DEF NewRun, IdleRun
    <3>2. CASE run'[t] = Refusal("NOTFOUND")
      BY <2>2, <3>2 DEF NewRun, IdleRun
    <3>3. CASE run'[t] = Refusal("INVALIDTYPE")
      BY <2>2, <3>3 DEF NewRun, IdleRun
    <3>4. CASE run'[t] = [New("upload") EXCEPT !.jobs = Head(script[t]).paths]
      BY <2>2, <3>4 DEF NewRun, IdleRun
    <3> QED
      BY <2>2, <2>3, <3>1, <3>2, <3>3, <3>4
  <2>5. /\ run'[t].pc # "started" /\ PlacesOf(t)'
    <3>1. CASE run'[t] = New("makedir")
      BY <2>0, <1>b, <3>1 DEF NewRun, IdleRun, PlacesOf, At, Req
    <3>2. CASE run'[t] = Refusal("NOTFOUND")
      BY <2>0, <1>b, <3>2 DEF NewRun, IdleRun, PlacesOf, At, Req
    <3>3. CASE run'[t] = Refusal("INVALIDTYPE")
      BY <2>0, <1>b, <3>3 DEF NewRun, IdleRun, PlacesOf, At, Req
    <3>4. CASE run'[t] = [New("upload") EXCEPT !.jobs = Head(script[t]).paths]
      BY <2>0, <1>b, <3>4 DEF NewRun, IdleRun, PlacesOf, At, Req
    <3> QED
      BY <2>3, <3>1, <3>2, <3>3, <3>4
  <2> QED
    BY <1>0, <1>b, <2>0, <2>4, <2>5 DEF Begins, Fields, OthersStay, At
<1>5. ASSUME Transfers(t) PROVE Result
  <2>0. Begin(t, "transfers")
    BY <1>5 DEF Transfers
  <2>1. /\ DOMAIN run' = Threads /\ DOMAIN run'[t] = DOMAIN IdleRun
        /\ \A u \in Threads \ {t} : run'[u] = run[u]
        /\ run'[t].own = {} /\ run'[t].tags = <<>> /\ run'[t].promise = NoTag
    BY <1>5, <1>0, FieldNames DEF Transfers, Refuse, NewRun, IdleRun
  <2>2. /\ run'[t].pc # "started" /\ PlacesOf(t)'
    BY <1>5, <1>0, <2>0, <1>b, FieldNames
       DEF Transfers, Refuse, NewRun, IdleRun, PlacesOf, At, Req
  <2> QED
    BY <1>0, <1>b, <2>0, <2>1, <2>2 DEF Begins, Fields, OthersStay, At
<1>6. ASSUME ShowTransfers(t) PROVE Result
  <2>0. Begin(t, "transfers")
    BY <1>6 DEF ShowTransfers
  <2>1. /\ DOMAIN run' = Threads /\ DOMAIN run'[t] = DOMAIN IdleRun
        /\ \A u \in Threads \ {t} : run'[u] = run[u]
        /\ run'[t].own = {} /\ run'[t].tags = <<>> /\ run'[t].promise = NoTag
    BY <1>6, <1>0, FieldNames DEF ShowTransfers, Refuse, NewRun, IdleRun
  <2>2. /\ run'[t].pc # "started" /\ PlacesOf(t)'
    BY <1>6, <1>0, <2>0, <1>b, FieldNames
       DEF ShowTransfers, Refuse, NewRun, IdleRun, PlacesOf, At, Req
  <2> QED
    BY <1>0, <1>b, <2>0, <2>1, <2>2 DEF Begins, Fields, OthersStay, At
<1> QED
  BY <1>1, <1>2, <1>3, <1>4, <1>5, <1>6 DEF Command

LEMMA BeginsKeepsInv ==
    ASSUME IInv, NEW t \in Threads, Begins(t) PROVE
    /\ ListenersLive' /\ StartsAwaited' /\ CallbackForTag' /\ PromisesOwn' /\ OwnCounted'
<1>1. \A k \in Tags : Running(k)' <=> Running(k)
  BY DEF Begins, Running
<1>2. \A k \in Tags : Running(k) /\ xfer[k].to = "multi" => xfer[k].by \in Threads \ {t}
  BY DEF IInv, ListenersLive, Begins
<1>3. \A u \in Threads \ {t} : run'[u] = run[u] /\ listener'[u] = listener[u]
  BY DEF Begins, OthersStay
<1>4. ListenersLive'
  BY <1>1, <1>2, <1>3 DEF IInv, ListenersLive, Begins, At
<1>5. \A u \in Threads \ {t} : PrintsTag(u)' <=> PrintsTag(u)
  BY <1>3 DEF PrintsTag, Req
<1>6. \A k \in Tags : xfer[k].state = "queued" /\ xfer[k].to = "self" =>
         xfer[k].by \in Threads \ {t}
  BY DEF IInv, StartsAwaited, StartAwaited, AwaitsStart, Begins, At
<1>7. StartsAwaited'
  <2>1. \A u \in Threads \ {t}, k \in Tags : AwaitsStart(u, k)' <=> AwaitsStart(u, k)
    BY <1>3 DEF AwaitsStart, At
  <2> QED
    BY <1>2, <1>3, <1>5, <1>6, <2>1 DEF IInv, StartsAwaited, StartAwaited, Begins, Running
<1>8. CallbackForTag'
  BY <1>3, <1>5, NewListenerFields DEF IInv, CallbackForTag, Begins
<1>9. PromisesOwn'
  <2>1. NoTag \in 0 .. MaxTransfers
    BY BoundsAssumption DEF NoTag, BoundsAssumption
  <2>2. run'[t].tags \in Seq({<<k, k>> : k \in Tags})
    BY EmptyTags DEF Begins
  <2> QED
    BY <1>3, <2>1, <2>2 DEF IInv, PromisesOwn, Begins, At
<1>10. OwnCounted'
  <2>1. \A u \in Threads \ {t} :
           /\ Ended(u)' = Ended(u) /\ (Transferring(u)' <=> Transferring(u))
           /\ (At(u, "idle")' <=> At(u, "idle"))
    BY <1>3 DEF Ended, Begins, Transferring, Req, At
  <2>2. Ended(t)' = {} /\ run'[t].own = {}
    BY DEF Ended, Begins
  <2>3. Cardinality({}) = 0
    BY FS_EmptySet
  <2>4. \A u \in Threads \ {t} : listener'[u] = listener[u] /\ run'[u].own = run[u].own
    BY <1>3
  <2>5. ASSUME NEW u \in Threads \ {t}, run'[u].pc # "idle"
        PROVE  /\ run'[u].own # {} => Transferring(u)'
               /\ run'[u].own \subseteq Tags
               /\ \A k \in run'[u].own :
                     /\ xfer'[k].by = u /\ xfer'[k].state \in {"queued", "active", "done"}
                     /\ Running(k)' => xfer'[k].to = "multi"
               /\ listener'[u].created = Cardinality(run'[u].own)
               /\ listener'[u].permits = Cardinality(Ended(u)')
               /\ (\E k \in Ended(u)' : xfer'[k].error # "OK") =>
                     listener'[u].finalerror # "OK"
    BY <1>1, <2>1, <2>4, <2>5 DEF IInv, OwnCounted, Begins, At
  <2>6. listener'[t].created = 0 /\ listener'[t].permits = 0
    BY NewListenerFields DEF Begins
  <2> QED
    BY <2>2, <2>3, <2>5, <2>6 DEF OwnCounted, At
<1> QED
  BY <1>4, <1>7, <1>8, <1>9, <1>10

-----------------------------------------------------------------------------
(* A transfer is started. *)

StartsOne(t, k) ==
    /\ OthersStay(t)
    /\ k \in Tags /\ xfer[k].state = "none" /\ xfer'[k].state = "queued" /\ xfer'[k].by = t
    /\ \A j \in Tags \ {k} : xfer'[j] = xfer[j]
    /\ ~At(t, "idle") /\ run'[t].pc # "idle" /\ Transferring(t)'
    /\ listener'[t].permits = listener[t].permits
    /\ listener'[t].finalerror = listener[t].finalerror
    /\ \/ /\ xfer'[k].to = "multi"
          /\ run'[t].own = run[t].own \cup {k}
          /\ listener'[t].created = listener[t].created + 1
       \/ /\ xfer'[k].to # "multi"
          /\ run'[t].own = run[t].own
          /\ listener'[t].created = listener[t].created

LEMMA StartsOneKeepsOwn ==
    ASSUME IInv, NEW t \in Threads, NEW k \in Tags, StartsOne(t, k)
    PROVE  ListenersLive' /\ OwnCounted'
<1>1. \A j \in Tags \ {k} : (Running(j)' <=> Running(j)) /\ xfer'[j] = xfer[j]
  BY DEF StartsOne, Running
<1>2. \A u \in Threads \ {t} : run'[u] = run[u] /\ listener'[u] = listener[u]
  BY DEF StartsOne, OthersStay
<1>3. ListenersLive'
  <2>1. run[t].own \subseteq run'[t].own /\ run'[t].pc # "idle"
    BY DEF StartsOne
  <2>2. xfer'[k].to = "multi" => k \in run'[t].own /\ xfer'[k].by = t
    BY DEF StartsOne
  <2> QED
    BY <1>1, <1>2, <2>1, <2>2 DEF IInv, ListenersLive, At
<1>4. \A u \in Threads : ~At(u, "idle") => k \notin run[u].own
  BY DEF StartsOne, IInv, OwnCounted
<1>5. ASSUME NEW u \in Threads \ {t}, run'[u].pc # "idle"
      PROVE  /\ run'[u].own # {} => Transferring(u)'
             /\ run'[u].own \subseteq Tags
             /\ \A j \in run'[u].own :
                   /\ xfer'[j].by = u /\ xfer'[j].state \in {"queued", "active", "done"}
                   /\ Running(j)' => xfer'[j].to = "multi"
             /\ listener'[u].created = Cardinality(run'[u].own)
             /\ listener'[u].permits = Cardinality(Ended(u)')
             /\ (\E j \in Ended(u)' : xfer'[j].error # "OK") => listener'[u].finalerror # "OK"
  <2>1. /\ run'[u].own = run[u].own /\ listener'[u] = listener[u] /\ ~At(u, "idle")
        /\ (Transferring(u)' <=> Transferring(u))
    BY <1>2, <1>5 DEF At, Transferring, Req
  <2>2. run[u].own \subseteq Tags \ {k}
    BY <1>4, <2>1 DEF IInv, OwnCounted
  <2>3. Ended(u)' = Ended(u) /\ Ended(u) \subseteq Tags \ {k}
    BY <1>1, <2>1, <2>2 DEF Ended
  <2>4. \A j \in run[u].own : xfer'[j] = xfer[j] /\ (Running(j)' <=> Running(j))
    BY <1>1, <2>2
  <2> QED
    BY <1>1, <2>1, <2>2, <2>3, <2>4 DEF IInv, OwnCounted
<1>6. /\ Transferring(t)'
      /\ run'[t].own \subseteq Tags
      /\ \A j \in run'[t].own :
            /\ xfer'[j].by = t /\ xfer'[j].state \in {"queued", "active", "done"}
            /\ Running(j)' => xfer'[j].to = "multi"
      /\ listener'[t].created = Cardinality(run'[t].own)
      /\ listener'[t].permits = Cardinality(Ended(t)')
      /\ (\E j \in Ended(t)' : xfer'[j].error # "OK") => listener'[t].finalerror # "OK"
  <2>1. /\ run[t].own \subseteq Tags /\ k \notin run[t].own
        /\ \A j \in run[t].own :
              /\ xfer[j].by = t /\ xfer[j].state \in {"queued", "active", "done"}
              /\ Running(j) => xfer[j].to = "multi"
        /\ listener[t].created = Cardinality(run[t].own)
        /\ listener[t].permits = Cardinality(Ended(t))
        /\ (\E j \in Ended(t) : xfer[j].error # "OK") => listener[t].finalerror # "OK"
    BY <1>4 DEF StartsOne, IInv, OwnCounted
  <2>2. run'[t].own \in {run[t].own, run[t].own \cup {k}}
    BY DEF StartsOne
  <2>3. \A j \in run[t].own : xfer'[j] = xfer[j] /\ (Running(j)' <=> Running(j))
    BY <1>1, <2>1
  <2>4. Ended(t)' = Ended(t) /\ Ended(t) \subseteq run[t].own
    BY <2>2, <2>3 DEF Ended, StartsOne
  <2>5. IsFiniteSet(run[t].own)
    BY <2>1, TagsAreFinite, FS_Subset
  <2>6. Cardinality(run[t].own \cup {k}) = Cardinality(run[t].own) + 1
    BY <2>1, <2>5, FS_AddElement
  <2>7. listener'[t].created = Cardinality(run'[t].own)
    BY <2>1, <2>6 DEF StartsOne
  <2>8. \A j \in run'[t].own :
            /\ xfer'[j].by = t /\ xfer'[j].state \in {"queued", "active", "done"}
            /\ Running(j)' => xfer'[j].to = "multi"
    BY <2>1, <2>3 DEF StartsOne
  <2>9. listener'[t].permits = Cardinality(Ended(t)')
    BY <2>1, <2>4 DEF StartsOne
  <2>10. (\E j \in Ended(t)' : xfer'[j].error # "OK") => listener'[t].finalerror # "OK"
    BY <2>1, <2>3, <2>4 DEF StartsOne
  <2> QED
    BY <2>1, <2>2, <2>7, <2>8, <2>9, <2>10 DEF StartsOne
<1>7. \A u \in Threads : u = t \/ u \in Threads \ {t}
  OBVIOUS
<1>8. OwnCounted'
  BY <1>5, <1>6, <1>7 DEF OwnCounted, At
<1> QED
  BY <1>3, <1>8

(* A download: neither the promise nor the callback is touched. *)
StartsGet(t, k) ==
    /\ StartsOne(t, k)
    /\ xfer'[k].to = "multi"
    /\ listener'[t].callback = listener[t].callback
    /\ run'[t].tags = run[t].tags /\ run'[t].promise = run[t].promise
    /\ run'[t].req = run[t].req /\ run[t].req.op = "get"
    /\ ~At(t, "started") /\ run'[t].pc # "started"

LEMMA StartsGetKeepsPromises ==
    ASSUME IInv, NEW t \in Threads, NEW k \in Tags, StartsGet(t, k)
    PROVE  StartsAwaited' /\ CallbackForTag' /\ PromisesOwn'
<1>1. \A u \in Threads \ {t} : run'[u] = run[u] /\ listener'[u] = listener[u]
  BY DEF StartsGet, StartsOne, OthersStay
<1>2. \A j \in Tags \ {k} : xfer'[j] = xfer[j]
  BY DEF StartsGet, StartsOne
<1>3. xfer'[k].by = t /\ xfer'[k].to = "multi" /\ ~PrintsTag(t) /\ ~PrintsTag(t)'
  BY DEF StartsGet, StartsOne, PrintsTag, Req
<1>4. \A u \in Threads \ {t} : PrintsTag(u)' <=> PrintsTag(u)
  BY <1>1 DEF PrintsTag, Req
<1>5. CallbackForTag'
  BY <1>1, <1>3, <1>4 DEF IInv, CallbackForTag, StartsGet
<1>6. PromisesOwn'
  BY <1>1 DEF IInv, PromisesOwn, StartsGet, At
<1>7. StartsAwaited'
  <2>1. \A u \in Threads \ {t}, j \in Tags : AwaitsStart(u, j)' <=> AwaitsStart(u, j)
    BY <1>1 DEF AwaitsStart, At
  <2>2. \A j \in Tags : ~AwaitsStart(t, j)
    BY DEF AwaitsStart, StartsGet
  <2>3. \A j \in Tags \ {k} : xfer[j].state = "queued" /\ xfer[j].to = "self" =>
            xfer[j].by \in Threads \ {t}
    BY <2>2 DEF IInv, StartsAwaited, StartAwaited
  <2>4. \A j \in Tags : xfer[j].state = "queued" /\ xfer[j].to = "multi" =>
            xfer[j].by \in Threads
    BY DEF IInv, ListenersLive, Running
  <2> QED
    BY <1>1, <1>2, <1>3, <1>4, <2>1, <2>3, <2>4 DEF IInv, StartsAwaited, StartAwaited
<1> QED
  BY <1>5, <1>6, <1>7

LEMMA DownloadStarts ==
    ASSUME IInv, NEW t \in Threads, run[t].pc \in {"download", "quota"}, CanStart,
           StartTransfer(t, "D", "multi", Job(t), 0, run[t].api4get),
           listener' = [listener EXCEPT ![t] = OnNewTransfer(@)],
           \/ run' = [run EXCEPT ![t] = [NextJob(run[t]) EXCEPT !.own = @ \cup {NextTag}]]
           \/ run' = [run EXCEPT ![t] = [NextJob(run[t]) EXCEPT !.own = @ \cup {NextTag},
                                                           !.out = "EFAILED"]]
    PROVE  StartsGet(t, NextTag) /\ NextTag \in Tags /\ PlacesOf(t)' /\ Fields'
<1>0. Fields /\ Req(t).op = "get"
  BY DEF IInv, Places
<1>1. NextTag \in Tags /\ xfer[NextTag].state = "none"
  BY NextTagIsFree
<1>2. /\ DOMAIN run' = Threads /\ DOMAIN run'[t] = DOMAIN run[t]
      /\ \A u \in Threads \ {t} : run'[u] = run[u]
      /\ run'[t].own = run[t].own \cup {NextTag}
      /\ run'[t].tags = run[t].tags /\ run'[t].promise = run[t].promise
      /\ run'[t].req = run[t].req /\ run'[t].pc = "download"
  <2> DEFINE plain == [NextJob(run[t]) EXCEPT !.own = @ \cup {NextTag}]
             failed == [NextJob(run[t]) EXCEPT !.own = @ \cup {NextTag}, !.out = "EFAILED"]
  <2>1. DOMAIN run' = Threads /\ \A u \in Threads \ {t} : run'[u] = run[u]
    BY <1>0, FieldNames
  <2>2. run'[t] = plain \/ run'[t] = failed
    <3>1. run' = [run EXCEPT ![t] = plain] \/ run' = [run EXCEPT ![t] = failed]
      OBVIOUS
    <3> HIDE DEF plain, failed
    <3> QED
      BY <1>0, <3>1, FieldNames
  <2>3. DOMAIN run[t] = DOMAIN NextJob(run[t])
    BY DEF NextJob
  <2>4. /\ NextJob(run[t]).own = run[t].own /\ NextJob(run[t]).tags = run[t].tags
        /\ NextJob(run[t]).promise = run[t].promise /\ NextJob(run[t]).req = run[t].req
        /\ NextJob(run[t]).pc = "download"
    BY <1>0, FieldNames DEF NextJob
  <2> QED
    BY <1>0, <2>1, <2>2, <2>3, <2>4, FieldNames
<1>3. /\ DOMAIN listener' = Threads /\ DOMAIN listener'[t] = DOMAIN listener[t]
      /\ \A u \in Threads \ {t} : listener'[u] = listener[u]
      /\ listener'[t].created = listener[t].created + 1
      /\ listener'[t].permits = listener[t].permits
      /\ listener'[t].finalerror = listener[t].finalerror
      /\ listener'[t].callback = listener[t].callback
  BY <1>0, FieldNames DEF OnNewTransfer
<1>4. /\ DOMAIN xfer' = Tags /\ DOMAIN xfer'[NextTag] = DOMAIN NoTransfer
      /\ xfer'[NextTag].state = "queued" /\ xfer'[NextTag].by = t
      /\ xfer'[NextTag].to = "multi"
      /\ \A j \in Tags \ {NextTag} : xfer'[j] = xfer[j]
  BY <1>0, <1>1, FieldNames DEF StartTransfer, NoTransfer
<1>5. StartsOne(t, NextTag)
  BY <1>1, <1>2, <1>3, <1>4 DEF StartsOne, OthersStay, Transferring, At
<1>6. StartsGet(t, NextTag)
  BY <1>0, <1>2, <1>3, <1>4, <1>5 DEF StartsGet, At, Req
<1>7. PlacesOf(t)'
  BY <1>0, <1>2 DEF PlacesOf, At, Req
<1>8. Fields'
  BY <1>0, <1>1, <1>2, <1>3, <1>4 DEF Fields
<1> QED
  BY <1>1, <1>6, <1>7, <1>8

LEMMA DownloadNodeEffect ==
    ASSUME IInv, NEW t \in Threads, DownloadNode(t)
    PROVE  /\ PlacesOf(t)' /\ Fields'
           /\ Moves(t) \/ \E k \in Tags : StartsGet(t, k)
<1>1. CASE Req(t).ignore
  <2>1. /\ run[t].pc \in {"download", "quota"} /\ CanStart
        /\ StartTransfer(t, "D", "multi", Job(t), 0, run[t].api4get)
        /\ listener' = [listener EXCEPT ![t] = OnNewTransfer(@)]
        /\ run' = [run EXCEPT ![t] = [NextJob(run[t]) EXCEPT !.own = @ \cup {NextTag}]]
    BY <1>1 DEF DownloadNode, StartDownload, At
  <2> QED
    BY <2>1, DownloadStarts
<1>2. CASE ~Req(t).ignore
  <2>0. Fields /\ Req(t).op = "get"
    BY DEF IInv, Places, DownloadNode, At
  <2>1. Go(t, "quota") /\ listener' = listener /\ xfer' = xfer /\ At(t, "download")
    BY <1>2 DEF DownloadNode
  <2> QED
    BY <2>0, <2>1, FieldNames
       DEF Go, At, Req, Moves, Goes, OthersStay, Kept, Transferring, PlacesOf, Fields
<1> QED
  BY <1>1, <1>2

LEMMA QuotaAnsweredEffect ==
    ASSUME IInv, NEW t \in Threads, QuotaAnswered(t)
    PROVE  /\ PlacesOf(t)' /\ Fields'
           /\ Moves(t) \/ \E k \in Tags : StartsGet(t, k)
<1>1. CASE /\ run[t].pc \in {"download", "quota"} /\ CanStart
           /\ StartTransfer(t, "D", "multi", Job(t), 0, run[t].api4get)
           /\ listener' = [listener EXCEPT ![t] = OnNewTransfer(@)]
           /\ \/ run' = [run EXCEPT ![t] = [NextJob(run[t]) EXCEPT !.own = @ \cup {NextTag}]]
              \/ run' = [run EXCEPT ![t] = [NextJob(run[t]) EXCEPT !.own = @ \cup {NextTag},
                                                              !.out = "EFAILED"]]
  BY <1>1, DownloadStarts
<1>2. CASE /\ At(t, "quota") /\ run' = [run EXCEPT ![t] = NextJob(@)]
           /\ listener' = listener /\ xfer' = xfer
  <2>0. Fields /\ Req(t).op = "get"
    BY <1>2 DEF IInv, Places, At
  <2> QED
    BY <1>2, <2>0, FieldNames
       DEF NextJob, At, Req, Moves, Goes, OthersStay, Kept, Transferring, PlacesOf, Fields
<1> QED
  BY <1>1, <1>2 DEF QuotaAnswered, StartDownload, At

(* An upload: the thread sleeps on a promise of its own when it has to      *)
(* print the tag, and the listener knows this call and no other. *)
StartsPut(t, k) ==
    /\ StartsOne(t, k)
    /\ At(t, "upload") /\ run'[t].pc = (IF Req(t).tag THEN "started" ELSE "upload")
    /\ run'[t].req = run[t].req /\ run'[t].tags = run[t].tags
    /\ run'[t].promise = NoTag /\ run'[t].frame = k
    /\ xfer'[k].source = k
    /\ \/ xfer'[k].to = "multi" /\ listener'[t].callback = (IF Req(t).tag THEN k ELSE 0)
       \/ /\ xfer'[k].to # "multi" /\ (xfer'[k].to = "self" => Req(t).tag)
          /\ listener'[t].callback = listener[t].callback

LEMMA UploadNodeEffect ==
    ASSUME IInv, NEW t \in Threads, UploadNode(t)
    PROVE  /\ PlacesOf(t)' /\ Fields'
           /\ \E k \in Tags : StartsPut(t, k)
<1> DEFINE k == NextTag
           to == IF Foreground(t) THEN "multi" ELSE IF Req(t).tag THEN "self" ELSE "none"
<1>0. Fields /\ Req(t).op = "put" /\ At(t, "upload")
  BY DEF IInv, Places, UploadNode, At
<1>1. k \in Tags /\ xfer[k].state = "none"
  BY NextTagIsFree DEF UploadNode
<1>2. /\ DOMAIN run' = Threads /\ DOMAIN run'[t] = DOMAIN run[t]
      /\ \A u \in Threads \ {t} : run'[u] = run[u]
      /\ run'[t].own = (IF Foreground(t) THEN run[t].own \cup {k} ELSE run[t].own)
      /\ run'[t].tags = run[t].tags /\ run'[t].promise = NoTag /\ run'[t].frame = k
      /\ run'[t].req = run[t].req
      /\ run'[t].pc = (IF Req(t).tag THEN "started" ELSE "upload")
  BY <1>0, FieldNames DEF UploadNode
<1>3. /\ DOMAIN listener' = Threads /\ DOMAIN listener'[t] = DOMAIN listener[t]
      /\ \A u \in Threads \ {t} : listener'[u] = listener[u]
      /\ listener'[t].permits = listener[t].permits
      /\ listener'[t].finalerror = listener[t].finalerror
      /\ Foreground(t) => /\ listener'[t].created = listener[t].created + 1
                          /\ listener'[t].callback = (IF Req(t).tag THEN k ELSE 0)
      /\ ~Foreground(t) => listener'[t] = listener[t]
  <2>1. CASE Foreground(t)
    <3> DEFINE l == [OnNewTransfer(listener[t]) EXCEPT !.callback = IF Req(t).tag THEN k ELSE 0]
    <3>1. listener' = [listener EXCEPT ![t] = l]
      BY <2>1 DEF UploadNode
    <3>2. /\ DOMAIN l = DOMAIN listener[t] /\ l.permits = listener[t].permits
          /\ l.finalerror = listener[t].finalerror /\ l.created = listener[t].created + 1
          /\ l.callback = (IF Req(t).tag THEN k ELSE 0)
      BY <1>0, FieldNames DEF OnNewTransfer
    <3> HIDE DEF l
    <3> QED
      BY <1>0, <2>1, <3>1, <3>2, FieldNames
  <2>2. CASE ~Foreground(t)
    BY <1>0, <2>2, FieldNames DEF UploadNode
  <2> QED
    BY <2>1, <2>2
<1>4. /\ DOMAIN xfer' = Tags /\ DOMAIN xfer'[k] = DOMAIN NoTransfer
      /\ xfer'[k].state = "queued" /\ xfer'[k].by = t
      /\ xfer'[k].to = to /\ xfer'[k].source = k
      /\ \A j \in Tags \ {k} : xfer'[j] = xfer[j]
  BY <1>0, <1>1, FieldNames DEF UploadNode, StartTransfer, NoTransfer
<1>5. StartsOne(t, k)
  BY <1>0, <1>1, <1>2, <1>3, <1>4 DEF StartsOne, OthersStay, Transferring, At
<1>6. StartsPut(t, k)
  BY <1>0, <1>2, <1>3, <1>4, <1>5 DEF StartsPut
<1>7. PlacesOf(t)'
  BY <1>0, <1>2 DEF PlacesOf, At, Req
<1>8. Fields'
  BY <1>0, <1>1, <1>2, <1>3, <1>4 DEF Fields
<1> QED
  BY <1>1, <1>6, <1>7, <1>8

LEMMA StartsPutKeepsPromises ==
    ASSUME IInv, NEW t \in Threads, NEW k \in Tags, StartsPut(t, k)
    PROVE  StartsAwaited' /\ CallbackForTag' /\ PromisesOwn'
<1>0. Req(t).op = "put"
  BY DEF IInv, Places, StartsPut, At
<1>1. \A u \in Threads \ {t} : run'[u] = run[u] /\ listener'[u] = listener[u]
  BY DEF StartsPut, StartsOne, OthersStay
<1>2. \A j \in Tags \ {k} : xfer'[j] = xfer[j]
  BY DEF StartsPut, StartsOne
<1>3. \A u \in Threads : PrintsTag(u)' <=> PrintsTag(u)
  BY <1>1 DEF PrintsTag, Req, StartsPut
<1>4. PrintsTag(t) <=> Req(t).tag
  BY <1>0 DEF PrintsTag
<1>5. CallbackForTag'
  <2>1. listener'[t].callback # 0 => PrintsTag(t)
    BY <1>4 DEF StartsPut, IInv, CallbackForTag
  <2> QED
    BY <1>1, <1>3, <2>1 DEF IInv, CallbackForTag
<1>6. PromisesOwn'
  <2>1. NoTag \in 0 .. MaxTransfers
    BY BoundsAssumption DEF NoTag, BoundsAssumption
  <2> QED
    BY <1>1, <2>1 DEF IInv, PromisesOwn, StartsPut, At
<1>7. StartsAwaited'
  <2>1. \A u \in Threads \ {t}, j \in Tags : AwaitsStart(u, j)' <=> AwaitsStart(u, j)
    BY <1>1 DEF AwaitsStart, At
  <2>2. \A j \in Tags : ~AwaitsStart(t, j)
    BY DEF AwaitsStart, StartsPut, At
  <2>3. \A j \in Tags : xfer[j].state = "queued" /\ xfer[j].to = "self" =>
            xfer[j].by \in Threads \ {t}
    BY <2>2 DEF IInv, StartsAwaited, StartAwaited
  <2>4. \A j \in Tags : xfer[j].state = "queued" /\ xfer[j].to = "multi" =>
            xfer[j].by \in Threads /\ (xfer[j].by = t => ~PrintsTag(t))
    BY <2>2 DEF IInv, ListenersLive, StartsAwaited, StartAwaited, Running
  <2>5. StartAwaited(k)'
    <3>1. xfer'[k].by = t
      BY DEF StartsPut, StartsOne
    <3>2. Req(t).tag => AwaitsStart(t, k)'
      BY DEF StartsPut, AwaitsStart, At
    <3> QED
      BY <1>3, <1>4, <3>1, <3>2 DEF StartsPut, StartAwaited
  <2>6. \A j \in Tags \ {k} : StartAwaited(j)'
    BY <1>1, <1>2, <1>3, <2>1, <2>3, <2>4 DEF IInv, StartsAwaited, StartAwaited
  <2> QED
    BY <2>5, <2>6 DEF StartsAwaited
<1> QED
  BY <1>5, <1>6, <1>7

-----------------------------------------------------------------------------
(* The promise is read, and the command ends. *)

LEMMA UploadStartedKeepsInv ==
    ASSUME IInv, NEW t \in Threads, UploadStarted(t) PROVE IInv'
<1>0. /\ Fields /\ At(t, "started") /\ Req(t).op = "put"
      /\ run[t].frame \in Tags /\ run[t].promise = run[t].frame
  BY DEF IInv, Places, PromisesOwn, UploadStarted, At
<1>1. /\ DOMAIN run' = Threads /\ DOMAIN run'[t] = DOMAIN run[t]
      /\ \A u \in Threads \ {t} : run'[u] = run[u]
      /\ run'[t].own = run[t].own /\ run'[t].promise = run[t].promise
      /\ run'[t].tags = Append(run[t].tags, <<run[t].frame, run[t].promise>>)
      /\ run'[t].req = run[t].req /\ run'[t].pc = "upload"
  BY <1>0, FieldNames DEF UploadStarted
<1>2. listener' = listener /\ xfer' = xfer
  BY DEF UploadStarted, sdkVars
<1>3. Goes(t)
  BY <1>0, <1>1, <1>2 DEF Goes, OthersStay, Kept, Transferring, At
<1>4. ListenersLive' /\ OwnCounted'
  BY <1>3, GoesKeepsOwn
<1>5. Fields'
  BY <1>0, <1>1, <1>2 DEF Fields
<1>6. Places'
  BY <1>0, <1>1 DEF IInv, Places, At, Req
<1>7. \A u \in Threads : PrintsTag(u)' <=> PrintsTag(u)
  BY <1>1 DEF PrintsTag, Req
<1>8. CallbackForTag'
  BY <1>2, <1>7 DEF IInv, CallbackForTag
<1>9. PromisesOwn'
  <2>1. run'[t].tags \in Seq({<<k, k>> : k \in Tags})
    <3>1. <<run[t].frame, run[t].promise>> \in {<<k, k>> : k \in Tags}
      BY <1>0
    <3>2. run[t].tags \in Seq({<<k, k>> : k \in Tags})
      BY DEF IInv, PromisesOwn
    <3> QED
      BY <1>1, <3>1, <3>2, AppendProperties
  <2>2. \A u \in Threads \ {t} :
           /\ run'[u].promise \in 0 .. MaxTransfers
           /\ run'[u].pc = "started" =>
                run'[u].frame \in Tags /\ run'[u].promise \in {NoTag, run'[u].frame}
           /\ run'[u].tags \in Seq({<<k, k>> : k \in Tags})
    BY <1>1 DEF IInv, PromisesOwn, At
  <2>3. run'[t].promise \in 0 .. MaxTransfers /\ run'[t].pc # "started"
    BY <1>1 DEF IInv, PromisesOwn
  <2> QED
    BY <2>1, <2>2, <2>3 DEF PromisesOwn, At
<1>10. StartsAwaited'
  <2>1. \A u \in Threads \ {t}, k \in Tags : AwaitsStart(u, k)' <=> AwaitsStart(u, k)
    BY <1>1 DEF AwaitsStart, At
  <2>2. \A k \in Tags : ~AwaitsStart(t, k)
    BY DEF AwaitsStart, UploadStarted
  <2>3. \A k \in Tags : xfer[k].state = "queued" /\ xfer[k].to = "multi" => xfer[k].by \in Threads
    BY DEF IInv, ListenersLive, Running
  <2> QED
    BY <1>2, <1>7, <2>1, <2>2, <2>3 DEF IInv, StartsAwaited, StartAwaited
<1> QED
  BY <1>4, <1>5, <1>6, <1>8, <1>9, <1>10 DEF IInv

LEMMA FinishKeepsInv ==
    ASSUME IInv, NEW t \in Threads, Finish(t) PROVE IInv'
<1>0. Fields /\ At(t, "finish")
  BY DEF IInv, Finish
<1>1. /\ DOMAIN run' = Threads /\ DOMAIN run'[t] = DOMAIN run[t]
      /\ \A u \in Threads \ {t} : run'[u] = run[u]
      /\ run'[t].promise = run[t].promise /\ run'[t].tags = run[t].tags
      /\ run'[t].req = run[t].req /\ run'[t].pc = "idle"
  BY <1>0, FieldNames DEF Finish
<1>2. /\ DOMAIN listener' = Threads /\ DOMAIN listener'[t] = DOMAIN listener[t]
      /\ \A u \in Threads \ {t} : listener'[u] = listener[u]
      /\ listener'[t].callback = listener[t].callback
  BY <1>0, FieldNames DEF Finish
<1>3. /\ DOMAIN xfer' = Tags
      /\ \A k \in Tags : xfer'[k] = IF Running(k) /\ xfer[k].by = t /\ xfer[k].to = "multi"
                                    THEN [xfer[k] EXCEPT !.to = "none"] ELSE xfer[k]
  BY DEF Finish
<1>4. \A k \in Tags : /\ DOMAIN xfer'[k] = DOMAIN xfer[k]
                      /\ xfer'[k].state = xfer[k].state /\ xfer'[k].by = xfer[k].by
                      /\ xfer'[k].source = xfer[k].source
                      /\ xfer'[k].to \in {xfer[k].to, "none"}
                      /\ Running(k) /\ xfer'[k].to = "multi" => xfer[k].by # t
                      /\ xfer[k].by # t => xfer'[k] = xfer[k]
  BY <1>0, <1>3, FieldNames
<1>5. \A k \in Tags : Running(k)' <=> Running(k)
  BY <1>4 DEF Running
<1>6. Fields'
  BY <1>0, <1>1, <1>2, <1>3, <1>4 DEF Fields
<1>7. Places'
  BY <1>1 DEF IInv, Places, At, Req
<1>8. ListenersLive'
  <2> SUFFICES ASSUME NEW k \in Tags, Running(k), xfer'[k].to = "multi"
               PROVE  /\ xfer'[k].by \in Threads /\ k \in run'[xfer'[k].by].own
                      /\ run'[xfer'[k].by].pc # "idle"
    BY <1>5 DEF ListenersLive, At
  <2>1. xfer[k].to = "multi" /\ xfer'[k].by = xfer[k].by /\ xfer[k].by # t
    BY <1>4
  <2> QED
    BY <1>1, <2>1 DEF IInv, ListenersLive, At
<1>9. \A u \in Threads : PrintsTag(u)' <=> PrintsTag(u)
  BY <1>1 DEF PrintsTag, Req
<1>10. CallbackForTag'
  BY <1>1, <1>2, <1>9 DEF IInv, CallbackForTag
<1>11. PromisesOwn'
  BY <1>1 DEF IInv, PromisesOwn, At
<1>12. StartsAwaited'
  <2>1. \A u \in Threads \ {t}, k \in Tags : AwaitsStart(u, k)' <=> AwaitsStart(u, k)
    BY <1>1 DEF AwaitsStart, At
  <2>2. \A k \in Tags : ~AwaitsStart(t, k)
    BY <1>0 DEF AwaitsStart, At
  <2> SUFFICES ASSUME NEW k \in Tags PROVE StartAwaited(k)'
    BY DEF StartsAwaited
  <2>3. xfer[k].state = "queued" /\ xfer[k].to = "multi" => xfer[k].by \in Threads
    BY DEF IInv, ListenersLive, Running
  <2>4. xfer[k].state = "queued" => Running(k)
    BY DEF Running
  <2>5. StartAwaited(k)
    BY DEF IInv, StartsAwaited
  <2> QED
    BY <1>2, <1>4, <1>9, <2>1, <2>2, <2>3, <2>4, <2>5 DEF StartAwaited
<1>13. OwnCounted'
  <2>1. ASSUME NEW u \in Threads, run'[u].pc # "idle"
        PROVE  /\ u # t /\ run'[u] = run[u] /\ listener'[u] = listener[u]
               /\ (Transferring(u)' <=> Transferring(u)) /\ ~At(u, "idle")
    BY <1>1, <1>2, <2>1 DEF Transferring, Req, At
  <2>2. ASSUME NEW u \in Threads, run'[u].pc # "idle"
        PROVE  /\ run[u].own \subseteq Tags
               /\ \A k \in run[u].own : xfer[k].by = u /\ xfer'[k] = xfer[k]
               /\ Ended(u)' = Ended(u)
    <3>1. run[u].own \subseteq Tags /\ \A k \in run[u].own : xfer[k].by = u
      BY <2>1, <2>2 DEF IInv, OwnCounted
    <3>2. \A k \in run[u].own : xfer'[k] = xfer[k]
      BY <1>4, <2>1, <2>2, <3>1
    <3> QED
      BY <2>1, <2>2, <3>1, <3>2 DEF Ended
  <2>3. ASSUME NEW u \in Threads, run'[u].pc # "idle"
        PROVE  /\ run'[u].own # {} => Transferring(u)'
               /\ run'[u].own \subseteq Tags
               /\ \A k \in run'[u].own :
                     /\ xfer'[k].by = u /\ xfer'[k].state \in {"queued", "active", "done"}
                     /\ Running(k)' => xfer'[k].to = "multi"
               /\ listener'[u].created = Cardinality(run'[u].own)
               /\ listener'[u].permits = Cardinality(Ended(u)')
               /\ (\E k \in Ended(u)' : xfer'[k].error # "OK") => listener'[u].finalerror # "OK"
    <3>1. \A k \in Ended(u) : xfer'[k] = xfer[k]
      BY <2>2, <2>3 DEF Ended
    <3> QED
      BY <1>5, <2>1, <2>2, <2>3, <3>1 DEF IInv, OwnCounted
  <2> QED
    BY <2>3 DEF OwnCounted, At
<1> QED
  BY <1>6, <1>7, <1>8, <1>10, <1>11, <1>12, <1>13 DEF IInv

-----------------------------------------------------------------------------
(* The SDK's thread *)

LEMMA UpdateTells ==
    ASSUME Fields, NEW t \in Threads, NEW k, NEW bytes
    PROVE  LET l == OnTransferUpdate(listener[t], k, bytes)
           IN /\ DOMAIN l = DOMAIN listener[t]
              /\ l.created = listener[t].created /\ l.permits = listener[t].permits
              /\ l.finalerror = listener[t].finalerror /\ l.callback = listener[t].callback
BY FieldNames DEF OnTransferUpdate

(* What the invariant says of the listeners and of the threads, where only  *)
(* a promise may have been set. *)
Tells ==
    /\ DOMAIN listener' = Threads /\ DOMAIN run' = Threads
    /\ \A u \in Threads :
          /\ DOMAIN listener'[u] = DOMAIN listener[u] /\ DOMAIN run'[u] = DOMAIN run[u]
          /\ listener'[u].callback = listener[u].callback
          /\ run'[u].pc = run[u].pc /\ run'[u].req = run[u].req
          /\ run'[u].own = run[u].own /\ run'[u].tags = run[u].tags
          /\ run'[u].frame = run[u].frame

SameCounts == \A u \in Threads :
    /\ listener'[u].created = listener[u].created
    /\ listener'[u].permits = listener[u].permits
    /\ listener'[u].finalerror = listener[u].finalerror

(* A transfer goes on: it is still the same transfer, of the same thread. *)
Advances(k) ==
    /\ DOMAIN xfer' = Tags /\ \A j \in Tags : DOMAIN xfer'[j] = DOMAIN xfer[j]
    /\ \A j \in Tags \ {k} : xfer'[j] = xfer[j]
    /\ xfer'[k].by = xfer[k].by /\ xfer'[k].to = xfer[k].to
    /\ xfer'[k].source = xfer[k].source

LEMMA TellsKeeps ==
    ASSUME IInv, Tells PROVE
    /\ Places' /\ CallbackForTag'
    /\ \A u \in Threads : /\ PrintsTag(u)' <=> PrintsTag(u)
                          /\ Transferring(u)' <=> Transferring(u)
                          /\ At(u, "idle")' <=> At(u, "idle")
<1>1. Places'
  BY DEF IInv, Places, Tells, At, Req
<1>2. \A u \in Threads : PrintsTag(u)' <=> PrintsTag(u)
  BY DEF PrintsTag, Req, Tells
<1>3. CallbackForTag'
  BY <1>2 DEF IInv, CallbackForTag, Tells
<1>4. \A u \in Threads : /\ Transferring(u)' <=> Transferring(u)
                         /\ At(u, "idle")' <=> At(u, "idle")
  BY DEF Transferring, Req, Tells, At
<1> QED
  BY <1>1, <1>2, <1>3, <1>4

(* The step may also be the end of the transfer. *)
LEMMA AdvancesKeepsListeners ==
    ASSUME IInv, NEW k \in Tags, Advances(k), Tells, Running(k)
    PROVE  ListenersLive'
<1>1. \A j \in Tags : /\ xfer'[j].by = xfer[j].by /\ xfer'[j].to = xfer[j].to
                      /\ Running(j)' => Running(j)
  BY DEF Advances, Running
<1> QED
  BY <1>1 DEF IInv, ListenersLive, Tells, At

LEMMA AdvancesKeepsCounts ==
    ASSUME IInv, NEW k \in Tags, Advances(k), Tells, SameCounts, Running(k), Running(k)'
    PROVE  OwnCounted'
<1>1. \A j \in Tags : /\ xfer'[j].by = xfer[j].by /\ xfer'[j].to = xfer[j].to
                      /\ Running(j)' <=> Running(j)
                      /\ xfer'[j].state = "done" <=> xfer[j].state = "done"
                      /\ xfer[j].state = "done" => xfer'[j] = xfer[j]
                      /\ xfer[j].state \in {"queued", "active", "done"} =>
                            xfer'[j].state \in {"queued", "active", "done"}
  BY DEF Advances, Running
<1>2. ASSUME NEW u \in Threads, ~At(u, "idle")
      PROVE  /\ run[u].own \subseteq Tags /\ Ended(u)' = Ended(u)
             /\ \A j \in Ended(u) : xfer'[j] = xfer[j]
  <2>1. run[u].own \subseteq Tags
    BY <1>2 DEF IInv, OwnCounted
  <2> QED
    BY <1>1, <2>1 DEF Ended, Tells
<1>3. ASSUME NEW u \in Threads, ~At(u, "idle")
      PROVE  /\ run'[u].own # {} => Transferring(u)'
             /\ run'[u].own \subseteq Tags
             /\ \A j \in run'[u].own :
                   /\ xfer'[j].by = u /\ xfer'[j].state \in {"queued", "active", "done"}
                   /\ Running(j)' => xfer'[j].to = "multi"
             /\ listener'[u].created = Cardinality(run'[u].own)
             /\ listener'[u].permits = Cardinality(Ended(u)')
             /\ (\E j \in Ended(u)' : xfer'[j].error # "OK") => listener'[u].finalerror # "OK"
  <2>1. run'[u].own = run[u].own /\ (Transferring(u)' <=> Transferring(u))
    BY TellsKeeps DEF Tells
  <2> QED
    BY <1>1, <1>2, <1>3, <2>1 DEF IInv, OwnCounted, SameCounts
<1> QED
  BY <1>3, TellsKeeps DEF OwnCounted

LEMMA SdkStartsKeepsInv ==
    ASSUME IInv, NEW k \in Tags, SdkStarts(k) PROVE IInv'
<1> DEFINE t == xfer[k].by
           called == \/ xfer[k].to = "self"
                     \/ xfer[k].to = "multi" /\ listener[t].callback # 0
<1>0. Fields /\ Running(k) /\ xfer[k].state = "queued"
  BY DEF IInv, SdkStarts, Running
<1>1. /\ xfer[k].to = "multi" => t \in Threads
      /\ called => t \in Threads /\ AwaitsStart(t, k)
      /\ called /\ xfer[k].to = "self" => xfer[k].source = k
      /\ called /\ xfer[k].to # "self" => listener[t].callback = k
  BY <1>0 DEF IInv, ListenersLive, StartsAwaited, StartAwaited, CallbackForTag
<1>2. Advances(k) /\ xfer'[k].state = "active"
  BY <1>0, FieldNames DEF SdkStarts, Advances
<1>3. /\ DOMAIN listener' = Threads
      /\ \A u \in Threads :
          /\ DOMAIN listener'[u] = DOMAIN listener[u]
          /\ listener'[u].created = listener[u].created
          /\ listener'[u].permits = listener[u].permits
          /\ listener'[u].finalerror = listener[u].finalerror
          /\ listener'[u].callback = listener[u].callback
  <2>1. CASE xfer[k].to = "multi"
    <3> DEFINE l == OnTransferUpdate(listener[t], k, 0)
               m == [l EXCEPT !.startedCount = @ + (IF xfer[k].type = "D" THEN 1 ELSE 0)]
    <3>1. /\ DOMAIN l = DOMAIN listener[t]
          /\ l.created = listener[t].created /\ l.permits = listener[t].permits
          /\ l.finalerror = listener[t].finalerror /\ l.callback = listener[t].callback
      BY <1>0, <1>1, <2>1, UpdateTells
    <3>2. listener' = [listener EXCEPT ![t] = m]
      BY <2>1 DEF SdkStarts
    <3> HIDE DEF l
    <3>3. /\ DOMAIN m = DOMAIN listener[t]
          /\ m.created = listener[t].created /\ m.permits = listener[t].permits
          /\ m.finalerror = listener[t].finalerror /\ m.callback = listener[t].callback
      BY <1>0, <1>1, <2>1, <3>1, FieldNames
    <3> HIDE DEF m
    <3> QED
      BY <1>0, <1>1, <2>1, <3>2, <3>3, FieldNames
  <2>2. CASE xfer[k].to # "multi"
    BY <1>0, <2>2, FieldNames DEF SdkStarts
  <2> QED
    BY <2>1, <2>2
<1>4. /\ DOMAIN run' = Threads
      /\ \A u \in Threads : (called /\ u = t) \/ run'[u] = run[u]
      /\ called => run'[t] = [run[t] EXCEPT !.promise = k]
  <2>1. CASE called
    <3>1. run' = [run EXCEPT ![t] = OnTransferStartCb(run[t], k, k)]
      BY <1>1, <2>1 DEF SdkStarts
    <3>2. OnTransferStartCb(run[t], k, k) = [run[t] EXCEPT !.promise = k]
      BY <1>0, <1>1, <2>1, FieldNames DEF OnTransferStartCb, AwaitsStart
    <3> QED
      BY <1>0, <1>1, <2>1, <3>1, <3>2, FieldNames
  <2>2. CASE ~called
    <3>1. run' = run
      BY <2>2 DEF SdkStarts
    <3> QED
      BY <1>0, <2>2, <3>1, FieldNames
  <2> QED
    BY <2>1, <2>2
<1>5. Tells /\ SameCounts
  BY <1>0, <1>1, <1>3, <1>4, FieldNames DEF Tells, SameCounts
<1>6. Places' /\ CallbackForTag' /\ \A u \in Threads : PrintsTag(u)' <=> PrintsTag(u)
  BY <1>5, TellsKeeps
<1>7. ListenersLive' /\ OwnCounted'
  <2>1. Running(k)'
    BY <1>2 DEF Running
  <2> QED
    BY <1>0, <1>2, <1>5, <2>1, AdvancesKeepsListeners, AdvancesKeepsCounts
<1>8. Fields'
  BY <1>0, <1>2, <1>3, <1>5 DEF Fields, Tells, Advances
<1>9. \A u \in Threads : (called /\ u = t) \/ run'[u].promise = run[u].promise
  BY <1>4
<1>10. called => run'[t].promise = k /\ run[t].frame = k /\ At(t, "started")
  BY <1>0, <1>1, <1>4, FieldNames DEF AwaitsStart
<1>11. PromisesOwn'
  <2>1. k \in 0 .. MaxTransfers
    BY BoundsAssumption DEF Tags, BoundsAssumption
  <2> QED
    BY <1>5, <1>9, <1>10, <2>1 DEF IInv, PromisesOwn, Tells, At
<1>12. StartsAwaited'
  <2> SUFFICES ASSUME NEW j \in Tags, xfer'[j].state = "queued" PROVE StartAwaited(j)'
    BY DEF StartsAwaited, StartAwaited
  <2>1. j # k /\ xfer'[j] = xfer[j] /\ StartAwaited(j)
    BY <1>2 DEF Advances, IInv, StartsAwaited
  <2>2. \A u \in Threads : AwaitsStart(u, j) => AwaitsStart(u, j)'
    BY <1>5, <1>9, <1>10, <2>1 DEF AwaitsStart, Tells, At
  <2>3. xfer[j].to = "multi" => xfer[j].by \in Threads
    BY <2>1 DEF IInv, ListenersLive, Running
  <2> QED
    BY <1>5, <1>6, <2>1, <2>2, <2>3 DEF StartAwaited, Tells
<1> QED
  BY <1>6, <1>7, <1>8, <1>11, <1>12 DEF IInv

LEMMA SdkProgressesKeepsInv ==
    ASSUME IInv, NEW k \in Tags, SdkProgresses(k) PROVE IInv'
<1> DEFINE t == xfer[k].by
<1>0. Fields /\ Running(k) /\ xfer[k].state = "active"
  BY DEF IInv, SdkProgresses, Running
<1>1. Advances(k) /\ xfer'[k].state = "active" /\ run' = run
  BY <1>0, FieldNames DEF SdkProgresses, Advances
<1>2. xfer[k].to = "multi" => t \in Threads
  BY <1>0 DEF IInv, ListenersLive
<1>3. /\ DOMAIN listener' = Threads
      /\ \A u \in Threads :
          /\ DOMAIN listener'[u] = DOMAIN listener[u]
          /\ listener'[u].created = listener[u].created
          /\ listener'[u].permits = listener[u].permits
          /\ listener'[u].finalerror = listener[u].finalerror
          /\ listener'[u].callback = listener[u].callback
  <2>1. CASE xfer[k].to = "multi"
    <3> DEFINE l == OnTransferUpdate(listener[t], k, xfer[k].bytes + 1)
    <3>1. /\ DOMAIN l = DOMAIN listener[t]
          /\ l.created = listener[t].created /\ l.permits = listener[t].permits
          /\ l.finalerror = listener[t].finalerror /\ l.callback = listener[t].callback
      BY <1>0, <1>2, <2>1, UpdateTells
    <3>2. listener' = [listener EXCEPT ![t] = l]
      BY <2>1 DEF SdkProgresses
    <3> HIDE DEF l
    <3> QED
      BY <1>0, <1>2, <2>1, <3>1, <3>2, FieldNames
  <2>2. CASE xfer[k].to # "multi"
    BY <1>0, <2>2, FieldNames DEF SdkProgresses
  <2> QED
    BY <2>1, <2>2
<1>4. Tells /\ SameCounts
  BY <1>0, <1>1, <1>3, FieldNames DEF Tells, SameCounts
<1>5. Places' /\ CallbackForTag' /\ \A u \in Threads : PrintsTag(u)' <=> PrintsTag(u)
  BY <1>4, TellsKeeps
<1>6. ListenersLive' /\ OwnCounted'
  <2>1. Running(k)'
    BY <1>1 DEF Running
  <2> QED
    BY <1>0, <1>1, <1>4, <2>1, AdvancesKeepsListeners, AdvancesKeepsCounts
<1>7. Fields'
  BY <1>0, <1>1, <1>3, <1>4 DEF Fields, Tells, Advances
<1>8. PromisesOwn'
  BY <1>1 DEF IInv, PromisesOwn, At
<1>9. StartsAwaited'
  <2> SUFFICES ASSUME NEW j \in Tags, xfer'[j].state = "queued" PROVE StartAwaited(j)'
    BY DEF StartsAwaited, StartAwaited
  <2>1. j # k /\ xfer'[j] = xfer[j] /\ StartAwaited(j)
    BY <1>1 DEF Advances, IInv, StartsAwaited
  <2>2. \A u \in Threads : AwaitsStart(u, j) => AwaitsStart(u, j)'
    BY <1>1 DEF AwaitsStart, At
  <2>3. xfer[j].to = "multi" => xfer[j].by \in Threads
    BY <2>1 DEF IInv, ListenersLive, Running
  <2> QED
    BY <1>4, <1>5, <2>1, <2>2, <2>3 DEF StartAwaited, Tells
<1> QED
  BY <1>5, <1>6, <1>7, <1>8, <1>9 DEF IInv

(* The end of a transfer gives its thread a permit, and the thread that     *)
(* waits for permits is told of the error before it can count this one. *)
LEMMA SdkFinishesKeepsInv ==
    ASSUME IInv, NEW k \in Tags, NEW e, SdkFinishes(k, e) PROVE IInv'
<1> DEFINE t == xfer[k].by
<1>0. Fields /\ Running(k) /\ xfer[k].state = "active"
  BY DEF IInv, SdkFinishes, Running
<1>1. run' = run
  BY DEF SdkFinishes
<1>2. Advances(k) /\ xfer'[k].state = "done" /\ xfer'[k].error = e
  <2> DEFINE handle == IF xfer[k].type = "U" /\ e = "OK" THEN UploadedHandle(k)
                       ELSE xfer[k].handle
  <2>1. xfer' = [xfer EXCEPT ![k].state = "done", ![k].error = e, ![k].handle = handle]
    BY DEF SdkFinishes
  <2> HIDE DEF handle
  <2> QED
    BY <1>0, <2>1, FieldNames DEF Advances
<1>3. xfer[k].to = "multi" => t \in Threads /\ k \in run[t].own /\ ~At(t, "idle")
  BY <1>0 DEF IInv, ListenersLive
<1>4. /\ DOMAIN listener' = Threads
      /\ \A u \in Threads :
            /\ DOMAIN listener'[u] = DOMAIN listener[u]
            /\ listener'[u].callback = listener[u].callback
            /\ listener'[u].created = listener[u].created
            /\ u = t /\ xfer[k].to = "multi" =>
                  /\ listener'[u].permits = listener[u].permits + 1
                  /\ listener[u].finalerror # "OK" => listener'[u].finalerror # "OK"
                  /\ e # "OK" => listener'[u].finalerror # "OK"
            /\ u # t \/ xfer[k].to # "multi" => listener'[u] = listener[u]
  <2>1. CASE xfer[k].to = "multi"
    <3> DEFINE l == OnTransferFinish(listener[t], k, xfer[k].bytes, e)
    <3>1. /\ DOMAIN l = DOMAIN listener[t]
          /\ l.created = listener[t].created /\ l.callback = listener[t].callback
          /\ l.permits = listener[t].permits + 1
          /\ l.finalerror = IF listener[t].finalerror # "OK" THEN listener[t].finalerror ELSE e
      BY <1>0, <1>3, <2>1, FieldNames DEF OnTransferFinish
    <3>2. listener' = [listener EXCEPT ![t] = l]
      BY <2>1 DEF SdkFinishes
    <3> HIDE DEF l
    <3> QED
      BY <1>0, <1>3, <2>1, <3>1, <3>2, FieldNames
  <2>2. CASE xfer[k].to # "multi"
    <3>1. listener' = listener
      BY <2>2 DEF SdkFinishes
    <3> QED
      BY <1>0, <2>2, <3>1, FieldNames
  <2> QED
    BY <2>1, <2>2
<1>5. Tells
  BY <1>0, <1>1, <1>4, FieldNames DEF Tells
<1>6. Places' /\ CallbackForTag' /\ \A u \in Threads : PrintsTag(u)' <=> PrintsTag(u)
  BY <1>5, TellsKeeps
<1>7. ListenersLive'
  BY <1>0, <1>2, <1>5, AdvancesKeepsListeners
<1>8. Fields'
  BY <1>0, <1>2, <1>4, <1>5 DEF Fields, Tells, Advances
<1>9. PromisesOwn'
  BY <1>1 DEF IInv, PromisesOwn, At
<1>10. StartsAwaited'
  <2> SUFFICES ASSUME NEW j \in Tags, xfer'[j].state = "queued" PROVE StartAwaited(j)'
    BY DEF StartsAwaited, StartAwaited
  <2>1. j # k /\ xfer'[j] = xfer[j] /\ StartAwaited(j)
    BY <1>2 DEF Advances, IInv, StartsAwaited
  <2>2. \A u \in Threads : AwaitsStart(u, j) => AwaitsStart(u, j)'
    BY <1>1 DEF AwaitsStart, At
  <2>3. xfer[j].to = "multi" => xfer[j].by \in Threads
    BY <2>1 DEF IInv, ListenersLive, Running
  <2> QED
    BY <1>5, <1>6, <2>1, <2>2, <2>3 DEF StartAwaited, Tells
<1>11. ASSUME NEW u \in Threads, ~At(u, "idle")
       PROVE  /\ run'[u].own # {} => Transferring(u)'
              /\ run'[u].own \subseteq Tags
              /\ \A j \in run'[u].own :
                    /\ xfer'[j].by = u /\ xfer'[j].state \in {"queued", "active", "done"}
                    /\ Running(j)' => xfer'[j].to = "multi"
              /\ listener'[u].created = Cardinality(run'[u].own)
              /\ listener'[u].permits = Cardinality(Ended(u)')
              /\ (\E j \in Ended(u)' : xfer'[j].error # "OK") => listener'[u].finalerror # "OK"
  <2>1. /\ run[u].own # {} => Transferring(u)
        /\ run[u].own \subseteq Tags
        /\ \A j \in run[u].own :
              /\ xfer[j].by = u /\ xfer[j].state \in {"queued", "active", "done"}
              /\ Running(j) => xfer[j].to = "multi"
        /\ listener[u].created = Cardinality(run[u].own)
        /\ listener[u].permits = Cardinality(Ended(u))
        /\ (\E j \in Ended(u) : xfer[j].error # "OK") => listener[u].finalerror # "OK"
    BY <1>11 DEF IInv, OwnCounted
  <2>2. run'[u].own = run[u].own /\ (Transferring(u)' <=> Transferring(u))
    BY <1>1 DEF Transferring, Req
  <2>3. \A j \in run[u].own :
            /\ xfer'[j].by = u /\ xfer'[j].state \in {"queued", "active", "done"}
            /\ Running(j)' => xfer'[j].to = "multi"
    BY <1>2, <2>1 DEF Advances, Running
  <2>4. listener'[u].created = Cardinality(run'[u].own)
    BY <1>4, <2>1, <2>2
  <2>5. CASE k \in run[u].own
    <3>1. u = t /\ xfer[k].to = "multi"
      BY <1>0, <2>1, <2>5
    <3>2. Ended(u)' = Ended(u) \cup {k} /\ k \notin Ended(u)
      BY <1>0, <1>2, <2>1, <2>2, <2>5 DEF Ended, Advances
    <3>3. IsFiniteSet(Ended(u))
      BY <2>1, TagsAreFinite, FS_Subset DEF Ended
    <3>4. Cardinality(Ended(u)') = Cardinality(Ended(u)) + 1
      BY <3>2, <3>3, FS_AddElement
    <3>5. listener'[u].permits = Cardinality(Ended(u)')
      BY <1>4, <2>1, <3>1, <3>4
    <3>6. (\E j \in Ended(u)' : xfer'[j].error # "OK") => listener'[u].finalerror # "OK"
      <4>1. \A j \in Ended(u) : xfer'[j] = xfer[j]
        BY <1>2, <2>1, <3>2 DEF Advances, Ended
      <4> QED
        BY <1>2, <1>4, <2>1, <3>1, <3>2, <4>1
    <3> QED
      BY <2>1, <2>2, <2>3, <2>4, <3>5, <3>6
  <2>6. CASE k \notin run[u].own
    <3>1. listener'[u] = listener[u]
      BY <1>3, <1>4, <2>6
    <3>2. \A j \in run[u].own : xfer'[j] = xfer[j]
      BY <1>2, <2>1, <2>6 DEF Advances
    <3>3. Ended(u)' = Ended(u) /\ \A j \in Ended(u) : xfer'[j] = xfer[j]
      BY <2>2, <3>2 DEF Ended
    <3> QED
      BY <2>1, <2>2, <2>3, <2>4, <3>1, <3>3
  <2> QED
    BY <2>5, <2>6
<1>12. OwnCounted'
  BY <1>1, <1>11 DEF OwnCounted, At
<1> QED
  BY <1>6, <1>7, <1>8, <1>9, <1>10, <1>12 DEF IInv

-----------------------------------------------------------------------------
(* The invariant holds. *)

LEMMA StutterKeepsInv ==
    ASSUME IInv, UNCHANGED <<run, listener, xfer>> PROVE IInv'
<1>1. Fields' /\ Places' /\ CallbackForTag' /\ PromisesOwn'
  BY DEF IInv, Fields, Places, CallbackForTag, PrintsTag, PromisesOwn, At, Req
<1>2. ListenersLive' /\ StartsAwaited'
  BY DEF IInv, ListenersLive, StartsAwaited, StartAwaited, AwaitsStart, PrintsTag, Running,
         At, Req
<1>3. \A t \in Threads : Ended(t)' = Ended(t) /\ (Transferring(t)' <=> Transferring(t))
  BY DEF Ended, Transferring, Req
<1>4. \A k \in Tags : Running(k)' <=> Running(k)
  BY DEF Running
<1>5. OwnCounted'
  BY <1>3, <1>4 DEF IInv, OwnCounted, At
<1> QED
  BY <1>1, <1>2, <1>5 DEF IInv

LEMMA OthersKeepPlaces ==
    ASSUME IInv, NEW t \in Threads, OthersStay(t), PlacesOf(t)' PROVE Places'
BY DEF IInv, Places, OthersStay, PlacesOf, At, Req

(* What a thread does is one of these. *)
LEMMA ThreadEffect ==
    ASSUME IInv, NEW t \in Threads, Command(t) \/ Step(t) \/ Answer(t)
    PROVE  \/ UploadStarted(t) \/ Finish(t)
           \/ /\ PlacesOf(t)' /\ Fields'
              /\ \/ Begins(t) \/ Moves(t)
                 \/ \E k \in Tags : StartsGet(t, k) \/ StartsPut(t, k)
<1>1. CASE Command(t)
  BY <1>1, CommandsBegin
<1>2. CASE Waits(t)
  BY <1>2, WaitsMove
<1>3. CASE DownloadNode(t)
  BY <1>3, DownloadNodeEffect
<1>4. CASE QuotaAnswered(t)
  BY <1>4, QuotaAnsweredEffect
<1>5. CASE UploadNode(t)
  BY <1>5, UploadNodeEffect
<1> QED
  BY <1>1, <1>2, <1>3, <1>4, <1>5 DEF Step, Answer, Waits

LEMMA ThreadKeepsInv ==
    ASSUME IInv, NEW t \in Threads, Command(t) \/ Step(t) \/ Answer(t) PROVE IInv'
<1>1. CASE UploadStarted(t)
  BY <1>1, UploadStartedKeepsInv
<1>2. CASE Finish(t)
  BY <1>2, FinishKeepsInv
<1>3. CASE Begins(t) /\ PlacesOf(t)' /\ Fields'
  <2>1. Places'
    BY <1>3, OthersKeepPlaces DEF Begins
  <2> QED
    BY <1>3, <2>1, BeginsKeepsInv DEF IInv
<1>4. CASE Moves(t) /\ PlacesOf(t)' /\ Fields'
  <2>1. Places' /\ Goes(t)
    BY <1>4, OthersKeepPlaces DEF Moves, Goes
  <2> QED
    BY <1>4, <2>1, GoesKeepsOwn, MovesKeepsPromises DEF IInv
<1>5. ASSUME NEW k \in Tags, StartsGet(t, k), PlacesOf(t)', Fields' PROVE IInv'
  <2>1. Places' /\ StartsOne(t, k)
    BY <1>5, OthersKeepPlaces DEF StartsGet, StartsOne
  <2> QED
    BY <1>5, <2>1, StartsOneKeepsOwn, StartsGetKeepsPromises DEF IInv
<1>6. ASSUME NEW k \in Tags, StartsPut(t, k), PlacesOf(t)', Fields' PROVE IInv'
  <2>1. Places' /\ StartsOne(t, k)
    BY <1>6, OthersKeepPlaces DEF StartsPut, StartsOne
  <2> QED
    BY <1>6, <2>1, StartsOneKeepsOwn, StartsPutKeepsPromises DEF IInv
<1> QED
  BY <1>1, <1>2, <1>3, <1>4, <1>5, <1>6, ThreadEffect

LEMMA NextIInv == IInv /\ [Next]_vars => IInv'
<1> SUFFICES ASSUME IInv, [Next]_vars PROVE IInv'
  OBVIOUS
<1>1. ASSUME NEW t \in Threads, Command(t) \/ Step(t) \/ Answer(t) PROVE IInv'
  BY <1>1, ThreadKeepsInv
<1>2. ASSUME NEW k \in Tags, SdkTransfer(k) PROVE IInv'
  <2>1. \/ SdkStarts(k) \/ SdkProgresses(k)
        \/ \E e \in {"OK", "EFAILED", "EINCOMPLETE"} : SdkFinishes(k, e)
    BY <1>2 DEF SdkTransfer, SdkSucceeds, SdkFails
  <2> QED
    BY <2>1, SdkStartsKeepsInv, SdkProgressesKeepsInv, SdkFinishesKeepsInv
<1>3. CASE Environment \/ UNCHANGED vars
  <2>1. UNCHANGED <<run, listener, xfer>>
    BY <1>3 DEF Environment, AccountUpdate, SdkMeetsQuota, vars, sdkVars
  <2> QED
    BY <2>1, StutterKeepsInv
<1> QED
  BY <1>1, <1>2, <1>3 DEF Next

(* The inductive invariant holds in every state that commands and SDK reach.*)
THEOREM InvariantHolds == Spec => []IInv
BY InitIInv, NextIInv, PTL DEF Spec

(* What --print-tag-at-start prints for a file is the tag of the transfer   *)
(* that uploads it, for any number of clients and uploads: the callback of  *)
(* uploadNode only ever fulfils the promise of the call that is waiting.    *)
THEOREM PrintedTagIsItsOwnHolds == Spec => []PrintedTagIsItsOwn
<1>1. IInv => PrintedTagIsItsOwn
  <2> SUFFICES ASSUME IInv, NEW t \in Threads
               PROVE  /\ run[t].promise <= MaxTransfers
                      /\ \A i \in DOMAIN run[t].tags : run[t].tags[i][1] = run[t].tags[i][2]
    BY DEF PrintedTagIsItsOwn
  <2> DEFINE Pairs == {<<k, k>> : k \in Tags}
  <2>0. run[t].promise \in 0 .. MaxTransfers /\ run[t].tags \in Seq(Pairs)
    BY DEF IInv, PromisesOwn
  <2>1. run[t].promise <= MaxTransfers
    <3> HIDE DEF Pairs
    <3> QED
      BY <2>0, BoundsAssumption DEF BoundsAssumption
  <2>2. \A i \in DOMAIN run[t].tags : run[t].tags[i] \in Pairs
    <3> HIDE DEF Pairs
    <3> QED
      BY <2>0, ElementOfSeq, LenProperties
  <2> QED
    BY <2>1, <2>2
<1> QED
  BY <1>1, InvariantHolds, PTL

(* A get or a put in the foreground returns only after every transfer it    *)
(* started has ended, and says OK only if all of them went well.            *)
THEOREM ForegroundReportsHolds == Spec => ForegroundReports
<1> DEFINE A == \A t \in Threads :
                  (run[t].pc \in {"finish", "free", "logout"} /\ run'[t].pc = "idle"
                      /\ Foreground(t)) =>
                     /\ \A k \in run[t].own : xfer[k].state = "done"
                     /\ (\E k \in run[t].own : xfer[k].error # "OK") => run'[t].out # "OK"
<1>1. IInv /\ [Next]_vars => [A]_vars
  <2> SUFFICES ASSUME IInv, Next, NEW t \in Threads,
                      run[t].pc \in {"finish", "free", "logout"}, run'[t].pc = "idle", Foreground(t)
               PROVE  /\ \A k \in run[t].own : xfer[k].state = "done"
                      /\ (\E k \in run[t].own : xfer[k].error # "OK") => run'[t].out # "OK"
    OBVIOUS
  <2>1. CASE Finish(t)
    <3>0. Fields /\ ~At(t, "idle")
      BY DEF IInv, At
    <3>1. /\ run[t].own \subseteq Tags
          /\ \A k \in run[t].own : xfer[k].state \in {"queued", "active", "done"}
          /\ listener[t].created = Cardinality(run[t].own)
          /\ listener[t].permits = Cardinality(Ended(t))
          /\ (\E k \in Ended(t) : xfer[k].error # "OK") => listener[t].finalerror # "OK"
      BY <3>0 DEF IInv, OwnCounted
    <3>2. listener[t].permits >= listener[t].created
      BY <2>1 DEF Finish, WaitMultiEnd
    <3>3. IsFiniteSet(run[t].own) /\ Ended(t) \subseteq run[t].own
      BY <3>1, TagsAreFinite, FS_Subset DEF Ended
    <3>4. Cardinality(Ended(t)) \in Nat /\ Cardinality(run[t].own) \in Nat
      BY <3>3, FS_Subset, FS_CardinalityType
    <3>5. Ended(t) = run[t].own
      BY <3>1, <3>2, <3>3, <3>4, FS_Subset
    <3>6. \A k \in run[t].own : xfer[k].state = "done"
      BY <3>5 DEF Ended
    <3>7. run'[t].out = FinalCode(t)
      BY <2>1, <3>0, FieldNames DEF Finish
    <3>8. (\E k \in run[t].own : xfer[k].error # "OK") => FinalCode(t) # "OK"
      BY <3>1, <3>5 DEF FinalCode
    <3> QED
      BY <3>6, <3>7, <3>8
  <2>2. CASE ~Finish(t)
    <3> SUFFICES run[t].own = {}
      OBVIOUS
    <3>1. Moves(t)
      <4>1. ASSUME NEW u \in Threads, Command(u) \/ Step(u) \/ Answer(u) PROVE Moves(t)
        <5>1. CASE u = t
          <6>1. ~UploadStarted(t) /\ ~Begins(t)
            BY DEF UploadStarted, Begins, At
          <6>2. \A k \in Tags : ~StartsGet(t, k) /\ ~StartsPut(t, k)
            BY DEF StartsGet, StartsPut, StartsOne
          <6> QED
            BY <2>2, <4>1, <5>1, <6>1, <6>2, ThreadEffect
        <5>2. CASE u # t
          <6>1. CASE UploadStarted(u) \/ Finish(u)
            BY <5>2, <6>1 DEF UploadStarted, Finish, IInv, Fields
          <6>2. CASE OthersStay(u)
            BY <5>2, <6>2 DEF OthersStay
          <6> QED
            BY <4>1, <6>1, <6>2, ThreadEffect
               DEF Begins, Moves, Goes, StartsGet, StartsPut, StartsOne
        <5> QED
          BY <5>1, <5>2
      <4>2. ASSUME NEW k \in Tags, SdkTransfer(k) PROVE run'[t].pc = run[t].pc
        <5>1. CASE SdkStarts(k)
          BY <5>1 DEF SdkStarts, IInv, Fields, IdleRun, OnTransferStartCb
        <5>2. CASE ~SdkStarts(k)
          BY <4>2, <5>2 DEF SdkTransfer, SdkProgresses, SdkSucceeds, SdkFails, SdkFinishes
        <5> QED
          BY <5>1, <5>2
      <4>3. CASE Environment \/ UNCHANGED vars
        BY <4>3 DEF Environment, AccountUpdate, SdkMeetsQuota, vars
      <4> QED
        BY <4>1, <4>2, <4>3 DEF Next
    <3>2. ~Transferring(t)
      BY <3>1 DEF Moves, Goes
    <3> QED
      BY <3>2 DEF IInv, OwnCounted, At
  <2> QED
    BY <2>1, <2>2
<1> QED
  BY <1>1, InvariantHolds, PTL DEF Spec, ForegroundReports
-----------------------------------------------------------------------------
(* The sequences that a list is made of *)

(* The set as a sequence has every element of it, and no other. *)
LEMMA AscendingIs ==
  ASSUME NEW S \in SUBSET Tags
  PROVE  Ascending(S) \in Seq(S) /\ S \subseteq ToSet(Ascending(S))
<1> DEFINE upTo(k) == {j \in S : j <= k}
           n == Cardinality(S)
           f == Ascending(S)
<1>0. IsFiniteSet(S) /\ n \in Nat /\ S \subseteq Nat
  BY TagsAreFinite, FS_Subset, FS_CardinalityType
<1>1. ASSUME NEW k \in S PROVE IsFiniteSet(upTo(k)) /\ Cardinality(upTo(k)) \in 1 .. n
  <2>1. upTo(k) \subseteq S /\ k \in upTo(k)
    BY <1>0
  <2> HIDE DEF upTo
  <2>2. IsFiniteSet(upTo(k)) /\ Cardinality(upTo(k)) <= n /\ Cardinality(upTo(k)) \in Nat
    BY <1>0, <2>1, FS_Subset, FS_CardinalityType
  <2>3. Cardinality(upTo(k)) # 0
    BY <2>1, <2>2, FS_EmptySet
  <2> QED
    BY <1>0, <2>2, <2>3
<1>2. ASSUME NEW k \in S, NEW m \in S, k < m PROVE Cardinality(upTo(k)) # Cardinality(upTo(m))
  <2>0. k \in Nat /\ m \in Nat /\ m <= m /\ ~(m <= k) /\ \A j \in Nat : j <= k => j <= m
    BY <1>0, <1>2
  <2>1. upTo(k) \subseteq upTo(m) /\ m \in upTo(m) /\ m \notin upTo(k)
    BY <1>0, <2>0
  <2>2. IsFiniteSet(upTo(m))
    BY <1>1
  <2> HIDE DEF upTo
  <2> QED
    BY <2>1, <2>2, FS_Subset
<1>3. ASSUME NEW k \in S, NEW m \in S, Cardinality(upTo(k)) = Cardinality(upTo(m)) PROVE k = m
  <2>1. k \in Nat /\ m \in Nat
    BY <1>0
  <2>2. ~(k < m) /\ ~(m < k)
    <3> HIDE DEF upTo
    <3> QED
      BY <1>2, <1>3
  <2> QED
    BY <2>1, <2>2
<1> DEFINE number == [k \in S |-> Cardinality(upTo(k))]
<1>4. number \in Bijection(S, 1 .. n)
  <2>1. number \in [S -> 1 .. n]
    <3> HIDE DEF upTo
    <3> QED
      BY <1>1
  <2>2. number \in Injection(S, 1 .. n)
    <3> HIDE DEF upTo
    <3> QED
      BY <2>1, <1>3 DEF Injection, IsInjective
  <2>3. Cardinality(1 .. n) = n /\ IsFiniteSet(1 .. n)
    BY <1>0, FS_Interval
  <2>4. number \in Surjection(S, 1 .. n)
    <3> HIDE DEF number
    <3> QED
      BY <1>0, <2>2, <2>3, FS_Injection
  <2> QED
    BY <2>2, <2>4 DEF Bijection
<1>5. ASSUME NEW i \in 1 .. n PROVE f[i] \in S /\ Cardinality(upTo(f[i])) = i
  <2>1. \E k \in S : Cardinality(upTo(k)) = i
    <3>1. \E k \in S : number[k] = i
      <4> HIDE DEF number
      <4> QED
        BY <1>4 DEF Bijection, Surjection
    <3> QED
      BY <3>1
  <2>2. f[i] = CHOOSE k \in S : Cardinality(upTo(k)) = i
    BY DEF Ascending
  <2> HIDE DEF f, upTo
  <2> QED
    BY <2>1, <2>2
<1>6. DOMAIN f = 1 .. n /\ f \in Seq(S)
  <2>1. DOMAIN f = 1 .. n /\ f = [i \in 1 .. n |-> f[i]]
    BY DEF Ascending
  <2> HIDE DEF f, upTo
  <2> QED
    BY <1>0, <1>5, <2>1
<1>7. ASSUME NEW k \in S PROVE k \in ToSet(f)
  <2>1. Cardinality(upTo(k)) \in 1 .. n
    BY <1>1
  <2>2. f[Cardinality(upTo(k))] = k
    <3> HIDE DEF f, upTo
    <3> QED
      BY <1>3, <1>5, <2>1
  <2> HIDE DEF f, upTo
  <2> QED
    BY <1>6, <2>1, <2>2 DEF ToSet
<1> QED
  BY <1>6, <1>7

(* What is taken of the first i elements, for every i. *)
IsTaken(list, W, r) ==
    /\ OnlyIn(list, W) = r[Len(list)]
    /\ r[0] = <<>>
    /\ \A i \in 1 .. Len(list) :
          r[i] = IF list[i] \in W THEN Append(r[i - 1], list[i]) ELSE r[i - 1]

(* The recursive function in OnlyIn exists and is what it says. *)
LEMMA OnlyInIs ==
  ASSUME NEW S, NEW list \in Seq(S), NEW W
  PROVE  \E r \in [0 .. Len(list) -> Seq(S)] : IsTaken(list, W, r)
<1> DEFINE Item(r, i) == IF list[i] \in W THEN Append(r[i - 1], list[i])
                                         ELSE r[i - 1]
           Rest(r, n) == r[0] = <<>> /\ \A i \in 1 .. n : r[i] = Item(r, i)
           P(n) == n <= Len(list) => \E r \in [0 .. n -> Seq(S)] : Rest(r, n)
           T == {n \in Nat : P(n)}
<1>1. Nat \subseteq T
  <2>1. 0 \in T
    <3>1. [i \in 0 .. 0 |-> <<>>] \in [0 .. 0 -> Seq(S)]
      OBVIOUS
    <3>2. Rest([i \in 0 .. 0 |-> <<>>], 0)
      OBVIOUS
    <3>3. P(0)
      BY <3>1, <3>2
    <3> HIDE DEF P
    <3> QED
      BY <3>3
  <2>2. ASSUME NEW n \in Nat, n \in T PROVE n + 1 \in T
    <3> SUFFICES ASSUME n + 1 <= Len(list)
                 PROVE  \E r \in [0 .. n + 1 -> Seq(S)] : Rest(r, n + 1)
      <4>1. SUFFICES P(n + 1)
        <5> HIDE DEF P
        <5> QED
          OBVIOUS
      <4> QED
        OBVIOUS
    <3>1. P(n)
      <4> HIDE DEF P
      <4> QED
        BY <2>2
    <3>2. PICK r \in [0 .. n -> Seq(S)] : Rest(r, n)
      <4>1. n <= Len(list)
        OBVIOUS
      <4> HIDE DEF Rest
      <4> QED
        BY <3>1, <4>1
    <3> DEFINE v == IF list[n + 1] \in W THEN Append(r[n], list[n + 1]) ELSE r[n]
               g == [i \in 0 .. n + 1 |-> IF i = n + 1 THEN v ELSE r[i]]
    <3>3. v \in Seq(S)
      OBVIOUS
    <3>4. g \in [0 .. n + 1 -> Seq(S)]
      BY <3>3
    <3>5. g[0] = <<>>
      BY <3>2
    <3>6. ASSUME NEW i \in 1 .. n + 1 PROVE g[i] = Item(g, i)
      <4>1. CASE i = n + 1
        BY <4>1
      <4>2. CASE i # n + 1
        BY <4>2, <3>2
      <4> QED
        BY <4>1, <4>2
    <3> HIDE DEF g
    <3> QED
      BY <3>4, <3>5, <3>6
  <2> HIDE DEF T
  <2> QED
    BY <2>1, <2>2, Induction
<1>2. PICK r \in [0 .. Len(list) -> Seq(S)] : Rest(r, Len(list))
  <2>1. Len(list) \in T
    <3> HIDE DEF T
    <3> QED
      BY <1>1
  <2>2. P(Len(list))
    <3> HIDE DEF P
    <3> QED
      BY <2>1
  <2> QED
    BY <2>2
<1> DEFINE Body(f) == [i \in 0 .. Len(list) |->
                          IF i = 0 THEN <<>>
                          ELSE IF list[i] \in W THEN Append(f[i - 1], list[i])
                          ELSE f[i - 1]]
           h == CHOOSE f : f = Body(f)
<1>3. r = Body(r)
  <2>1. ASSUME NEW i \in 0 .. Len(list)
        PROVE  r[i] = IF i = 0 THEN <<>>
                      ELSE IF list[i] \in W THEN Append(r[i - 1], list[i])
                      ELSE r[i - 1]
    <3>1. CASE i = 0
      BY <1>2, <3>1
    <3>2. CASE i # 0
      <4>1. i \in 1 .. Len(list)
        BY <3>2
      <4>2. r[i] = Item(r, i)
        BY <1>2, <4>1
      <4> QED
        BY <4>2, <3>2
    <3> QED
      BY <3>1, <3>2
  <2>2. r = [i \in 0 .. Len(list) |-> r[i]]
    OBVIOUS
  <2> QED
    BY <2>1, <2>2
<1>4. h = Body(h)
  <2> HIDE DEF Body
  <2> QED
    BY <1>3
<1>5. OnlyIn(list, W) = h[Len(list)]
  BY DEF OnlyIn
<1>6. h[0] = <<>> /\ \A i \in 1 .. Len(list) : h[i] = Item(h, i)
  <2> HIDE DEF h
  <2>1. \A i \in 0 .. Len(list) :
           h[i] = IF i = 0 THEN <<>>
                  ELSE IF list[i] \in W THEN Append(h[i - 1], list[i])
                  ELSE h[i - 1]
    BY <1>4
  <2>2. h[0] = <<>>
    BY <2>1
  <2>3. ASSUME NEW i \in 1 .. Len(list) PROVE h[i] = Item(h, i)
    BY <2>1
  <2> QED
    BY <2>2, <2>3
<1>7. ASSUME NEW i \in 0 .. Len(list) PROVE h[i] = r[i]
  <2> DEFINE U == {n \in Nat : n <= Len(list) => h[n] = r[n]}
  <2> HIDE DEF h
  <2>1. 0 \in U
    BY <1>6, <1>2
  <2>2. ASSUME NEW n \in Nat, n \in U PROVE n + 1 \in U
    <3>1. CASE n + 1 <= Len(list)
      <4>1. n + 1 \in 1 .. Len(list) /\ n + 1 - 1 = n /\ h[n] = r[n]
        BY <3>1, <2>2
      <4>2. h[n + 1] = Item(h, n + 1) /\ r[n + 1] = Item(r, n + 1)
        BY <4>1, <1>6, <1>2
      <4> QED
        BY <4>1, <4>2
    <3> QED
      BY <3>1
  <2>3. Nat \subseteq U
    <3> HIDE DEF U
    <3> QED
      BY <2>1, <2>2, Induction
  <2> QED
    BY <2>3
<1> HIDE DEF h
<1>8. IsTaken(list, W, r)
  BY <1>2, <1>5, <1>7 DEF IsTaken
<1> QED
  BY <1>8


LEMMA ElementsKnown ==
  ASSUME NEW S, NEW s \in Seq(S)
  PROVE  ToSet(s) \subseteq S
BY LenProperties DEF ToSet

LEMMA ElementsAppended ==
  ASSUME NEW S, NEW s \in Seq(S), NEW x \in S
  PROVE  ToSet(Append(s, x)) = ToSet(s) \cup {x}
<1>1. /\ DOMAIN Append(s, x) = 1 .. Len(s) + 1 /\ DOMAIN s = 1 .. Len(s) /\ Len(s) \in Nat
      /\ \A i \in 1 .. Len(s) : Append(s, x)[i] = s[i]
      /\ Append(s, x)[Len(s) + 1] = x
  BY AppendProperties, LenProperties
<1>2. \A i \in 1 .. Len(s) + 1 : i \in 1 .. Len(s) \/ i = Len(s) + 1
  BY <1>1
<1>3. Len(s) + 1 \in 1 .. Len(s) + 1 /\ 1 .. Len(s) \subseteq 1 .. Len(s) + 1
  BY <1>1
<1> QED
  BY <1>1, <1>2, <1>3 DEF ToSet

LEMMA ElementsJoined ==
  ASSUME NEW S, NEW s \in Seq(S), NEW q \in Seq(S)
  PROVE  /\ s \o q \in Seq(S) /\ Len(s \o q) = Len(s) + Len(q)
         /\ ToSet(s \o q) = ToSet(s) \cup ToSet(q)
<1>1. /\ s \o q \in Seq(S) /\ Len(s \o q) = Len(s) + Len(q)
      /\ \A i \in 1 .. Len(s) + Len(q) :
            (s \o q)[i] = IF i <= Len(s) THEN s[i] ELSE q[i - Len(s)]
  BY ConcatProperties
<1>2. /\ DOMAIN (s \o q) = 1 .. Len(s) + Len(q)
      /\ DOMAIN s = 1 .. Len(s) /\ DOMAIN q = 1 .. Len(q) /\ Len(s) \in Nat /\ Len(q) \in Nat
  BY <1>1, LenProperties
<1>3. ASSUME NEW i \in 1 .. Len(s) PROVE i \in 1 .. Len(s) + Len(q) /\ (s \o q)[i] = s[i]
  BY <1>1, <1>2
<1>4. ASSUME NEW i \in 1 .. Len(q)
      PROVE  Len(s) + i \in 1 .. Len(s) + Len(q) /\ (s \o q)[Len(s) + i] = q[i]
  BY <1>1, <1>2
<1>5. ASSUME NEW i \in 1 .. Len(s) + Len(q)
      PROVE  \/ i \in 1 .. Len(s) /\ (s \o q)[i] = s[i]
             \/ i - Len(s) \in 1 .. Len(q) /\ (s \o q)[i] = q[i - Len(s)]
  BY <1>1, <1>2
<1> DEFINE all == s \o q
<1>6. /\ ToSet(all) = {all[i] : i \in 1 .. Len(s) + Len(q)}
      /\ ToSet(s) = {s[i] : i \in 1 .. Len(s)} /\ ToSet(q) = {q[i] : i \in 1 .. Len(q)}
  BY <1>2 DEF ToSet
<1>7. ToSet(all) \subseteq ToSet(s) \cup ToSet(q)
  BY <1>5, <1>6
<1>8. ToSet(s) \subseteq ToSet(all)
  BY <1>3, <1>6
<1>9. ToSet(q) \subseteq ToSet(all)
  BY <1>4, <1>6
<1> QED
  BY <1>1, <1>7, <1>8, <1>9

(* ... which is in it and in the set, and of two sets that share no element *)
(* of the sequence and miss none, the shares add up to the whole. *)
LEMMA OnlyInTakes ==
  ASSUME NEW S, NEW list \in Seq(S), NEW W
  PROVE  /\ OnlyIn(list, W) \in Seq(S)
         /\ ToSet(OnlyIn(list, W)) = ToSet(list) \cap W
<1>1. PICK r \in [0 .. Len(list) -> Seq(S)] : IsTaken(list, W, r)
  BY OnlyInIs
<1> DEFINE First(n) == {list[i] : i \in 1 .. n}
           T == {n \in Nat : n <= Len(list) => ToSet(r[n]) = First(n) \cap W}
<1>2. 0 \in T
  BY <1>1 DEF IsTaken, ToSet
<1>3. ASSUME NEW n \in Nat, n \in T PROVE n + 1 \in T
  <2> SUFFICES ASSUME n + 1 <= Len(list) PROVE ToSet(r[n + 1]) = First(n + 1) \cap W
    OBVIOUS
  <2>1. ToSet(r[n]) = First(n) \cap W /\ r[n] \in Seq(S) /\ list[n + 1] \in S
    BY <1>3
  <2>2. r[n + 1] = IF list[n + 1] \in W THEN Append(r[n], list[n + 1]) ELSE r[n]
    <3>1. n + 1 \in 1 .. Len(list) /\ n + 1 - 1 = n
      OBVIOUS
    <3> QED
      BY <1>1, <3>1 DEF IsTaken
  <2>3. First(n + 1) = First(n) \cup {list[n + 1]}
    <3>1. \A i \in 1 .. n + 1 : i \in 1 .. n \/ i = n + 1
      OBVIOUS
    <3>2. n + 1 \in 1 .. n + 1 /\ 1 .. n \subseteq 1 .. n + 1
      OBVIOUS
    <3> QED
      BY <3>1, <3>2
  <2> HIDE DEF First
  <2> QED
    BY <2>1, <2>2, <2>3, ElementsAppended
<1>4. Len(list) \in T
  <2>1. Nat \subseteq T
    <3> HIDE DEF T
    <3> QED
      BY <1>2, <1>3, Induction
  <2> HIDE DEF T
  <2> QED
    BY <2>1
<1>5. ToSet(list) = First(Len(list))
  BY DEF ToSet
<1>6. OnlyIn(list, W) = r[Len(list)]
  BY <1>1 DEF IsTaken
<1> HIDE DEF First
<1> QED
  BY <1>4, <1>5, <1>6

LEMMA SharesAddUp ==
  ASSUME NEW S, NEW list \in Seq(S), NEW V, NEW W,
         \A x \in ToSet(list) : x \in V <=> x \notin W
  PROVE  Len(OnlyIn(list, V)) + Len(OnlyIn(list, W)) = Len(list)
<1>1. PICK r \in [0 .. Len(list) -> Seq(S)] : IsTaken(list, V, r)
  BY OnlyInIs
<1>2. PICK q \in [0 .. Len(list) -> Seq(S)] : IsTaken(list, W, q)
  BY OnlyInIs
<1> DEFINE T == {n \in Nat : n <= Len(list) => Len(r[n]) + Len(q[n]) = n}
<1>3. 0 \in T
  BY <1>1, <1>2 DEF IsTaken
<1>4. ASSUME NEW n \in Nat, n \in T PROVE n + 1 \in T
  <2> SUFFICES ASSUME n + 1 <= Len(list) PROVE Len(r[n + 1]) + Len(q[n + 1]) = n + 1
    OBVIOUS
  <2>1. Len(r[n]) + Len(q[n]) = n /\ r[n] \in Seq(S) /\ q[n] \in Seq(S) /\ list[n + 1] \in S
    BY <1>4
  <2>2. n + 1 \in 1 .. Len(list) /\ n + 1 - 1 = n
    OBVIOUS
  <2>3. /\ r[n + 1] = IF list[n + 1] \in V THEN Append(r[n], list[n + 1]) ELSE r[n]
        /\ q[n + 1] = IF list[n + 1] \in W THEN Append(q[n], list[n + 1]) ELSE q[n]
    BY <1>1, <1>2, <2>2 DEF IsTaken
  <2>4. list[n + 1] \in V <=> list[n + 1] \notin W
    BY <2>2 DEF ToSet
  <2>5. /\ Len(Append(r[n], list[n + 1])) = Len(r[n]) + 1
        /\ Len(Append(q[n], list[n + 1])) = Len(q[n]) + 1
        /\ Len(r[n]) \in Nat /\ Len(q[n]) \in Nat
    BY <2>1, AppendProperties, LenProperties
  <2>6. CASE list[n + 1] \in V
    <3>1. Len(r[n + 1]) = Len(r[n]) + 1
      BY <2>3, <2>5, <2>6
    <3>2. q[n + 1] = q[n]
      BY <2>3, <2>4, <2>6
    <3> HIDE DEF T
    <3> QED
      BY <2>1, <2>5, <3>1, <3>2
  <2>7. CASE list[n + 1] \notin V
    <3>1. Len(q[n + 1]) = Len(q[n]) + 1
      BY <2>3, <2>4, <2>5, <2>7
    <3>2. r[n + 1] = r[n]
      BY <2>3, <2>7
    <3> HIDE DEF T
    <3> QED
      BY <2>1, <2>5, <3>1, <3>2
  <2> QED
    BY <2>6, <2>7
<1>5. Len(list) \in T
  <2>1. Nat \subseteq T
    <3> HIDE DEF T
    <3> QED
      BY <1>3, <1>4, Induction
  <2> HIDE DEF T
  <2> QED
    BY <2>1
<1> QED
  BY <1>1, <1>2, <1>5 DEF IsTaken

-----------------------------------------------------------------------------
(* The invariant of the lists *)

ListPcs == {"showcompleted", "shownext", "showprint"}
Listing(t) == run[t].pc \in ListPcs

TransferKnown(k) ==
    /\ xfer[k].state \in {"none", "queued", "active", "done"}
    /\ xfer[k].state # "none" => xfer[k].type \in {"D", "U"}

(* What a list holds on to are transfers of its snapshot, which have        *)
(* started and may have ended.                                              *)
ListKnown(t) ==
    Listing(t) =>
        /\ Req(t).limit \in Nat
        /\ DOMAIN Show(t) = DOMAIN NoRows
        /\ Show(t).snapshot \in SUBSET Tags
        /\ \A k \in Show(t).snapshot : xfer[k].state # "none"
        /\ Show(t).downloads \in Seq(Show(t).snapshot)
        /\ Show(t).uploads \in Seq(Show(t).snapshot)
        /\ \A k \in ToSet(Show(t).uploads) : xfer[k].type = "U"
        /\ Show(t).rows \in Seq(Show(t).snapshot)
        /\ Show(t).done \in Seq(Tags)

Owed(t) == {k \in Show(t).snapshot : Accepted(Req(t), k)}
SomeEnded(t) == \E k \in Show(t).snapshot : ~Running(k)
MoreThanAsked(t) == Shown(t) > Req(t).limit

(* Every transfer that the list owes its reader has a row or is still to    *)
(* come, unless there are rows enough to say that there is more.            *)
OwedIsListed(t) ==
    /\ At(t, "showcompleted") =>
          SomeEnded(t) \/ Owed(t) \subseteq ToSet(Show(t).downloads) \cup ToSet(Show(t).uploads)
    /\ At(t, "shownext") =>
          \/ SomeEnded(t) \/ MoreThanAsked(t)
          \/ Owed(t) \subseteq ToSet(Show(t).downloads) \cup ToSet(Show(t).uploads)
                                  \cup ToSet(Show(t).rows)
    /\ At(t, "showprint") =>
          \/ "only" \in Req(t).completed
          \/ SomeEnded(t) \/ MoreThanAsked(t) \/ Owed(t) \subseteq ToSet(Show(t).rows)

ListInv ==
    /\ script \in [Threads -> Seq(Requests)]
    /\ completed \in Seq(Tags)
    /\ \A k \in Tags : TransferKnown(k)
    /\ \A t \in Threads : ListKnown(t) /\ OwedIsListed(t)

LEMMA InitListInv == Init => ListInv
<1> SUFFICES ASSUME Init PROVE ListInv
  OBVIOUS
<1>1. PICK s \in Scenarios :
        /\ script = s.scripts /\ completed = <<>>
        /\ run = [t \in Threads |-> IdleRun]
        /\ xfer = [k \in Tags |-> IF k = 1 /\ s.sync # "none"
                                  THEN [NoTransfer EXCEPT !.state = "queued", !.type = s.sync,
                                                          !.sync = TRUE]
                                  ELSE NoTransfer]
  BY DEF Init
<1>2. script \in [Threads -> Seq(Requests)] /\ completed \in Seq(Tags)
  BY <1>1, ScenariosAssumption, EmptySeq DEF ScenariosAssumption
<1>3. \A k \in Tags : TransferKnown(k)
  BY <1>1, ScenariosAssumption DEF ScenariosAssumption, TransferKnown, NoTransfer
<1>4. \A t \in Threads : run[t].pc = "idle"
  BY <1>1 DEF IdleRun
<1>5. \A t \in Threads : ListKnown(t) /\ OwedIsListed(t)
  BY <1>4 DEF ListKnown, OwedIsListed, Listing, ListPcs, At
<1> QED
  BY <1>2, <1>3, <1>5 DEF ListInv

(* A transfer goes from its start to its end, and stays what it is. *)
Ages(k) ==
    /\ TransferKnown(k)'
    /\ xfer[k].state # "none" =>
          /\ xfer'[k].state # "none"
          /\ xfer'[k].type = xfer[k].type /\ xfer'[k].sync = xfer[k].sync
    /\ xfer[k].state = "done" => xfer'[k].state = "done"

(* A step that no list is begun, filled or printed by. *)
LeavesLists ==
    /\ script' \in [Threads -> Seq(Requests)]
    /\ completed' \in Seq(Tags)
    /\ \A k \in Tags : Ages(k)
    /\ \A t \in Threads : Listing(t)' =>
          run'[t].pc = run[t].pc /\ run'[t].req = run[t].req /\ run'[t].show = run[t].show

LEMMA AgedTransfers ==
    ASSUME ListInv, NEW k \in Tags, Ages(k), xfer[k].state # "none"
    PROVE  /\ xfer'[k].state # "none"
           /\ ~Running(k) => ~Running(k)'
           /\ \A r : Accepted(r, k)' <=> Accepted(r, k)
<1>1. TransferKnown(k)
  BY DEF ListInv
<1>2. /\ xfer'[k].state # "none" /\ xfer'[k].type = xfer[k].type /\ xfer'[k].sync = xfer[k].sync
      /\ xfer[k].state = "done" => xfer'[k].state = "done"
  BY DEF Ages
<1> QED
  BY <1>1, <1>2 DEF TransferKnown, Running, Accepted, UploadsToo, DownloadsToo

LEMMA LeavesListsKeeps ==
    ASSUME ListInv, LeavesLists PROVE ListInv'
<1>1. \A k \in Tags : TransferKnown(k)'
  BY DEF LeavesLists, Ages
<1>2. ASSUME NEW t \in Threads PROVE ListKnown(t)' /\ OwedIsListed(t)'
  <2>1. CASE ~Listing(t)'
    BY <2>1 DEF ListKnown, OwedIsListed, Listing, ListPcs, At
  <2>2. CASE Listing(t)'
    <3>1. /\ Listing(t) /\ run'[t].pc = run[t].pc
          /\ run'[t].req = run[t].req /\ run'[t].show = run[t].show
      BY <2>2 DEF LeavesLists, Listing
    <3>2. ListKnown(t) /\ OwedIsListed(t)
      BY DEF ListInv
    <3>3. /\ Show(t)' = Show(t) /\ Shown(t)' = Shown(t) /\ Req(t)' = Req(t)
          /\ MoreThanAsked(t)' <=> MoreThanAsked(t)
      BY <3>1 DEF Show, Shown, Req, MoreThanAsked
    <3>4. \A k \in Show(t).snapshot : k \in Tags /\ xfer[k].state # "none" /\ Ages(k)
      BY <3>1, <3>2 DEF ListKnown, LeavesLists
    <3>5. \A k \in Show(t).snapshot :
             /\ xfer'[k].state # "none"
             /\ ~Running(k) => ~Running(k)'
             /\ Accepted(Req(t), k)' <=> Accepted(Req(t), k)
             /\ xfer'[k].type = xfer[k].type
      BY <3>3, <3>4, AgedTransfers DEF Ages
    <3>6. ListKnown(t)'
      <4>1. ToSet(Show(t).uploads) \subseteq Show(t).snapshot
        BY <3>1, <3>2, ElementsKnown DEF ListKnown
      <4> QED
        BY <3>1, <3>2, <3>3, <3>5, <4>1 DEF ListKnown
    <3>7. Owed(t)' = Owed(t) /\ (SomeEnded(t) => SomeEnded(t)')
      BY <3>3, <3>5 DEF Owed, SomeEnded
    <3>8. OwedIsListed(t)'
      BY <3>1, <3>2, <3>3, <3>7 DEF OwedIsListed, At
    <3> QED
      BY <3>6, <3>8
  <2> QED
    BY <2>1, <2>2
<1> QED
  BY <1>1, <1>2 DEF LeavesLists, ListInv

-----------------------------------------------------------------------------
(* The steps that no list is made by *)

LEMMA SameAges ==
    ASSUME ListInv, NEW k \in Tags, xfer'[k] = xfer[k] PROVE Ages(k)
BY DEF ListInv, TransferKnown, Ages

LEMMA ThreadLeaves ==
    ASSUME ListInv, NEW t \in Threads,
           \A u \in Threads \ {t} : run'[u] = run[u], run'[t].pc \notin ListPcs,
           script' \in [Threads -> Seq(Requests)], completed' = completed,
           \A k \in Tags : Ages(k)
    PROVE  LeavesLists
BY DEF ListInv, LeavesLists, Listing

LEMMA WaitsLeave ==
    ASSUME IInv, ListInv, NEW t \in Threads, Waits(t),
           ~ShowCompleted(t), ~ShowNext(t), ~ShowPrint(t)
    PROVE  LeavesLists
<1>0. Fields /\ OthersStay(t)
  BY WaitsMove DEF IInv, Moves, Goes
<1>1. completed' = completed /\ script' = script
  BY DEF Waits, PoolEmpty, SemaphoreWait, PopApi, FreeFolder, FreeApiFolder, DownloadOverQuota,
         DetailsAnswered, DecryptAnswered, Refused, PublicNodeAnswered, FolderLoginAnswered,
         FolderFetchAnswered, AuthorizeNode, DownloadsStarted, CopyAnswered,
         FolderLogoutAnswered, ImportFileAnswered, PutMakedirAnswered, UploadMissing,
         UploadsStarted, AllTransfersAnswered, TransferByTag, TagRequestAnswered, TransfersDone,
         sdkVars
<1>2. run'[t].pc \notin ListPcs
  <2>1. CASE PoolEmpty(t) \/ SemaphoreWait(t) \/ PopApi(t) \/ FreeFolder(t)
    BY <1>0, <2>1, FieldNames DEF PoolEmpty, SemaphoreWait, PopApi, FreeFolder, FreeApiFolder,
       Go, Fail, ListPcs
  <2>2. CASE DecryptAnswered(t) \/ Refused(t) \/ PublicNodeAnswered(t)
    BY <1>0, <2>2, FieldNames DEF DecryptAnswered, Refused, PublicNodeAnswered,
       Answered, AfterDecrypt, Go, Fail, ListPcs
  <2>6. CASE DownloadOverQuota(t) \/ DetailsAnswered(t)
    <3>1. \/ Go(t, "details") \/ run' = [run EXCEPT ![t] = NextJob(@)]
          \/ run' = [run EXCEPT ![t] = [NextJob(@) EXCEPT !.out = "EFAILED"]]
      BY <2>6 DEF DownloadOverQuota, DetailsAnswered, Answered
    <3>2. NextJob(run[t]).pc = "download" /\ DOMAIN NextJob(run[t]) = DOMAIN run[t]
      BY <1>0, FieldNames DEF NextJob
    <3> QED
      BY <1>0, <3>1, <3>2, FieldNames DEF Go, ListPcs
  <2>3. CASE \/ FolderLoginAnswered(t) \/ FolderFetchAnswered(t) \/ AuthorizeNode(t)
             \/ DownloadsStarted(t) \/ CopyAnswered(t) \/ FolderLogoutAnswered(t)
    BY <1>0, <2>3, FieldNames DEF FolderLoginAnswered, FolderFetchAnswered, AuthorizeNode,
       DownloadsStarted, CopyAnswered, FolderLogoutAnswered, Answered, Go, Fail, ListPcs
  <2>4. CASE \/ ImportFileAnswered(t) \/ PutMakedirAnswered(t) \/ UploadMissing(t)
             \/ UploadsStarted(t)
    BY <1>0, <2>4, FieldNames DEF ImportFileAnswered, PutMakedirAnswered, UploadMissing,
       UploadsStarted, Answered, Return, Go, Fail, At, ListPcs
  <2>5. CASE \/ AllTransfersAnswered(t) \/ TransferByTag(t) \/ TagRequestAnswered(t)
             \/ TransfersDone(t)
    BY <1>0, <2>5, FieldNames DEF AllTransfersAnswered, TransferByTag, TagRequestAnswered,
       TransfersDone, Return, Go, At, ListPcs
  <2> QED
    BY <2>1, <2>2, <2>3, <2>4, <2>5, <2>6 DEF Waits
<1>3. ASSUME NEW k \in Tags PROVE Ages(k)
  <2>1. \/ xfer'[k] = xfer[k] \/ xfer'[k] = ToEnd(k)
        \/ \E b \in BOOLEAN : xfer'[k] = [xfer[k] EXCEPT !.paused = b]
    <3>1. CASE AllTransfersAnswered(t)
      BY <1>0, <3>1, FieldNames DEF AllTransfersAnswered, sdkVars
    <3>2. CASE TagRequestAnswered(t)
      BY <1>0, <3>2, FieldNames DEF TagRequestAnswered, sdkVars
    <3>3. CASE ~AllTransfersAnswered(t) /\ ~TagRequestAnswered(t)
      <4>1. xfer' = xfer
        BY <3>3 DEF Waits, PoolEmpty, SemaphoreWait, PopApi, FreeFolder, FreeApiFolder,
           DownloadOverQuota, DetailsAnswered, DecryptAnswered, Refused, PublicNodeAnswered,
           FolderLoginAnswered, FolderFetchAnswered, AuthorizeNode, DownloadsStarted,
           CopyAnswered, FolderLogoutAnswered, ImportFileAnswered, PutMakedirAnswered,
           UploadMissing, UploadsStarted, TransferByTag, TransfersDone, sdkVars
      <4> QED
        BY <4>1
    <3> QED
      BY <3>1, <3>2, <3>3
  <2>2. TransferKnown(k)
    BY DEF ListInv
  <2>3. CASE xfer'[k] = xfer[k]
    BY <2>3, SameAges
  <2>4. CASE xfer'[k] = ToEnd(k)
    BY <1>0, <2>2, <2>4, FieldNames DEF ToEnd, Ages, TransferKnown
  <2>5. ASSUME NEW b \in BOOLEAN, xfer'[k] = [xfer[k] EXCEPT !.paused = b] PROVE Ages(k)
    BY <1>0, <2>2, <2>5, FieldNames DEF Ages, TransferKnown
  <2> QED
    BY <2>1, <2>3, <2>4, <2>5
<1>4. script' \in [Threads -> Seq(Requests)] /\ \A u \in Threads \ {t} : run'[u] = run[u]
  BY <1>0, <1>1 DEF ListInv, OthersStay
<1> QED
  BY <1>1, <1>2, <1>3, <1>4, ThreadLeaves

(* A transfer begins under a tag that none has had. *)
LEMMA StartingAges ==
    ASSUME IInv, ListInv, CanStart, NEW type \in {"D", "U"},
           NEW t, NEW to, NEW handle, NEW source, NEW api,
           StartTransfer(t, type, to, handle, source, api)
    PROVE  \A k \in Tags : Ages(k)
<1>0. NextTag \in Tags /\ xfer[NextTag].state = "none" /\ Fields
  BY NextTagIsFree DEF IInv
<1>1. PICK new \in Tags : new = NextTag
  BY <1>0
<1>2. /\ xfer[new].state = "none"
      /\ xfer'[new].state = "queued" /\ xfer'[new].type = type
      /\ \A k \in Tags \ {new} : xfer'[k] = xfer[k]
  BY <1>0, <1>1, FieldNames DEF StartTransfer, NoTransfer
<1>3. Ages(new)
  BY <1>1, <1>2 DEF Ages, TransferKnown
<1> QED
  BY <1>2, <1>3, SameAges

LEMMA StartersLeave ==
    ASSUME IInv, ListInv, NEW t \in Threads,
           \/ DownloadNode(t) \/ QuotaAnswered(t) \/ UploadNode(t) \/ UploadStarted(t)
    PROVE  LeavesLists
<1>0. Fields /\ completed' = completed /\ script' = script
  BY DEF IInv, DownloadNode, QuotaAnswered, UploadNode, UploadStarted, sdkVars
<1>1. /\ \A u \in Threads \ {t} : run'[u] = run[u]
      /\ run'[t].pc \notin ListPcs
  <2>1. CASE DownloadNode(t) \/ QuotaAnswered(t)
    <3>1. \/ Go(t, "quota")
          \/ run' = [run EXCEPT ![t] = [NextJob(run[t]) EXCEPT !.own = @ \cup {NextTag}]]
          \/ run' = [run EXCEPT ![t] = [NextJob(run[t]) EXCEPT !.own = @ \cup {NextTag},
                                                               !.out = "EFAILED"]]
          \/ run' = [run EXCEPT ![t] = NextJob(@)]
      BY <2>1 DEF DownloadNode, QuotaAnswered, StartDownload
    <3>2. NextJob(run[t]).pc = "download" /\ DOMAIN NextJob(run[t]) = DOMAIN run[t]
      BY <1>0, FieldNames DEF NextJob
    <3> QED
      BY <1>0, <3>1, <3>2, FieldNames DEF Go, ListPcs
  <2>2. CASE UploadNode(t) \/ UploadStarted(t)
    BY <1>0, <2>2, FieldNames DEF UploadNode, UploadStarted, ListPcs
  <2> QED
    BY <2>1, <2>2
<1>2. \A k \in Tags : Ages(k)
  <2>1. CASE xfer' = xfer
    BY <2>1, SameAges
  <2>2. CASE CanStart /\ StartTransfer(t, "D", "multi", Job(t), 0, run[t].api4get)
    BY <2>2, StartingAges
  <2>3. CASE UploadNode(t)
    BY <2>3, StartingAges DEF UploadNode
  <2> QED
    BY <2>1, <2>2, <2>3 DEF DownloadNode, QuotaAnswered, StartDownload, UploadStarted, sdkVars
<1> QED
  BY <1>0, <1>1, <1>2, ThreadLeaves DEF ListInv

LEMMA FinishLeaves ==
    ASSUME IInv, ListInv, NEW t \in Threads, Finish(t) PROVE LeavesLists
<1>0. Fields /\ completed' = completed /\ script' = script
  BY DEF IInv, Finish
<1>1. run'[t].pc = "idle" /\ \A u \in Threads \ {t} : run'[u] = run[u]
  BY <1>0, FieldNames DEF Finish
<1>2. ASSUME NEW k \in Tags PROVE Ages(k)
  <2>1. xfer'[k] = xfer[k] \/ xfer'[k] = [xfer[k] EXCEPT !.to = "none"]
    BY DEF Finish
  <2>2. CASE xfer'[k] = xfer[k]
    BY <2>2, SameAges
  <2>3. CASE xfer'[k] = [xfer[k] EXCEPT !.to = "none"]
    BY <1>0, <2>3, FieldNames DEF ListInv, TransferKnown, Ages
  <2> QED
    BY <2>1, <2>2, <2>3
<1> QED
  BY <1>0, <1>1, <1>2, ThreadLeaves DEF ListInv, ListPcs

LEMMA SdkLeaves ==
    ASSUME IInv, ListInv, NEW k \in Tags, SdkTransfer(k) PROVE LeavesLists
<1>0. Fields /\ TransferKnown(k)
  BY DEF IInv, ListInv
<1>1. script' = script
  BY DEF SdkTransfer, SdkStarts, SdkProgresses, SdkSucceeds, SdkFails, SdkFinishes
<1>2. \/ SdkStarts(k) \/ SdkProgresses(k)
      \/ \E e \in {"OK", "EFAILED", "EINCOMPLETE"} : SdkFinishes(k, e)
  BY DEF SdkTransfer, SdkSucceeds, SdkFails
<1>3. ASSUME NEW j \in Tags PROVE Ages(j)
  <2>1. CASE SdkStarts(k)
    BY <1>0, <2>1, FieldNames, SameAges DEF SdkStarts, ListInv, TransferKnown, Ages
  <2>2. CASE SdkProgresses(k)
    BY <1>0, <2>2, FieldNames, SameAges DEF SdkProgresses, ListInv, TransferKnown, Ages
  <2>3. ASSUME NEW e \in {"OK", "EFAILED", "EINCOMPLETE"}, SdkFinishes(k, e) PROVE Ages(j)
    <3>1. xfer[k].state = "active" /\ xfer'[k].state = "done"
      BY <1>0, <2>3, FieldNames DEF SdkFinishes
    <3>2. /\ xfer'[k].type = xfer[k].type /\ xfer'[k].sync = xfer[k].sync
          /\ \A i \in Tags \ {k} : xfer'[i] = xfer[i]
      BY <1>0, <2>3, FieldNames DEF SdkFinishes
    <3> QED
      BY <1>0, <3>1, <3>2, SameAges DEF TransferKnown, Ages
  <2> QED
    BY <1>2, <2>1, <2>2, <2>3
<1>4. completed' \in Seq(Tags)
  <2>1. CASE SdkStarts(k) \/ SdkProgresses(k)
    BY <2>1 DEF SdkStarts, SdkProgresses, ListInv
  <2>2. CASE completed' = <<k>> \o completed \/ completed' = Front(<<k>> \o completed)
    <3>1. <<k>> \in Seq(Tags) /\ completed \in Seq(Tags)
      BY DEF ListInv
    <3> DEFINE all == <<k>> \o completed
    <3>2. all \in Seq(Tags)
      BY <3>1, ConcatProperties
    <3>3. Len(all) = Len(completed) + 1 /\ Len(completed) \in Nat
      BY <3>1, ConcatProperties, LenProperties
    <3>4. Front(all) \in Seq(Tags)
      <4> HIDE DEF all
      <4>1. Len(all) - 1 \in Nat /\ Len(all) - 1 <= Len(all)
        BY <3>3
      <4> QED
        BY <3>2, <4>1, SubSeqProperties DEF Front
    <3> QED
      BY <2>2, <3>2, <3>4
  <2>3. ASSUME NEW e, SdkFinishes(k, e)
        PROVE  completed' = <<k>> \o completed \/ completed' = Front(<<k>> \o completed)
    BY <2>3 DEF SdkFinishes, AddCompletedTransfer
  <2> QED
    BY <1>2, <2>1, <2>2, <2>3
<1>5. ASSUME NEW t \in Threads
      PROVE  run'[t].pc = run[t].pc /\ run'[t].req = run[t].req /\ run'[t].show = run[t].show
  <2>1. CASE SdkStarts(k)
    BY <1>0, <2>1, FieldNames DEF SdkStarts, OnTransferStartCb
  <2>2. CASE ~SdkStarts(k)
    BY <1>2, <2>2 DEF SdkProgresses, SdkFinishes
  <2> QED
    BY <2>1, <2>2
<1> QED
  BY <1>1, <1>3, <1>4, <1>5 DEF LeavesLists, ListInv

(* A command that begins is one of those asked for. *)
LEMMA BeginKnown ==
    ASSUME ListInv, NEW t \in Threads, NEW op, Begin(t, op)
    PROVE  /\ script' \in [Threads -> Seq(Requests)]
           /\ Head(script[t]) \in Requests /\ Head(script[t]).op = op
           /\ completed' = completed /\ xfer' = xfer
<1>1. script[t] \in Seq(Requests) /\ script[t] # <<>>
  BY DEF ListInv, Begin
<1>2. Head(script[t]) \in Requests /\ Tail(script[t]) \in Seq(Requests)
  BY <1>1, HeadTailProperties
<1>3. script' = [script EXCEPT ![t] = Tail(script[t])]
  BY DEF Begin
<1>4. script' \in [Threads -> Seq(Requests)]
  <2> HIDE DEF Requests
  <2> QED
    BY <1>2, <1>3 DEF ListInv
<1> QED
  BY <1>2, <1>4 DEF Begin, sdkVars

LEMMA CommandsLeave ==
    ASSUME IInv, ListInv, NEW t \in Threads, Command(t), ~ShowTransfers(t) PROVE LeavesLists
<1> DEFINE New(pc) == NewRun(t, Head(script[t]), pc)
<1>0. Fields /\ OthersStay(t)
  BY CommandsBegin DEF IInv, Begins
<1>1. \E op : Begin(t, op)
  BY DEF Command, GetRemote, GetLink, ImportLink, Put, Transfers
<1>2. /\ script' \in [Threads -> Seq(Requests)]
      /\ completed' = completed /\ xfer' = xfer
  BY <1>1, BeginKnown
<1>3. ASSUME NEW pc, pc \notin ListPcs, NEW x,
             \/ run' = [run EXCEPT ![t] = New(pc)]
             \/ run' = [run EXCEPT ![t] = [New(pc) EXCEPT !.out = x]]
             \/ run' = [run EXCEPT ![t] = [New(pc) EXCEPT !.jobs = x]]
             \/ run' = [run EXCEPT ![t] = [IdleRun EXCEPT !.req = Head(script[t]), !.out = x]]
      PROVE  run'[t].pc \notin ListPcs
  <2>1. \/ run'[t] = New(pc)
        \/ run'[t] = [New(pc) EXCEPT !.out = x]
        \/ run'[t] = [New(pc) EXCEPT !.jobs = x]
        \/ run'[t] = [IdleRun EXCEPT !.req = Head(script[t]), !.out = x]
    BY <1>0, <1>3, FieldNames
  <2> QED
    BY <1>3, <2>1 DEF NewRun, IdleRun, ListPcs
<1>4. run'[t].pc \notin ListPcs
  <2>0. {"decrypt", "acquire", "importfile", "refused", "publicnode", "download", "finish",
         "makedir", "upload", "alltransfers", "bytag"} \cap ListPcs = {}
    BY DEF ListPcs
  <2>1. CASE GetRemote(t)
    <3>1. \/ run' = [run EXCEPT ![t] = [New("finish") EXCEPT !.out = "NOTFOUND"]]
          \/ run' = [run EXCEPT ![t] = [IdleRun EXCEPT !.req = Head(script[t]),
                                           !.out = DestinationError(Head(script[t]))]]
          \/ run' = [run EXCEPT ![t] = [New("download") EXCEPT !.jobs = Head(script[t]).nodes]]
      BY <2>1 DEF GetRemote, Refuse
    <3> HIDE DEF New
    <3> QED
      BY <1>3, <2>0, <3>1
  <2>2. CASE GetLink(t)
    <3>1. \E pc \in {"decrypt", "acquire", "importfile", "refused", "publicnode"} :
             run' = [run EXCEPT ![t] = New(pc)]
      <4> HIDE DEF New
      <4>1. PICK pc : run' = [run EXCEPT ![t] = New(pc)]
                /\ pc = IF Head(script[t]).encrypted THEN "decrypt" ELSE AfterDecrypt(Head(script[t]))
        BY <2>2 DEF GetLink, New
      <4> QED
        BY <4>1 DEF AfterDecrypt
    <3> HIDE DEF New
    <3> QED
      BY <1>3, <2>0, <3>1
  <2>3. CASE ImportLink(t)
    <3>1. \E pc \in {"decrypt", "acquire", "importfile", "refused", "publicnode"} :
             run' = [run EXCEPT ![t] = New(pc)]
      <4> HIDE DEF New
      <4>1. PICK pc : run' = [run EXCEPT ![t] = New(pc)]
                /\ pc = IF Head(script[t]).encrypted THEN "decrypt"
                        ELSE IF Head(script[t]).dest # "folder" THEN "refused"
                        ELSE AfterDecrypt(Head(script[t]))
        BY <2>3 DEF ImportLink, New
      <4> QED
        BY <4>1 DEF AfterDecrypt
    <3> HIDE DEF New
    <3> QED
      BY <1>3, <2>0, <3>1
  <2>4. CASE Put(t)
    <3>1. \/ run' = [run EXCEPT ![t] = New("makedir")]
          \/ \E code : run' = [run EXCEPT ![t] = [IdleRun EXCEPT !.req = Head(script[t]),
                                                                 !.out = code]]
          \/ run' = [run EXCEPT ![t] = [New("upload") EXCEPT !.jobs = Head(script[t]).paths]]
      BY <2>4 DEF Put, Refuse
    <3> HIDE DEF New
    <3> QED
      BY <1>3, <2>0, <3>1
  <2>5. CASE Transfers(t)
    <3>1. \E pc \in {"alltransfers", "bytag"} : \E jobs :
             run' = [run EXCEPT ![t] = [New(pc) EXCEPT !.jobs = jobs]]
      <4>1. PICK pc, jobs : /\ run' = [run EXCEPT ![t] = [New(pc) EXCEPT !.jobs = jobs]]
                            /\ pc = IF Head(script[t]).all THEN "alltransfers" ELSE "bytag"
        BY <2>5 DEF Transfers
      <4> QED
        BY <4>1
    <3> HIDE DEF New
    <3> QED
      BY <1>3, <2>0, <3>1
  <2> QED
    BY <2>1, <2>2, <2>3, <2>4, <2>5 DEF Command
<1> QED
  BY <1>0, <1>2, <1>4, SameAges, ThreadLeaves DEF OthersStay

-----------------------------------------------------------------------------
(* The steps that make a list *)

(* Only the list of one thread is another one. *)
ListStep(t) ==
    /\ \A u \in Threads \ {t} : run'[u] = run[u]
    /\ xfer' = xfer /\ completed' = completed
    /\ script' \in [Threads -> Seq(Requests)]

LEMMA ListStepKeeps ==
    ASSUME ListInv, NEW t \in Threads, ListStep(t), ListKnown(t)', OwedIsListed(t)'
    PROVE  ListInv'
<1>1. \A k \in Tags : TransferKnown(k)'
  BY DEF ListInv, ListStep, TransferKnown
<1>2. ASSUME NEW u \in Threads \ {t} PROVE ListKnown(u)' /\ OwedIsListed(u)'
  <2>1. run'[u] = run[u] /\ xfer' = xfer
    BY DEF ListStep
  <2>2. /\ Show(u)' = Show(u) /\ Shown(u)' = Shown(u) /\ Req(u)' = Req(u)
        /\ Listing(u)' <=> Listing(u)
    BY <2>1 DEF Show, Shown, Req, Listing
  <2>3. Owed(u)' = Owed(u) /\ (SomeEnded(u)' <=> SomeEnded(u))
    BY <2>1, <2>2 DEF Owed, SomeEnded, Accepted, Running, UploadsToo, DownloadsToo
  <2>4. ListKnown(u) /\ OwedIsListed(u)
    BY DEF ListInv
  <2> QED
    BY <2>1, <2>2, <2>3, <2>4 DEF ListKnown, OwedIsListed, MoreThanAsked, At
<1> QED
  BY <1>1, <1>2 DEF ListInv, ListStep

LEMMA ShowTransfersKeeps ==
    ASSUME IInv, ListInv, NEW t \in Threads, ShowTransfers(t) PROVE ListInv'
<1> DEFINE req == Head(script[t])
           down == RunningTags("D")
           up == RunningTags("U")
           all == {k \in Tags : Running(k)}
           rows == [NoRows EXCEPT !.downloads = down, !.uploads = up, !.snapshot = all]
           new == [NewRun(t, req, "showcompleted") EXCEPT !.show = rows]
<1>0. Fields
  BY DEF IInv
<1>1. Begin(t, "transfers") /\ req.what = "show" /\ run' = [run EXCEPT ![t] = new]
  BY DEF ShowTransfers
<1>2. /\ script' \in [Threads -> Seq(Requests)] /\ completed' = completed /\ xfer' = xfer
      /\ req \in Requests /\ req.op = "transfers"
  BY <1>1, BeginKnown
<1>3. req.limit \in Nat
  BY <1>1, <1>2, ScenariosAssumption DEF ScenariosAssumption
<1>4. new.pc = "showcompleted" /\ new.req = req /\ new.show = rows
  BY DEF NewRun, IdleRun
<1>5. /\ rows.downloads = down /\ rows.uploads = up /\ rows.snapshot = all
      /\ rows.rows = <<>> /\ rows.done = <<>> /\ DOMAIN rows = DOMAIN NoRows
  BY DEF NoRows
<1>6. run'[t] = new /\ \A u \in Threads \ {t} : run'[u] = run[u]
  <2> HIDE DEF new
  <2> QED
    BY <1>0, <1>1, FieldNames
<1>7. /\ down \in Seq(all) /\ up \in Seq(all)
      /\ all \subseteq ToSet(down) \cup ToSet(up)
      /\ \A k \in ToSet(up) : xfer[k].type = "U"
  <2> DEFINE D == {k \in OfType("D") : Running(k)}
             U == {k \in OfType("U") : Running(k)}
  <2>1. D \in SUBSET Tags /\ U \in SUBSET Tags /\ D \subseteq all /\ U \subseteq all
    BY DEF OfType
  <2>2. all \subseteq D \cup U
    BY DEF ListInv, TransferKnown, OfType, Running
  <2>3. down = Ascending(D) /\ up = Ascending(U)
    BY DEF RunningTags
  <2> HIDE DEF D, U, down, up, all
  <2>4. /\ down \in Seq(D) /\ D \subseteq ToSet(down)
        /\ up \in Seq(U) /\ U \subseteq ToSet(up)
    BY <2>1, <2>3, AscendingIs
  <2>5. down \in Seq(all) /\ up \in Seq(all)
    BY <2>1, <2>4, SeqMonotonic
  <2>6. ToSet(up) \subseteq U
    BY <2>4, ElementsKnown
  <2>7. \A k \in U : xfer[k].type = "U"
    BY DEF U, OfType
  <2> QED
    BY <2>2, <2>4, <2>5, <2>6, <2>7
<1>8. all \in SUBSET Tags /\ \A k \in all : xfer[k].state # "none"
  BY DEF Running
<1>9. <<>> \in Seq(all) /\ <<>> \in Seq(Tags)
  BY EmptySeq
<1> HIDE DEF new, rows, req, down, up, all
<1>10. Show(t)' = rows /\ Req(t)' = req /\ run'[t].pc = "showcompleted"
  BY <1>4, <1>6 DEF Show, Req
<1>11. ListKnown(t)'
  BY <1>2, <1>3, <1>5, <1>7, <1>8, <1>9, <1>10 DEF ListKnown
<1>12. Owed(t)' \subseteq all
  BY <1>5, <1>10 DEF Owed
<1>13. OwedIsListed(t)'
  BY <1>5, <1>7, <1>10, <1>12 DEF OwedIsListed, At
<1> QED
  BY <1>2, <1>6, <1>11, <1>13, ListStepKeeps DEF ListStep

LEMMA ShowCompletedKeeps ==
    ASSUME IInv, ListInv, NEW t \in Threads, ShowCompleted(t) PROVE ListInv'
<1> DEFINE done == CompletedRows(Req(t))
           pc == IF "only" \in Req(t).completed THEN "showprint" ELSE "shownext"
<1>0. Fields /\ At(t, "showcompleted") /\ ListKnown(t) /\ OwedIsListed(t) /\ Listing(t)
  BY DEF IInv, ShowCompleted, ListInv, At, Listing, ListPcs
<1>1. done \in Seq(Tags)
  <2> DEFINE S == {k \in Tags : Accepted(Req(t), k)}
             accepted == OnlyIn(completed, S)
             most == Req(t).limit + 1
  <2>1. accepted \in Seq(Tags)
    <3> HIDE DEF S
    <3> QED
      BY OnlyInTakes DEF ListInv
  <2>2. \/ done = <<>>
        \/ done = SubSeq(accepted, 1, IF Len(accepted) < most THEN Len(accepted) ELSE most)
    BY DEF CompletedRows
  <2>3. most \in Nat /\ Len(accepted) \in Nat
    <3> HIDE DEF accepted
    <3> QED
      BY <1>0, <2>1, LenProperties DEF ListKnown
  <2> HIDE DEF accepted, most, done
  <2>4. CASE done = <<>>
    BY <2>4, EmptySeq
  <2>5. CASE done = SubSeq(accepted, 1, IF Len(accepted) < most THEN Len(accepted) ELSE most)
    <3>1. PICK n \in Nat : n <= Len(accepted) /\ done = SubSeq(accepted, 1, n)
      BY <2>3, <2>5
    <3> QED
      BY <2>1, <2>3, <3>1, SubSeqProperties
  <2> QED
    BY <2>2, <2>4, <2>5
<1>2. /\ run'[t].pc = pc /\ run'[t].req = run[t].req
      /\ run'[t].show = [run[t].show EXCEPT !.done = done]
      /\ \A u \in Threads \ {t} : run'[u] = run[u]
  <2> HIDE DEF done
  <2>1. run' = [run EXCEPT ![t].pc = pc, ![t].show.done = done]
    BY DEF ShowCompleted, done
  <2> HIDE DEF pc
  <2> QED
    BY <1>0, <2>1, FieldNames
<1>3. xfer' = xfer /\ completed' = completed /\ script' = script
  BY DEF ShowCompleted, sdkVars
<1> HIDE DEF done
<1>4. /\ Show(t)' = [Show(t) EXCEPT !.done = done] /\ Req(t)' = Req(t)
  BY <1>2 DEF Show, Req
<1>5. DOMAIN Show(t) = {"downloads", "uploads", "rows", "done", "printed", "more", "snapshot"}
  BY <1>0 DEF ListKnown, NoRows
<1>6. /\ Show(t)'.snapshot = Show(t).snapshot /\ Show(t)'.downloads = Show(t).downloads
      /\ Show(t)'.uploads = Show(t).uploads /\ Show(t)'.rows = Show(t).rows
      /\ Show(t)'.done = done /\ DOMAIN Show(t)' = DOMAIN Show(t)
  BY <1>4, <1>5
<1>7. ListKnown(t)'
  BY <1>0, <1>1, <1>3, <1>4, <1>6 DEF ListKnown
<1>8. Owed(t)' = Owed(t) /\ (SomeEnded(t)' <=> SomeEnded(t))
  BY <1>3, <1>4, <1>6 DEF Owed, SomeEnded, Accepted, Running, UploadsToo, DownloadsToo
<1>9. OwedIsListed(t)'
  BY <1>0, <1>2, <1>4, <1>6, <1>8 DEF OwedIsListed, At
<1> QED
  BY <1>2, <1>3, <1>7, <1>9, ListStepKeeps DEF ListStep, ListInv

(* The next tag is the first of one of the two sequences; when there is     *)
(* none, only uploads can be left, and only when nobody asked for them.     *)
LEMMA NextIsKnown ==
    ASSUME NEW req, NEW show, NEW shown
    PROVE  /\ NextIs(req, show, shown) \in {"U", "D", "none"}
           /\ NextIs(req, show, shown) = "U" => show.uploads # <<>>
           /\ NextIs(req, show, shown) = "D" => show.downloads # <<>>
           /\ NextIs(req, show, shown) = "none" =>
                 show.downloads = <<>> /\ (show.uploads = <<>> \/ ~UploadsToo(req))
BY DEF NextIs, UploadsToo

LEMMA FirstAndRest ==
    ASSUME NEW S, NEW s \in Seq(S), s # <<>>
    PROVE  /\ Head(s) \in S /\ Tail(s) \in Seq(S)
           /\ ToSet(s) = ToSet(Tail(s)) \cup {Head(s)}
<1>1. /\ Head(s) \in S /\ Tail(s) \in Seq(S) /\ Len(s) \in Nat /\ Len(s) > 0
      /\ Len(Tail(s)) = Len(s) - 1 /\ Head(s) = s[1]
      /\ \A i \in 1 .. Len(Tail(s)) : Tail(s)[i] = s[i + 1]
  BY HeadTailProperties, LenProperties, EmptySeq
<1>2. /\ ToSet(s) = {s[i] : i \in 1 .. Len(s)}
      /\ ToSet(Tail(s)) = {Tail(s)[i] : i \in 1 .. Len(s) - 1}
  BY <1>1, LenProperties DEF ToSet
<1>3. ASSUME NEW i \in 1 .. Len(s) - 1 PROVE Tail(s)[i] = s[i + 1] /\ i + 1 \in 1 .. Len(s)
  BY <1>1
<1>4. ASSUME NEW i \in 1 .. Len(s)
      PROVE  s[i] = Head(s) \/ (i - 1 \in 1 .. Len(s) - 1 /\ s[i] = Tail(s)[i - 1])
  BY <1>1
<1>5. 1 \in 1 .. Len(s)
  BY <1>1
<1>6. ToSet(s) \subseteq ToSet(Tail(s)) \cup {Head(s)}
  BY <1>2, <1>4
<1>7. ToSet(Tail(s)) \subseteq ToSet(s)
  BY <1>2, <1>3
<1> QED
  BY <1>1, <1>2, <1>5, <1>6, <1>7

(* Another row, or a tag that gets none. *)
LEMMA ShowNextTakes ==
    ASSUME IInv, ListInv, NEW t \in Threads, At(t, "shownext"),
           NEW next \in {"U", "D"},
           next = "U" => Show(t).uploads # <<>>, next = "D" => Show(t).downloads # <<>>,
           NEW k, k = (IF next = "U" THEN Head(Show(t).uploads) ELSE Head(Show(t).downloads)),
           NEW takes \in BOOLEAN, takes <=> (Accepted(Req(t), k) /\ Shown(t) < Req(t).limit + 1),
           NEW show,
           show = [Show(t) EXCEPT !.uploads = IF next = "U" THEN Tail(@) ELSE @,
                                  !.downloads = IF next = "D" THEN Tail(@) ELSE @,
                                  !.rows = IF takes THEN Append(@, k) ELSE @],
           run' = [run EXCEPT ![t].show = show,
                              ![t].pc = IF Shown(t) + (IF takes THEN 1 ELSE 0) >= Req(t).limit + 1
                                        THEN "showprint" ELSE "shownext"],
           UNCHANGED <<script, listener, poolVars, sdkVars, faults>>
    PROVE  ListInv'
<1> DEFINE count == Shown(t) + (IF takes THEN 1 ELSE 0)
           pc == IF count >= Req(t).limit + 1 THEN "showprint" ELSE "shownext"
           snapshot == Show(t).snapshot
           open(s) == ToSet(s.downloads) \cup ToSet(s.uploads)
<1>0. Fields /\ ListKnown(t) /\ OwedIsListed(t) /\ Listing(t)
  BY DEF IInv, ListInv, At, Listing, ListPcs
<1>1. /\ run'[t].pc = pc /\ run'[t].req = run[t].req /\ run'[t].show = show
      /\ \A u \in Threads \ {t} : run'[u] = run[u]
  <2>1. run' = [run EXCEPT ![t].show = show, ![t].pc = pc]
    OBVIOUS
  <2> HIDE DEF pc
  <2> QED
    BY <1>0, <2>1, FieldNames
<1>2. DOMAIN Show(t) = {"downloads", "uploads", "rows", "done", "printed", "more", "snapshot"}
  BY <1>0 DEF ListKnown, NoRows
<1>3. /\ show.downloads = (IF next = "D" THEN Tail(Show(t).downloads) ELSE Show(t).downloads)
      /\ show.uploads = (IF next = "U" THEN Tail(Show(t).uploads) ELSE Show(t).uploads)
      /\ show.rows = (IF takes THEN Append(Show(t).rows, k) ELSE Show(t).rows)
      /\ show.done = Show(t).done /\ show.snapshot = snapshot /\ DOMAIN show = DOMAIN Show(t)
  BY <1>2
<1>4. /\ Show(t).downloads \in Seq(snapshot) /\ Show(t).uploads \in Seq(snapshot)
      /\ Show(t).rows \in Seq(snapshot) /\ Show(t).done \in Seq(Tags)
      /\ Req(t).limit \in Nat
  BY <1>0 DEF ListKnown
<1>5. /\ k \in snapshot
      /\ show.downloads \in Seq(snapshot) /\ show.uploads \in Seq(snapshot)
      /\ open(Show(t)) = open(show) \cup {k}
      /\ ToSet(show.uploads) \subseteq ToSet(Show(t).uploads)
  <2> HIDE DEF snapshot
  <2>1. CASE next = "U"
    BY <1>3, <1>4, <2>1, FirstAndRest
  <2>2. CASE next = "D"
    BY <1>3, <1>4, <2>2, FirstAndRest
  <2> QED
    BY <2>1, <2>2
<1>6. /\ show.rows \in Seq(snapshot)
      /\ ToSet(Show(t).rows) \subseteq ToSet(show.rows)
      /\ takes => k \in ToSet(show.rows)
      /\ Len(show.rows) = Len(Show(t).rows) + (IF takes THEN 1 ELSE 0)
  <2> HIDE DEF snapshot
  <2>1. CASE takes
    <3>1. show.rows = Append(Show(t).rows, k)
      BY <1>3, <2>1
    <3> QED
      BY <1>4, <1>5, <2>1, <3>1, ElementsAppended, AppendProperties
  <2>2. CASE ~takes
    <3>1. show.rows = Show(t).rows
      BY <1>3, <2>2
    <3> QED
      BY <1>4, <2>2, <3>1, LenProperties
  <2> QED
    BY <2>1, <2>2
<1> HIDE DEF pc, count, snapshot
<1>7. Show(t)' = show /\ Req(t)' = Req(t) /\ xfer' = xfer
  BY <1>1 DEF Show, Req, sdkVars
<1>8. ListKnown(t)'
  BY <1>0, <1>3, <1>4, <1>5, <1>6, <1>7 DEF ListKnown, snapshot
<1>9. Owed(t)' = Owed(t) /\ (SomeEnded(t)' <=> SomeEnded(t))
  BY <1>3, <1>7 DEF Owed, SomeEnded, Accepted, Running, UploadsToo, DownloadsToo, snapshot
<1>10. /\ Shown(t)' = count /\ Shown(t) \in Nat /\ count \in Nat /\ Shown(t) <= count
       /\ takes => count = Shown(t) + 1
       /\ ~takes => count = Shown(t)
  <2>1. Shown(t)' = Len(show.done) + Len(show.rows)
    BY <1>7 DEF Shown
  <2>2. Len(Show(t).done) \in Nat /\ Len(Show(t).rows) \in Nat
    BY <1>4, LenProperties
  <2>3. Shown(t) = Len(Show(t).done) + Len(Show(t).rows)
    BY DEF Shown
  <2>4. PICK d \in Nat, r \in Nat, m \in {0, 1} :
           /\ Shown(t) = d + r /\ Shown(t)' = d + (r + m)
           /\ m = (IF takes THEN 1 ELSE 0)
    <3>1. Shown(t)' = Len(Show(t).done) + (Len(Show(t).rows) + (IF takes THEN 1 ELSE 0))
      BY <1>3, <1>6, <2>1
    <3> QED
      BY <2>2, <2>3, <3>1
  <2>5. count = Shown(t) + m
    BY <2>4 DEF count
  <2> QED
    BY <2>4, <2>5
<1>11. MoreThanAsked(t)' <=> count >= Req(t).limit + 1
  BY <1>4, <1>7, <1>10 DEF MoreThanAsked
<1>12. /\ pc = "showprint" => MoreThanAsked(t)'
       /\ pc \in {"showprint", "shownext"}
  BY <1>11 DEF pc
<1>13. \/ SomeEnded(t) \/ MoreThanAsked(t)'
       \/ Owed(t) \subseteq open(show) \cup ToSet(show.rows)
  <2>1. CASE SomeEnded(t)
    BY <2>1
  <2>2. CASE MoreThanAsked(t)
    <3>1. Shown(t) >= Req(t).limit + 1
      BY <1>4, <1>10, <2>2 DEF MoreThanAsked
    <3> QED
      BY <1>4, <1>10, <1>11, <3>1
  <2>3. CASE Owed(t) \subseteq open(Show(t)) \cup ToSet(Show(t).rows)
    <3>1. CASE takes
      BY <1>5, <1>6, <2>3, <3>1
    <3>2. CASE ~Accepted(Req(t), k)
      <4>1. k \notin Owed(t)
        BY <3>2 DEF Owed
      <4> QED
        BY <1>5, <1>6, <2>3, <4>1
    <3>3. CASE ~(Shown(t) < Req(t).limit + 1)
      BY <1>4, <1>10, <1>11, <3>3
    <3> QED
      BY <3>1, <3>2, <3>3
  <2> QED
    BY <1>0, <2>1, <2>2, <2>3 DEF OwedIsListed
<1>14. OwedIsListed(t)'
  BY <1>1, <1>7, <1>9, <1>12, <1>13 DEF OwedIsListed, At
<1> QED
  BY <1>1, <1>7, <1>8, <1>14, ListStepKeeps DEF ListStep, ListInv, sdkVars

LEMMA ShowNextKeeps ==
    ASSUME IInv, ListInv, NEW t \in Threads, ShowNext(t) PROVE ListInv'
<1> DEFINE next == NextIs(Req(t), Show(t), Shown(t))
           k == IF next = "U" THEN Head(Show(t).uploads) ELSE Head(Show(t).downloads)
           enough == Req(t).limit + 1
           takes == Accepted(Req(t), k) /\ Shown(t) < enough
           show == [Show(t) EXCEPT !.uploads = IF next = "U" THEN Tail(@) ELSE @,
                                   !.downloads = IF next = "D" THEN Tail(@) ELSE @,
                                   !.rows = IF takes THEN Append(@, k) ELSE @]
           pc == IF Shown(t) + (IF takes THEN 1 ELSE 0) >= enough THEN "showprint" ELSE "shownext"
<1>0. Fields /\ At(t, "shownext") /\ ListKnown(t) /\ OwedIsListed(t) /\ Listing(t)
  BY DEF IInv, ShowNext, TakeNext, ListInv, At, Listing, ListPcs
<1>1. /\ next \in {"U", "D", "none"}
      /\ next = "U" => Show(t).uploads # <<>>
      /\ next = "D" => Show(t).downloads # <<>>
      /\ next = "none" => Show(t).downloads = <<>> /\ (Show(t).uploads = <<>> \/ ~UploadsToo(Req(t)))
  BY NextIsKnown
<1>2. /\ UNCHANGED <<script, listener, poolVars, sdkVars, faults>>
      /\ \/ (next = "none" \/ ~Running(k)) /\ Go(t, "showprint")
         \/ next # "none" /\ run' = [run EXCEPT ![t].show = show, ![t].pc = pc]
  BY DEF ShowNext, TakeNext
<1>3. ASSUME next = "none" \/ ~Running(k), Go(t, "showprint") PROVE ListInv'
  <2> HIDE DEF next, k, show, takes
  <2>1. /\ run'[t].pc = "showprint" /\ run'[t].req = run[t].req /\ run'[t].show = run[t].show
        /\ \A u \in Threads \ {t} : run'[u] = run[u]
    BY <1>0, <1>3, FieldNames DEF Go
  <2>2. Show(t)' = Show(t) /\ Shown(t)' = Shown(t) /\ Req(t)' = Req(t) /\ xfer' = xfer
    BY <1>2, <2>1 DEF Show, Shown, Req, sdkVars
  <2>3. ListKnown(t)'
    BY <1>0, <2>2 DEF ListKnown
  <2>4. SomeEnded(t) \/ MoreThanAsked(t) \/ Owed(t) \subseteq ToSet(Show(t).rows)
    <3>1. /\ Show(t).downloads \in Seq(Show(t).snapshot)
          /\ Show(t).uploads \in Seq(Show(t).snapshot)
          /\ \A j \in ToSet(Show(t).uploads) : xfer[j].type = "U"
      BY <1>0 DEF ListKnown
    <3>2. CASE next = "none"
      <4>1. \A j \in ToSet(Show(t).uploads) : j \notin Owed(t)
        <5>1. CASE Show(t).uploads = <<>>
          BY <5>1 DEF ToSet
        <5>2. CASE ~UploadsToo(Req(t))
          BY <3>1, <5>2 DEF Owed, Accepted
        <5> QED
          BY <1>1, <3>2, <5>1, <5>2
      <4>2. ToSet(Show(t).downloads) = {}
        BY <1>1, <3>2 DEF ToSet
      <4> QED
        BY <1>0, <4>1, <4>2 DEF OwedIsListed
    <3>3. CASE next # "none"
      <4>1. k \in Show(t).snapshot
        BY <1>1, <3>1, <3>3, FirstAndRest DEF k
      <4>2. ~Running(k)
        BY <1>3, <3>3
      <4> QED
        BY <4>1, <4>2 DEF SomeEnded
    <3> QED
      BY <3>2, <3>3
  <2>5. /\ Owed(t)' = Owed(t) /\ (SomeEnded(t)' <=> SomeEnded(t))
        /\ MoreThanAsked(t)' <=> MoreThanAsked(t)
    BY <2>2 DEF Owed, SomeEnded, MoreThanAsked, Accepted, Running, UploadsToo, DownloadsToo
  <2>6. OwedIsListed(t)'
    BY <2>1, <2>2, <2>4, <2>5 DEF OwedIsListed, At
  <2> QED
    BY <1>2, <2>1, <2>2, <2>3, <2>6, ListStepKeeps DEF ListStep, ListInv, sdkVars
<1>4. ASSUME next # "none", run' = [run EXCEPT ![t].show = show, ![t].pc = pc] PROVE ListInv'
  <2>1. PICK n, j, b, s : /\ n \in {"U", "D"} /\ b \in BOOLEAN
                         /\ n = next /\ j = k /\ (b <=> takes) /\ s = show
    BY <1>1, <1>4
  <2>2. /\ n \in {"U", "D"} /\ b \in BOOLEAN
        /\ j = (IF n = "U" THEN Head(Show(t).uploads) ELSE Head(Show(t).downloads))
        /\ b <=> (Accepted(Req(t), j) /\ Shown(t) < Req(t).limit + 1)
        /\ n = "U" => Show(t).uploads # <<>>
        /\ n = "D" => Show(t).downloads # <<>>
    BY <1>1, <2>1
  <2>3. s = [Show(t) EXCEPT !.uploads = IF n = "U" THEN Tail(@) ELSE @,
                            !.downloads = IF n = "D" THEN Tail(@) ELSE @,
                            !.rows = IF b THEN Append(@, j) ELSE @]
    BY <2>1
  <2>4. run' = [run EXCEPT ![t].show = s,
                           ![t].pc = IF Shown(t) + (IF b THEN 1 ELSE 0) >= Req(t).limit + 1
                                     THEN "showprint" ELSE "shownext"]
    BY <1>4, <2>1
  <2> HIDE DEF next, k, show, takes, pc, enough
  <2> QED
    BY <1>0, <1>2, <2>2, <2>3, <2>4, ShowNextTakes
<1> QED
  BY <1>2, <1>3, <1>4

LEMMA ShowPrintKeeps ==
    ASSUME IInv, ListInv, NEW t \in Threads, ShowPrint(t) PROVE ListInv'
<1>0. Fields
  BY DEF IInv
<1>1. run'[t].pc = "idle" /\ \A u \in Threads \ {t} : run'[u] = run[u]
  BY <1>0, FieldNames DEF ShowPrint
<1>2. /\ xfer' = xfer /\ completed' = completed /\ script' = script
  BY DEF ShowPrint, sdkVars
<1>3. LeavesLists
  BY <1>1, <1>2, SameAges, ThreadLeaves DEF ListInv, ListPcs
<1> QED
  BY <1>3, LeavesListsKeeps

LEMMA NextListInv == IInv /\ ListInv /\ [Next]_vars => ListInv'
<1> SUFFICES ASSUME IInv, ListInv, [Next]_vars PROVE ListInv'
  OBVIOUS
<1>1. ASSUME NEW t \in Threads, Command(t) \/ Step(t) \/ Answer(t) PROVE ListInv'
  <2>1. CASE ShowTransfers(t) \/ ShowCompleted(t) \/ ShowNext(t) \/ ShowPrint(t)
    BY <2>1, ShowTransfersKeeps, ShowCompletedKeeps, ShowNextKeeps, ShowPrintKeeps
  <2>2. CASE ~(ShowTransfers(t) \/ ShowCompleted(t) \/ ShowNext(t) \/ ShowPrint(t))
    <3>1. \/ Command(t) \/ Waits(t) \/ Finish(t)
          \/ DownloadNode(t) \/ QuotaAnswered(t) \/ UploadNode(t) \/ UploadStarted(t)
      BY <1>1 DEF Step, Answer, Waits
    <3> QED
      BY <2>2, <3>1, CommandsLeave, WaitsLeave, FinishLeaves, StartersLeave, LeavesListsKeeps
  <2> QED
    BY <2>1, <2>2
<1>2. ASSUME NEW k \in Tags, SdkTransfer(k) PROVE ListInv'
  BY <1>2, SdkLeaves, LeavesListsKeeps
<1>3. CASE Environment \/ UNCHANGED vars
  <2>1. UNCHANGED <<script, run, xfer, completed>>
    BY <1>3 DEF Environment, AccountUpdate, SdkMeetsQuota, vars, sdkVars
  <2>2. LeavesLists
    BY <2>1, SameAges DEF LeavesLists, ListInv
  <2> QED
    BY <2>2, LeavesListsKeeps
<1> QED
  BY <1>1, <1>2, <1>3 DEF Next

(* Only its own last step ends a list. *)
LEMMA OnlyPrintEnds ==
    ASSUME IInv, Next, NEW t \in Threads, At(t, "showprint"), run'[t].pc = "idle"
    PROVE  ShowPrint(t)
<1>1. ASSUME NEW u \in Threads, Command(u) \/ Step(u) \/ Answer(u) PROVE ShowPrint(t)
  <2>1. CASE u = t
    <3>1. ~UploadStarted(t) /\ ~Finish(t) /\ ~Begins(t)
      BY DEF UploadStarted, Finish, Begins, At
    <3>2. \A k \in Tags : ~StartsGet(t, k) /\ ~StartsPut(t, k)
      BY DEF StartsGet, StartsPut, StartsOne, At
    <3>3. ~Command(t)
      BY <3>1, CommandsBegin
    <3> QED
      BY <1>1, <2>1, <3>3
         DEF Step, Answer, Answered, At, DownloadNode, DownloadOverQuota, DownloadsStarted,
             Refused, PoolEmpty, SemaphoreWait, PopApi, FreeFolder, UploadNode, UploadMissing,
             UploadStarted, UploadsStarted, Finish, TransferByTag, TransfersDone, ShowCompleted,
             ShowNext, TakeNext, DecryptAnswered, PublicNodeAnswered, DetailsAnswered,
             QuotaAnswered, FolderLoginAnswered, FolderFetchAnswered, AuthorizeNode,
             CopyAnswered, FolderLogoutAnswered, ImportFileAnswered, PutMakedirAnswered,
             AllTransfersAnswered, TagRequestAnswered
  <2>2. CASE u # t
    <3>1. run'[t] = run[t]
      <4>1. CASE UploadStarted(u) \/ Finish(u)
        BY <2>2, <4>1 DEF UploadStarted, Finish, IInv, Fields
      <4>2. CASE OthersStay(u)
        BY <2>2, <4>2 DEF OthersStay
      <4> QED
        BY <1>1, <4>1, <4>2, ThreadEffect DEF Begins, Moves, Goes, StartsGet, StartsPut, StartsOne
    <3> QED
      BY <3>1 DEF At
  <2> QED
    BY <2>1, <2>2
<1>2. ASSUME NEW k \in Tags, SdkTransfer(k) PROVE run'[t].pc = run[t].pc
  <2>1. CASE SdkStarts(k)
    BY <2>1 DEF SdkStarts, IInv, Fields, IdleRun, OnTransferStartCb
  <2>2. CASE ~SdkStarts(k)
    BY <1>2, <2>2 DEF SdkTransfer, SdkProgresses, SdkSucceeds, SdkFails, SdkFinishes
  <2> QED
    BY <2>1, <2>2
<1>3. CASE Environment \/ UNCHANGED vars
  BY <1>3 DEF Environment, AccountUpdate, SdkMeetsQuota, vars, At
<1> QED
  BY <1>1, <1>2, <1>3 DEF Next, At

(* What is printed are all rows, or the limit's number of them. *)
LEMMA PrintShowsRows ==
    ASSUME IInv, ListInv, NEW t \in Threads, ShowPrint(t)
    PROVE  LET show == run'[t].show IN
           /\ Len(show.printed) <= Req(t).limit
           /\ show.snapshot = Show(t).snapshot
           /\ MoreThanAsked(t) => show.more
           /\ show.more \/ ToSet(Show(t).rows) \subseteq ToSet(show.printed)
<1> DEFINE D == OnlyIn(Show(t).rows, OfType("D"))
           U == OnlyIn(Show(t).rows, OfType("U"))
           all == AllRows(Show(t))
           limit == Req(t).limit
           printed == IF Len(all) > limit THEN SubSeq(all, 1, limit) ELSE all
           show == run'[t].show
<1>0. Fields /\ At(t, "showprint") /\ ListKnown(t) /\ Listing(t)
  BY DEF IInv, ShowPrint, ListInv, At, Listing, ListPcs
<1>1. /\ Show(t).rows \in Seq(Show(t).snapshot) /\ Show(t).done \in Seq(Tags)
      /\ Show(t).snapshot \in SUBSET Tags
      /\ \A k \in Show(t).snapshot : xfer[k].state # "none" /\ k \in Tags
      /\ limit \in Nat
  BY <1>0 DEF ListKnown
<1>2. Show(t).rows \in Seq(Tags)
  BY <1>1, SeqMonotonic
<1>3. \A k \in ToSet(Show(t).rows) : k \in OfType("D") <=> k \notin OfType("U")
  <2>1. ToSet(Show(t).rows) \subseteq Show(t).snapshot
    BY <1>1, ElementsKnown
  <2> QED
    BY <1>1, <2>1 DEF ListInv, TransferKnown, OfType
<1>4. /\ D \in Seq(Tags) /\ U \in Seq(Tags)
      /\ ToSet(D) = ToSet(Show(t).rows) \cap OfType("D")
      /\ ToSet(U) = ToSet(Show(t).rows) \cap OfType("U")
  BY <1>2, OnlyInTakes
<1>5. Len(D) + Len(U) = Len(Show(t).rows)
  BY <1>2, <1>3, SharesAddUp
<1>6. all = (Show(t).done \o D) \o U
  BY DEF AllRows
<1> HIDE DEF D, U, all
<1>7. /\ all \in Seq(Tags) /\ Len(all) = (Len(Show(t).done) + Len(D)) + Len(U)
      /\ ToSet(all) = (ToSet(Show(t).done) \cup ToSet(D)) \cup ToSet(U)
  <2>1. PICK first : first = Show(t).done \o D
    OBVIOUS
  <2>2. /\ first \in Seq(Tags) /\ Len(first) = Len(Show(t).done) + Len(D)
        /\ ToSet(first) = ToSet(Show(t).done) \cup ToSet(D)
    BY <1>1, <1>4, <2>1, ElementsJoined
  <2>3. all = first \o U
    BY <1>6, <2>1
  <2>4. /\ all \in Seq(Tags) /\ Len(all) = Len(first) + Len(U)
        /\ ToSet(all) = ToSet(first) \cup ToSet(U)
    <3>1. first \in Seq(Tags) /\ U \in Seq(Tags)
      BY <1>4, <2>2
    <3>2. /\ first \o U \in Seq(Tags) /\ Len(first \o U) = Len(first) + Len(U)
          /\ ToSet(first \o U) = ToSet(first) \cup ToSet(U)
      BY <3>1, ElementsJoined
    <3> QED
      BY <2>3, <3>2
  <2> QED
    BY <2>2, <2>4
<1>8. ToSet(Show(t).rows) \subseteq ToSet(all)
  BY <1>3, <1>4, <1>7
<1>9. Len(all) = Shown(t) /\ Len(all) \in Nat
  <2>1. Len(Show(t).done) \in Nat /\ Len(D) \in Nat /\ Len(U) \in Nat
    BY <1>1, <1>4, LenProperties
  <2>2. PICK c \in Nat, d \in Nat, u \in Nat :
           c = Len(Show(t).done) /\ d = Len(D) /\ u = Len(U)
    BY <2>1
  <2>3. Len(all) = (c + d) + u
    BY <1>7, <2>2
  <2>4. Shown(t) = c + (d + u)
    BY <1>5, <2>2 DEF Shown
  <2>5. (c + d) + u = c + (d + u) /\ (c + d) + u \in Nat
    OBVIOUS
  <2> QED
    BY <2>3, <2>4, <2>5
<1>10. /\ show.printed = printed /\ show.more = (Len(all) > limit)
       /\ show.snapshot = Show(t).snapshot
  <2> DEFINE more == Len(all) > limit
  <2>1. run' = [run EXCEPT ![t].pc = "idle", ![t].show.printed = printed, ![t].show.more = more]
    BY DEF ShowPrint, all
  <2>2. DOMAIN run[t].show = {"downloads", "uploads", "rows", "done", "printed", "more", "snapshot"}
    BY <1>0 DEF ListKnown, NoRows, Show
  <2>3. PICK p, b : p = printed /\ b = more
    OBVIOUS
  <2>4. run' = [run EXCEPT ![t].pc = "idle", ![t].show.printed = p, ![t].show.more = b]
    BY <2>1, <2>3
  <2> HIDE DEF printed, more
  <2>5. run'[t].show = [[run[t].show EXCEPT !.printed = p] EXCEPT !.more = b]
    BY <1>0, <2>4, FieldNames
  <2>6. show.printed = p /\ show.more = b /\ show.snapshot = run[t].show.snapshot
    BY <2>2, <2>5
  <2> QED
    BY <2>3, <2>6 DEF Show, more
<1>11. Len(printed) <= limit
  <2>1. CASE Len(all) > limit
    <3>1. Len(SubSeq(all, 1, limit)) = limit
      BY <1>1, <1>7, <1>9, <2>1, SubSeqProperties
    <3> QED
      BY <1>1, <2>1, <3>1
  <2>2. CASE ~(Len(all) > limit)
    BY <1>1, <1>9, <2>2
  <2> QED
    BY <2>1, <2>2
<1>12. MoreThanAsked(t) => Len(all) > limit
  BY <1>9 DEF MoreThanAsked
<1>13. Len(all) > limit \/ printed = all
  OBVIOUS
<1> HIDE DEF printed, show
<1>14. show.more <=> Len(all) > limit
  BY <1>10
<1> QED
  BY <1>8, <1>10, <1>11, <1>12, <1>13, <1>14 DEF show

(* The list never has more rows than its limit, and shows every transfer    *)
(* that ran when it was taken, unless it says that there is more or one of  *)
(* those transfers has ended meanwhile.                                     *)
THEOREM ListIsCompleteHolds == Spec => ListIsComplete
<1>1. IInv /\ ListInv /\ [Next]_vars =>
         [\A t \in Threads :
            (run[t].pc = "showprint" /\ run'[t].pc = "idle") =>
               LET show == run'[t].show IN
               /\ Len(show.printed) <= Req(t).limit
               /\ \/ show.more
                  \/ "only" \in Req(t).completed
                  \/ \E k \in show.snapshot : ~Running(k)
                  \/ {k \in show.snapshot : Accepted(Req(t), k)} \subseteq Range(show.printed)]_vars
  <2> SUFFICES ASSUME IInv, ListInv, Next, NEW t \in Threads,
                      run[t].pc = "showprint", run'[t].pc = "idle"
               PROVE  LET show == run'[t].show IN
                      /\ Len(show.printed) <= Req(t).limit
                      /\ \/ show.more
                         \/ "only" \in Req(t).completed
                         \/ \E k \in show.snapshot : ~Running(k)
                         \/ {k \in show.snapshot : Accepted(Req(t), k)} \subseteq Range(show.printed)
    OBVIOUS
  <2> DEFINE show == run'[t].show
  <2>1. ShowPrint(t) /\ At(t, "showprint")
    BY OnlyPrintEnds DEF At
  <2>2. /\ Len(show.printed) <= Req(t).limit
        /\ show.snapshot = Show(t).snapshot
        /\ MoreThanAsked(t) => show.more
        /\ show.more \/ ToSet(Show(t).rows) \subseteq ToSet(show.printed)
    BY <2>1, PrintShowsRows
  <2>3. \/ "only" \in Req(t).completed
        \/ SomeEnded(t) \/ MoreThanAsked(t) \/ Owed(t) \subseteq ToSet(Show(t).rows)
    BY <2>1 DEF ListInv, OwedIsListed
  <2>4. ToSet(show.printed) = Range(show.printed)
    BY DEF ToSet, Range
  <2> HIDE DEF show
  <2>5. /\ SomeEnded(t) => \E k \in show.snapshot : ~Running(k)
        /\ Owed(t) = {k \in show.snapshot : Accepted(Req(t), k)}
    BY <2>2 DEF SomeEnded, Owed
  <2> QED
    BY <2>2, <2>3, <2>4, <2>5 DEF show
<1>2. Spec => []ListInv
  <2>1. Spec => [](IInv /\ ListInv)
    BY InitIInv, NextIInv, InitListInv, NextListInv, PTL DEF Spec
  <2> QED
    BY <2>1, PTL
<1> QED
  BY <1>1, <1>2, InvariantHolds, PTL DEF Spec, ListIsComplete
=============================================================================
