------------------------------ MODULE Transfers ------------------------------
(***************************************************************************)
(* Transfers: the commands get, put, import and transfers                   *)
(* (megacmdexecuter.cpp), the listeners that the SDK's thread calls while   *)
(* the petition threads wait (listeners.cpp), and the pool of MegaApi       *)
(* objects that serve folder links (megacmd.cpp).                           *)
(*                                                                          *)
(* Actors: one petition thread per client, and the SDK, whose requests and  *)
(* transfers are external: a request may be answered with any answer that   *)
(* the code handles, a transfer starts, progresses and ends in any order    *)
(* with the others, but each is told its start before its end.              *)
(* Every transfer is of Size units; tags are the numbers 1..MaxTransfers.   *)
(***************************************************************************)
EXTENDS Naturals, Sequences, SequencesExt, FiniteSets, FiniteSetsExt, Functions, Ordering

CONSTANTS
    Threads,       \* petition threads
    Scenarios,     \* what the clients ask for and how the server was set up
    Account,       \* handles of the nodes of the account
    MaxTransfers,  \* bound on the number of transfers
    MaxCompleted   \* MAXCOMPLETEDTRANSFERSBUFFER

ASSUME BoundsAssumption ==
    /\ MaxTransfers \in Nat
    /\ MaxCompleted \in Nat \ {0}

(* What the clients ask for.  The limit of a list is not negative (the code *)
(* does not refuse one that is).                                            *)
Requests == UNION {UNION {ToSet(s.scripts[t]) : t \in Threads} : s \in Scenarios}

ASSUME ScenariosAssumption ==
    /\ \A s \in Scenarios : /\ s.scripts \in [Threads -> Seq(Requests)]
                           /\ s.sync \in {"none", "D", "U"}
    /\ \A r \in Requests : (r.op = "transfers" /\ r.what = "show") => r.limit \in Nat

Tags == 1 .. MaxTransfers
NoTag == 0
Size == 1
NoApi == "none"
NoHandle == 0
UploadedHandle(k) == 100 + k

VARIABLES
    script,       \* the requests each client still has to send
    run,          \* what each petition thread does
    listener,     \* the multi transfer listener of each petition thread
    xfer,         \* the SDK's transfers, by tag
    pausedAll,    \* the directions that are paused as a whole
    apiFolders,   \* the queue of free folder APIs
    occupied,     \* occupiedapiFolders
    semaphore,    \* semaphoreapiFolders
    loggedIn,     \* the folder APIs that are logged into a link
    completed,    \* completedTransfers: tags, the newest first
    pathOf,       \* completedPathsByHandle
    overquota,    \* sandboxCMD->isOverquota()
    faults        \* bound: failed requests, quota and account events to come

poolVars == <<apiFolders, occupied, semaphore, loggedIn>>
sdkVars == <<xfer, pausedAll, completed, pathOf, overquota>>
vars == <<script, run, listener, poolVars, sdkVars, faults>>

NoRequest == [op |-> "none"]
NoRows == [downloads |-> <<>>, uploads |-> <<>>, rows |-> <<>>, done |-> <<>>,
           printed |-> <<>>, more |-> FALSE, snapshot |-> {}]
IdleRun == [pc |-> "idle", req |-> NoRequest, jobs |-> <<>>, out |-> "OK",
            api |-> NoApi, api4get |-> NoApi, promise |-> NoTag, frame |-> 0,
            tags |-> <<>>, show |-> NoRows, own |-> {}]

(* A listener that has just been constructed. *)
NewListener ==
    [created |-> 0, finished |-> 0, permits |-> 0, finalerror |-> "OK",
     startedCount |-> 0, ongoing |-> <<>>, transferred |-> 0, total |-> 0,
     informed |-> FALSE, callback |-> 0, told |-> <<0, 0>>]

NoTransfer == [state |-> "none", type |-> "none", by |-> "none", to |-> "none",
               handle |-> NoHandle, source |-> 0, api |-> NoApi, bytes |-> 0,
               error |-> "OK", sync |-> FALSE, paused |-> FALSE]

Init ==
    \E s \in Scenarios :
        /\ script = s.scripts
        /\ run = [t \in Threads |-> IdleRun]
        /\ listener = [t \in Threads |-> NewListener]
        /\ xfer = [k \in Tags |-> IF k = 1 /\ s.sync # "none"
                                  THEN [NoTransfer EXCEPT !.state = "queued", !.type = s.sync, !.sync = TRUE]
                                  ELSE NoTransfer]
        /\ pausedAll = {}
        /\ apiFolders = s.pool
        /\ occupied = {}
        /\ semaphore = Len(s.pool)
        /\ loggedIn = {}
        /\ completed = <<>>
        /\ pathOf = <<>>
        /\ overquota = s.overquota
        /\ faults = s.faults

-----------------------------------------------------------------------------
(* Threads and the requests they wait for.                                  *)

At(t, state) == run[t].pc = state
Req(t) == run[t].req
Foreground(t) == ~Req(t).q

(* The thread goes on at another point, with some of its fields changed.    *)
Go(t, state) == run' = [run EXCEPT ![t].pc = state]
Fail(t, code, state) == run' = [run EXCEPT ![t].pc = state, ![t].out = code]

Fault == faults > 0 /\ faults' = faults - 1
NoFault == UNCHANGED faults

(* The request that the thread waits for is answered. *)
Answered(t, waitingAt, ok, err) ==
    /\ At(t, waitingAt)
    /\ \/ NoFault /\ ok
       \/ Fault /\ err

Return(t) == Go(t, "idle")

-----------------------------------------------------------------------------
(* MegaCmdMultiTransferListener: called by the SDK's thread.                *)

OngoingBytes(l) == MapThenSumSet(LAMBDA k : l.ongoing[k][1], DOMAIN l.ongoing)
OngoingTotal(l) == MapThenSumSet(LAMBDA k : l.ongoing[k][2], DOMAIN l.ongoing)

OnTransferUpdate(l, k, bytes) ==
    LET m == [l EXCEPT !.ongoing = [x \in DOMAIN @ \cup {k} |->
                                       IF x = k THEN <<bytes, Size>> ELSE @[x]]]
    IN IF bytes = 0 THEN m   \* nothing is told of less than a thousandth
       ELSE [m EXCEPT !.informed = TRUE,
                      !.told = <<m.transferred + OngoingBytes(m), m.total + OngoingTotal(m)>>]

(* The first error is kept; then the waiting thread gets a permit. *)
OnTransferFinish(l, k, bytes, e) ==
    [l EXCEPT
        !.finished = @ + 1,
        !.finalerror = IF @ # "OK" THEN @ ELSE e,
        !.ongoing = Restrict(@, DOMAIN @ \ {k}),
        !.transferred = @ + bytes,
        !.total = @ + Size,
        !.permits = @ + 1]

OnNewTransfer(l) == [l EXCEPT !.created = @ + 1]

(* The callback sets the promise of the uploadNode that registered it, or   *)
(* that of a call that has returned, which is no longer there.              *)
OnTransferStartCb(r, frame, k) ==
    [r EXCEPT !.promise = IF frame = r.frame /\ @ = NoTag THEN k ELSE MaxTransfers + 1]

(* waitMultiEnd: a permit for every transfer that was created. *)
WaitMultiEnd(l) == l.permits >= l.created

-----------------------------------------------------------------------------
(* The SDK's transfers and the callbacks they make.                         *)

NextTag == CHOOSE k \in Tags : xfer[k].state = "none" /\ \A j \in 1 .. (k - 1) : xfer[j].state # "none"
CanStart == \E k \in Tags : xfer[k].state = "none"

(* startDownload or startUpload: the transfer is queued. *)
StartTransfer(t, type, to, handle, source, api) ==
    xfer' = [xfer EXCEPT ![NextTag] =
                [NoTransfer EXCEPT !.state = "queued", !.type = type, !.by = t, !.to = to,
                                   !.handle = handle, !.source = source, !.api = api]]

Running(k) == xfer[k].state \in {"queued", "active"}
Advancing(k) == ~xfer[k].paused /\ xfer[k].type \notin pausedAll

(* ATransferListener::onTransferStart counts and forwards; an upload's      *)
(* listener is called directly.                                             *)
SdkStarts(k) ==
    /\ xfer[k].state = "queued"
    /\ xfer' = [xfer EXCEPT ![k].state = "active"]
    /\ LET t == xfer[k].by
           l == OnTransferUpdate(listener[t], k, 0)
           started == [l EXCEPT !.startedCount = @ + (IF xfer[k].type = "D" THEN 1 ELSE 0)]
       IN /\ listener' = IF xfer[k].to = "multi" THEN [listener EXCEPT ![t] = started] ELSE listener
          /\ run' = IF \/ xfer[k].to = "self"
                       \/ xfer[k].to = "multi" /\ listener[t].callback # 0
                    THEN [run EXCEPT ![t] = OnTransferStartCb(@, IF xfer[k].to = "self" THEN xfer[k].source
                                                                 ELSE listener[t].callback, k)]
                    ELSE run
    /\ UNCHANGED <<script, poolVars, pausedAll, completed, pathOf, overquota, faults>>

SdkProgresses(k) ==
    /\ xfer[k].state = "active" /\ Advancing(k) /\ xfer[k].bytes < Size
    /\ xfer' = [xfer EXCEPT ![k].bytes = @ + 1]
    /\ listener' = IF xfer[k].to = "multi"
                   THEN [listener EXCEPT ![xfer[k].by] = OnTransferUpdate(@, k, xfer[k].bytes + 1)]
                   ELSE listener
    /\ UNCHANGED <<script, run, poolVars, pausedAll, completed, pathOf, overquota, faults>>

(* MegaCmdGlobalTransferListener: the newest in front; the oldest leaves    *)
(* with the path of its handle, even when a newer one has the same handle.  *)
AddCompletedTransfer(k, handle, known) ==
    LET all == <<k>> \o completed
        paths == IF known THEN [h \in DOMAIN pathOf \cup {handle} |-> TRUE] ELSE pathOf
        dropped == IF Last(all) = k THEN handle ELSE xfer[Last(all)].handle
    IN IF Len(all) > MaxCompleted
       THEN /\ completed' = Front(all)
            /\ pathOf' = Restrict(paths, DOMAIN paths \ {dropped})
       ELSE completed' = all /\ pathOf' = paths

(* The end of a transfer, well or not: the global listener first, then the  *)
(* transfer's own.  A transfer of an API that has logged out fails.         *)
SdkFinishes(k, e) ==
    LET t == xfer[k].by
        handle == IF xfer[k].type = "U" /\ e = "OK" THEN UploadedHandle(k) ELSE xfer[k].handle
        known == handle \in Account \/ handle = UploadedHandle(k)
    IN /\ xfer[k].state = "active"
       /\ e = "OK" => /\ xfer[k].bytes = Size /\ xfer[k].error = "OK" /\ Advancing(k)
                      /\ xfer[k].api # NoApi => xfer[k].api \in loggedIn
       /\ xfer' = [xfer EXCEPT ![k].state = "done", ![k].error = e, ![k].handle = handle]
       /\ AddCompletedTransfer(k, handle, known)
       /\ listener' = IF xfer[k].to = "multi"
                      THEN [listener EXCEPT ![t] = OnTransferFinish(@, k, xfer[k].bytes, e)]
                      ELSE listener
       /\ UNCHANGED <<script, run, poolVars, pausedAll, overquota>>

SdkSucceeds(k) == SdkFinishes(k, "OK") /\ UNCHANGED faults

(* It fails by itself, was cancelled, or lost the session of its API. *)
SdkFails(k) ==
    \/ xfer[k].error = "OK" /\ SdkFinishes(k, "EFAILED") /\ Fault
    \/ xfer[k].error = "EINCOMPLETE" /\ SdkFinishes(k, "EINCOMPLETE") /\ UNCHANGED faults
    \/ /\ xfer[k].api # NoApi /\ xfer[k].api \notin loggedIn
       /\ SdkFinishes(k, "EINCOMPLETE") /\ UNCHANGED faults

(* onTransferTemporaryError of MegaCmdGlobalTransferListener. *)
SdkMeetsQuota(k) ==
    /\ xfer[k].state = "active" /\ xfer[k].type = "D" /\ ~overquota
    /\ Fault
    /\ overquota' = TRUE
    /\ UNCHANGED <<script, run, listener, poolVars, xfer, pausedAll, completed, pathOf>>

(* onAccountUpdate: the account has changed. *)
AccountUpdate ==
    /\ overquota /\ Fault
    /\ overquota' = FALSE
    /\ UNCHANGED <<script, run, listener, poolVars, xfer, pausedAll, completed, pathOf>>

-----------------------------------------------------------------------------
(* The pool of folder APIs.                                                 *)

(* getFreeApiFolder: nothing to wait for when no API was ever made. *)
NoFolderApis == apiFolders = <<>> /\ occupied = {}

PoolEmpty(t) ==
    /\ At(t, "acquire")
    /\ IF NoFolderApis THEN Fail(t, "NOTFOUND", "idle") ELSE Go(t, "semaphore")
    /\ UNCHANGED <<script, listener, poolVars, sdkVars, faults>>

SemaphoreWait(t) ==
    /\ At(t, "semaphore") /\ semaphore > 0
    /\ semaphore' = semaphore - 1
    /\ Go(t, "pop")
    /\ UNCHANGED <<script, listener, apiFolders, occupied, loggedIn, sdkVars, faults>>

PopApi(t) ==
    /\ At(t, "pop")
    /\ apiFolders' = Tail(apiFolders)
    /\ occupied' = occupied \cup {Head(apiFolders)}
    /\ run' = [run EXCEPT ![t].pc = "folderlogin", ![t].api = Head(apiFolders)]
    /\ UNCHANGED <<script, listener, semaphore, loggedIn, sdkVars, faults>>

FreeApiFolder(t, next) ==
    /\ occupied' = occupied \ {run[t].api}
    /\ apiFolders' = Append(apiFolders, run[t].api)
    /\ semaphore' = semaphore + 1
    /\ run' = [run EXCEPT ![t].pc = next, ![t].api = NoApi]
    /\ UNCHANGED <<script, listener, loggedIn, sdkVars, faults>>

-----------------------------------------------------------------------------
(* downloadNode and the command get.                                        *)

Job(t) == Head(run[t].jobs)
NextJob(r) == [r EXCEPT !.jobs = Tail(@), !.pc = "download"]

StartDownload(t) ==
    /\ CanStart
    /\ StartTransfer(t, "D", "multi", Job(t), 0, run[t].api4get)
    /\ listener' = [listener EXCEPT ![t] = OnNewTransfer(@)]
    /\ run' = [run EXCEPT ![t] = [NextJob(run[t]) EXCEPT !.own = @ \cup {NextTag}]]

(* Over quota: the details of the account may be asked for, and whatever    *)
(* they are nothing is started.                                             *)
DownloadOverQuota(t) ==
    /\ At(t, "download") /\ run[t].jobs # <<>>
    /\ overquota /\ ~Req(t).ignore
    /\ \/ Go(t, "details") /\ NoFault
       \/ run' = [run EXCEPT ![t] = NextJob(@)] /\ NoFault
    /\ UNCHANGED <<script, listener, poolVars, sdkVars>>

DetailsAnswered(t) ==
    /\ Answered(t, "details",
            run' = [run EXCEPT ![t] = NextJob(@)],
            run' = [run EXCEPT ![t] = [NextJob(@) EXCEPT !.out = "EFAILED"]])
    /\ UNCHANGED <<script, listener, poolVars, sdkVars>>

DownloadNode(t) ==
    /\ At(t, "download") /\ run[t].jobs # <<>>
    /\ ~overquota \/ Req(t).ignore
    /\ IF Req(t).ignore
       THEN StartDownload(t)
       ELSE Go(t, "quota") /\ UNCHANGED <<listener, xfer>>
    /\ UNCHANGED <<script, poolVars, pausedAll, completed, pathOf, overquota, faults>>

(* queryTransferQuota says that the transfer would exceed it, or not; when  *)
(* the query fails the code of the command says so and the transfer starts. *)
QuotaAnswered(t) ==
    /\ \/ At(t, "quota") /\ NoFault /\ StartDownload(t)
       \/ /\ At(t, "quota") /\ Fault
          /\ run' = [run EXCEPT ![t] = NextJob(@)]
          /\ UNCHANGED <<listener, xfer>>
       \/ /\ At(t, "quota") /\ Fault
          /\ CanStart
          /\ StartTransfer(t, "D", "multi", Job(t), 0, run[t].api4get)
          /\ listener' = [listener EXCEPT ![t] = OnNewTransfer(@)]
          /\ run' = [run EXCEPT ![t] = [NextJob(run[t]) EXCEPT !.own = @ \cup {NextTag},
                                                               !.out = "EFAILED"]]
    /\ UNCHANGED <<script, poolVars, pausedAll, completed, pathOf, overquota>>

(* The destination: none, a folder, a folder that cannot be written, or a   *)
(* path that is no folder, in a folder that can be written or not.          *)
DestinationError(req) ==
    LET needsFolder == req.kind = "folder" \/ Len(req.nodes) > 1
    IN IF req.dest \in {"", "folder"} THEN "OK"
       ELSE IF req.dest = "readonly" THEN "NOTPERMITTED"
       ELSE IF needsFolder THEN "INVALIDTYPE"
       ELSE IF req.dest = "nowhere" THEN "NOTPERMITTED" ELSE "OK"

Begin(t, op) ==
    /\ At(t, "idle") /\ script[t] # <<>> /\ Head(script[t]).op = op
    /\ script' = [script EXCEPT ![t] = Tail(@)]
    /\ listener' = [listener EXCEPT ![t] = NewListener]
    /\ UNCHANGED <<poolVars, sdkVars, faults>>

NewRun(t, req, state) == [IdleRun EXCEPT !.pc = state, !.req = req]

(* A password protected link is decrypted first. *)
AfterDecrypt(req) ==
    IF req.op = "import" THEN IF req.kind = "folder" THEN "acquire" ELSE "importfile"
    ELSE IF DestinationError(req) # "OK" THEN "refused"
    ELSE IF req.kind = "folder" THEN "acquire" ELSE "publicnode"

Refuse(t, code) == run' = [run EXCEPT ![t] = [IdleRun EXCEPT !.req = Head(script[t]), !.out = code]]

GetLink(t) ==
    LET req == Head(script[t]) IN
    /\ Begin(t, "get") /\ req.link
    /\ run' = [run EXCEPT ![t] = NewRun(t, req, IF req.encrypted THEN "decrypt" ELSE AfterDecrypt(req))]

(* An import into what is not a folder is refused after the decryption. *)
ImportLink(t) ==
    LET req == Head(script[t]) IN
    /\ Begin(t, "import")
    /\ run' = [run EXCEPT ![t] = NewRun(t, req,
                   IF req.encrypted THEN "decrypt"
                   ELSE IF req.dest # "folder" THEN "refused" ELSE AfterDecrypt(req))]

DecryptAnswered(t) ==
    /\ Answered(t, "decrypt",
            Go(t, IF Req(t).op = "import" /\ Req(t).dest # "folder" THEN "refused"
                  ELSE AfterDecrypt(Req(t))),
            Fail(t, "NOTPERMITTED", "idle"))
    /\ UNCHANGED <<script, listener, poolVars, sdkVars>>

Refused(t) ==
    /\ At(t, "refused")
    /\ Fail(t, IF Req(t).op = "get" THEN DestinationError(Req(t)) ELSE "INVALIDTYPE", "idle")
    /\ UNCHANGED <<script, listener, poolVars, sdkVars, faults>>

(* A node, or the nodes that match a pattern. *)
GetRemote(t) ==
    LET req == Head(script[t]) IN
    /\ Begin(t, "get") /\ ~req.link
    /\ IF req.nodes = <<>> THEN run' = [run EXCEPT ![t] = [NewRun(t, req, "finish") EXCEPT !.out = "NOTFOUND"]]
       ELSE IF DestinationError(req) # "OK" THEN Refuse(t, DestinationError(req))
       ELSE run' = [run EXCEPT ![t] = [NewRun(t, req, "download") EXCEPT !.jobs = req.nodes]]

PublicNodeAnswered(t) ==
    /\ Answered(t, "publicnode",
            run' = [run EXCEPT ![t].pc = "download", ![t].jobs = Req(t).nodes],
            Fail(t, "EFAILED", "finish"))
    /\ UNCHANGED <<script, listener, poolVars, sdkVars>>

(* A folder API is logged into the link, and out again whatever follows. *)
FolderLoginAnswered(t) ==
    /\ \/ /\ At(t, "folderlogin") /\ NoFault
          /\ loggedIn' = loggedIn \cup {run[t].api}
          /\ Go(t, "folderfetch")
       \/ /\ At(t, "folderlogin") /\ Fault
          /\ Fail(t, "EFAILED", "free")
          /\ UNCHANGED loggedIn
    /\ UNCHANGED <<script, listener, apiFolders, occupied, semaphore, sdkVars>>

FolderFetchAnswered(t) ==
    /\ Answered(t, "folderfetch", Go(t, "authorize"), Fail(t, "EFAILED", "logout"))
    /\ UNCHANGED <<script, listener, poolVars, sdkVars>>

(* The node of the link may be missing.  A node that cannot be authorized   *)
(* is downloaded with the folder API itself, and cannot be imported.        *)
AuthorizeNode(t) ==
    /\ At(t, "authorize")
    /\ \/ /\ NoFault
          /\ run' = IF Req(t).op = "get"
                    THEN [run EXCEPT ![t].pc = "download", ![t].jobs = Req(t).nodes]
                    ELSE [run EXCEPT ![t].pc = "copy"]
       \/ Fault /\ Fail(t, "INVALIDSTATE", "logout")
       \/ /\ Fault
          /\ IF Req(t).op = "get"
             THEN run' = [run EXCEPT ![t].pc = "download", ![t].jobs = Req(t).nodes,
                                     ![t].api4get = run[t].api]
             ELSE Fail(t, "EUNEXPECTED", "logout")
    /\ UNCHANGED <<script, listener, poolVars, sdkVars>>

DownloadsStarted(t) ==
    /\ At(t, "download") /\ run[t].jobs = <<>>
    /\ Go(t, IF run[t].api # NoApi THEN "logout" ELSE "finish")
    /\ UNCHANGED <<script, listener, poolVars, sdkVars, faults>>

(* The answer to the copy is not looked at. *)
CopyAnswered(t) ==
    /\ Answered(t, "copy", Go(t, "logout"), Go(t, "logout"))
    /\ UNCHANGED <<script, listener, poolVars, sdkVars>>

(* The API's transfers, if any, will fail. *)
FolderLogoutAnswered(t) ==
    /\ At(t, "logout")
    /\ loggedIn' = loggedIn \ {run[t].api}
    /\ Go(t, "free")
    /\ UNCHANGED <<script, listener, apiFolders, occupied, semaphore, sdkVars, faults>>

FreeFolder(t) ==
    /\ At(t, "free")
    /\ FreeApiFolder(t, IF Req(t).op = "get" THEN "finish" ELSE "idle")

ImportFileAnswered(t) ==
    /\ Answered(t, "importfile", Return(t), Fail(t, "EFAILED", "idle"))
    /\ UNCHANGED <<script, listener, poolVars, sdkVars>>

(* The end of get and of put in the foreground. *)
FinalCode(t) == IF listener[t].finalerror # "OK" THEN listener[t].finalerror ELSE run[t].out

MutFinish(t) ==
    /\ At(t, "finish")
    /\ (Foreground(t) /\ listener[t].created > 0) => listener[t].permits > 0
    /\ run' = [run EXCEPT ![t].pc = "idle", ![t].out = IF Foreground(t) THEN FinalCode(t) ELSE @]
    /\ UNCHANGED <<script, listener, poolVars, sdkVars, faults>>

(* Nobody reads the listener of a command in the background any more. *)
Finish(t) ==
    /\ At(t, "finish")
    /\ Foreground(t) => WaitMultiEnd(listener[t])
    /\ run' = [run EXCEPT ![t].pc = "idle", ![t].out = IF Foreground(t) THEN FinalCode(t) ELSE @]
    /\ listener' = IF Foreground(t) /\ (listener[t].informed \/ FinalCode(t) = "OK")
                   THEN [listener EXCEPT ![t].told = <<listener[t].total, listener[t].total>>]
                   ELSE listener
    /\ xfer' = [k \in Tags |-> IF Running(k) /\ xfer[k].by = t /\ xfer[k].to = "multi"
                               THEN [xfer[k] EXCEPT !.to = "none"] ELSE xfer[k]]
    /\ UNCHANGED <<script, poolVars, pausedAll, completed, pathOf, overquota, faults>>

-----------------------------------------------------------------------------
(* The command put and uploadNode.                                          *)

Put(t) ==
    LET req == Head(script[t]) IN
    /\ Begin(t, "put")
    /\ IF req.dest = "missing"
       THEN IF req.c THEN run' = [run EXCEPT ![t] = NewRun(t, req, "makedir")]
            ELSE Refuse(t, "NOTFOUND")
       ELSE IF req.dest = "file" /\ (Len(req.paths) # 1 \/ req.paths[1] = "dir")
       THEN Refuse(t, "INVALIDTYPE")
       ELSE run' = [run EXCEPT ![t] = [NewRun(t, req, "upload") EXCEPT !.jobs = req.paths]]

(* makedir -p of the destination. *)
PutMakedirAnswered(t) ==
    /\ Answered(t, "makedir",
            run' = [run EXCEPT ![t].pc = "upload", ![t].jobs = Req(t).paths],
            Fail(t, "NOTFOUND", "idle"))
    /\ UNCHANGED <<script, listener, poolVars, sdkVars>>

UploadMissing(t) ==
    /\ At(t, "upload") /\ run[t].jobs # <<>> /\ Job(t) = "missing"
    /\ run' = [run EXCEPT ![t].jobs = Tail(@), ![t].out = "NOTFOUND"]
    /\ UNCHANGED <<script, listener, poolVars, sdkVars, faults>>

MutUploadNode(t) ==
    LET to == IF Foreground(t) THEN "multi" ELSE IF Req(t).tag THEN "self" ELSE "none" IN
    /\ At(t, "upload") /\ run[t].jobs # <<>> /\ Job(t) # "missing"
    /\ CanStart
    /\ StartTransfer(t, "U", to, NoHandle, NextTag, NoApi)
    /\ listener' = IF Foreground(t)
                   THEN [listener EXCEPT ![t] = [OnNewTransfer(@) EXCEPT
                            !.callback = IF Req(t).tag THEN NextTag ELSE 0]]
                   ELSE listener
    /\ run' = [run EXCEPT ![t].pc = "upload",
                          ![t].jobs = Tail(@),
                          ![t].promise = NoTag, ![t].frame = NextTag,
                          ![t].own = IF Foreground(t) THEN @ \cup {NextTag} ELSE @]
    /\ UNCHANGED <<script, poolVars, pausedAll, completed, pathOf, overquota, faults>>

(* One path: with --print-tag-at-start the thread waits for the promise     *)
(* that onTransferStart sets.  In the background only that needs a listener.*)
UploadNode(t) ==
    LET to == IF Foreground(t) THEN "multi" ELSE IF Req(t).tag THEN "self" ELSE "none" IN
    /\ At(t, "upload") /\ run[t].jobs # <<>> /\ Job(t) # "missing"
    /\ CanStart
    /\ StartTransfer(t, "U", to, NoHandle, NextTag, NoApi)
    /\ listener' = IF Foreground(t)
                   THEN [listener EXCEPT ![t] = [OnNewTransfer(@) EXCEPT
                            !.callback = IF Req(t).tag THEN NextTag ELSE 0]]
                   ELSE listener
    /\ run' = [run EXCEPT ![t].pc = IF Req(t).tag THEN "started" ELSE "upload",
                          ![t].jobs = Tail(@),
                          ![t].promise = NoTag, ![t].frame = NextTag,
                          ![t].own = IF Foreground(t) THEN @ \cup {NextTag} ELSE @]
    /\ UNCHANGED <<script, poolVars, pausedAll, completed, pathOf, overquota, faults>>

UploadStarted(t) ==
    /\ At(t, "started") /\ run[t].promise # NoTag
    /\ run' = [run EXCEPT ![t].pc = "upload", ![t].frame = 0,
                          ![t].tags = Append(@, <<run[t].frame, run[t].promise>>)]
    /\ UNCHANGED <<script, listener, poolVars, sdkVars, faults>>

UploadsStarted(t) ==
    /\ At(t, "upload") /\ run[t].jobs = <<>>
    /\ Go(t, "finish")
    /\ UNCHANGED <<script, listener, poolVars, sdkVars, faults>>

-----------------------------------------------------------------------------
(* The command transfers: cancel, pause and resume.                         *)

(* With no filter, or with both, both directions are meant. *)
DownloadsToo(req) == req.only # {"U"}
UploadsToo(req) == req.only # {"D"}
Directions(req) ==
    (IF DownloadsToo(req) THEN <<"D">> ELSE <<>>) \o (IF UploadsToo(req) THEN <<"U">> ELSE <<>>)

(* With -a one request for each direction, else one for each tag. *)
Transfers(t) ==
    LET req == Head(script[t]) IN
    /\ Begin(t, "transfers") /\ req.what # "show"
    /\ run' = [run EXCEPT ![t] = [NewRun(t, req, IF req.all THEN "alltransfers" ELSE "bytag") EXCEPT
                                     !.jobs = IF req.all THEN Directions(req) ELSE req.tags]]

ToEnd(k) == [xfer[k] EXCEPT !.error = "EINCOMPLETE", !.paused = FALSE]

(* The SDK's cancelTransfers, pauseTransfers: not for the transfers of      *)
(* synchronisations, that are cancelled with them only.                     *)
AllTransfersAnswered(t) ==
    LET type == Job(t) IN
    /\ At(t, "alltransfers") /\ run[t].jobs # <<>>
    /\ \/ /\ NoFault
          /\ xfer' = IF Req(t).what = "cancel"
                     THEN [k \in Tags |-> IF Running(k) /\ xfer[k].type = type /\ ~xfer[k].sync
                                          THEN ToEnd(k) ELSE xfer[k]]
                     ELSE xfer
          /\ pausedAll' = IF Req(t).what = "pause" THEN pausedAll \cup {type}
                          ELSE IF Req(t).what = "resume" THEN pausedAll \ {type}
                          ELSE pausedAll
          /\ run' = [run EXCEPT ![t].jobs = Tail(@)]
       \/ /\ Fault
          /\ run' = [run EXCEPT ![t].jobs = Tail(@), ![t].out = "EFAILED"]
          /\ UNCHANGED <<xfer, pausedAll>>
    /\ UNCHANGED <<script, listener, poolVars, completed, pathOf, overquota>>

(* getTransferByTag: one that has ended is not found. *)
TransferByTag(t) ==
    LET k == Job(t) IN
    /\ At(t, "bytag") /\ run[t].jobs # <<>>
    /\ IF ~Running(k) THEN run' = [run EXCEPT ![t].jobs = Tail(@), ![t].out = "NOTFOUND"]
       ELSE IF xfer[k].sync THEN run' = [run EXCEPT ![t].jobs = Tail(@), ![t].out = "INVALIDTYPE"]
       ELSE Go(t, "tagrequest")
    /\ UNCHANGED <<script, listener, poolVars, sdkVars, faults>>

(* The request reaches a transfer that may have ended since. *)
TagRequestAnswered(t) ==
    LET k == Job(t) IN
    /\ At(t, "tagrequest")
    /\ \/ /\ Running(k) /\ NoFault
          /\ xfer' = [xfer EXCEPT ![k] = IF Req(t).what = "cancel" THEN ToEnd(k)
                                         ELSE IF Req(t).what = "pause"
                                         THEN [@ EXCEPT !.paused = TRUE]
                                         ELSE [@ EXCEPT !.paused = FALSE]]
          /\ run' = [run EXCEPT ![t].pc = "bytag", ![t].jobs = Tail(@)]
       \/ /\ ~Running(k) /\ NoFault
          /\ run' = [run EXCEPT ![t].pc = "bytag", ![t].jobs = Tail(@), ![t].out = "EFAILED"]
          /\ UNCHANGED xfer
    /\ UNCHANGED <<script, listener, poolVars, pausedAll, completed, pathOf, overquota>>

TransfersDone(t) ==
    /\ run[t].pc \in {"alltransfers", "bytag"} /\ run[t].jobs = <<>>
    /\ Return(t)
    /\ UNCHANGED <<script, listener, poolVars, sdkVars, faults>>

-----------------------------------------------------------------------------
(* The command transfers: the list.                                         *)

Show(t) == run[t].show
Shown(t) == Len(Show(t).done) + Len(Show(t).rows)
OfType(type) == {k \in Tags : xfer[k].type = type}

(* The tags in their order, those of one type. *)
RunningTags(type) == Ascending({k \in OfType(type) : Running(k)})

(* What a sequence has of a set, in its order. *)
OnlyIn(seq, S) ==
    LET taken[i \in 0 .. Len(seq)] ==
            IF i = 0 THEN <<>>
            ELSE IF seq[i] \in S THEN Append(taken[i - 1], seq[i]) ELSE taken[i - 1]
    IN taken[Len(seq)]

Accepted(req, k) ==
    /\ xfer[k].type = "U" => UploadsToo(req)
    /\ xfer[k].type = "D" => DownloadsToo(req)
    /\ xfer[k].sync => req.syncs

(* getTransferData, a snapshot of the tags. *)
ShowTransfers(t) ==
    LET req == Head(script[t]) IN
    /\ Begin(t, "transfers") /\ req.what = "show"
    /\ run' = [run EXCEPT ![t] = [NewRun(t, req, "showcompleted") EXCEPT
                !.show = [NoRows EXCEPT !.downloads = RunningTags("D"), !.uploads = RunningTags("U"),
                                        !.snapshot = {k \in Tags : Running(k)}]]]

(* getCompletedTransfers: one more than will be shown. *)
CompletedRows(req) ==
    LET accepted == OnlyIn(completed, {k \in Tags : Accepted(req, k)}) IN
    IF "show" \notin req.completed THEN <<>>
    ELSE SubSeq(accepted, 1, IF Len(accepted) < req.limit + 1 THEN Len(accepted) ELSE req.limit + 1)

ShowCompleted(t) ==
    /\ At(t, "showcompleted")
    /\ run' = [run EXCEPT ![t].pc = IF "only" \in Req(t).completed THEN "showprint" ELSE "shownext",
                          ![t].show.done = CompletedRows(Req(t))]
    /\ UNCHANGED <<script, listener, poolVars, sdkVars, faults>>

(* Whether the next tag is an upload's, a download's, or there is none. *)
NextIs(req, show, shown) ==
    LET d == show.downloads # <<>>
        u == show.uploads # <<>>
        uploadsTurn == \/ req.only = {"U"}
                       \/ req.only # {"D"} /\ (shown >= req.limit \div 2 \/ ~d)
    IN IF u /\ uploadsTurn THEN "U" ELSE IF d THEN "D" ELSE "none"

(* getTransferByTag for the next tag: the first that has ended, or having   *)
(* enough of them, ends the list.                                           *)
TakeNext(t, enough, afterLast) ==
    LET next == NextIs(Req(t), Show(t), Shown(t))
        k == IF next = "U" THEN Head(Show(t).uploads) ELSE Head(Show(t).downloads)
    IN
    /\ At(t, "shownext")
    /\ IF next = "none" \/ (next # "none" /\ ~Running(k))
       THEN Go(t, afterLast)
       ELSE LET takes == Accepted(Req(t), k) /\ Shown(t) < enough
                show == [Show(t) EXCEPT !.uploads = IF next = "U" THEN Tail(@) ELSE @,
                                        !.downloads = IF next = "D" THEN Tail(@) ELSE @,
                                        !.rows = IF takes THEN Append(@, k) ELSE @]
            IN run' = [run EXCEPT ![t].show = show,
                                  ![t].pc = IF Shown(t) + (IF takes THEN 1 ELSE 0) >= enough
                                            THEN "showprint" ELSE "shownext"]
    /\ UNCHANGED <<script, listener, poolVars, sdkVars, faults>>

MutShowNext(t) == TakeNext(t, Req(t).limit, "showprint")
MutShowNextForever(t) == TakeNext(t, Req(t).limit + 1, "shownext")

(* One more than the limit, to know whether there are more. *)
ShowNext(t) == TakeNext(t, Req(t).limit + 1, "showprint")

(* Completed transfers, downloads, uploads; in place of the row beyond the  *)
(* limit the list says that there are more.                                 *)
AllRows(show) ==
    show.done \o OnlyIn(show.rows, OfType("D")) \o OnlyIn(show.rows, OfType("U"))

ShowPrint(t) ==
    LET all == AllRows(Show(t))
        limit == Req(t).limit IN
    /\ At(t, "showprint")
    /\ run' = [run EXCEPT ![t].pc = "idle",
                          ![t].show.printed = IF Len(all) > limit THEN SubSeq(all, 1, limit) ELSE all,
                          ![t].show.more = Len(all) > limit]
    /\ UNCHANGED <<script, listener, poolVars, sdkVars, faults>>

-----------------------------------------------------------------------------
Command(t) ==
    \/ GetRemote(t) \/ GetLink(t) \/ ImportLink(t) \/ Put(t) \/ Transfers(t) \/ ShowTransfers(t)

Step(t) ==
    \/ DownloadNode(t) \/ DownloadOverQuota(t) \/ DownloadsStarted(t) \/ Refused(t)
    \/ PoolEmpty(t) \/ SemaphoreWait(t) \/ PopApi(t) \/ FreeFolder(t)
    \/ UploadNode(t) \/ UploadMissing(t) \/ UploadStarted(t) \/ UploadsStarted(t)
    \/ Finish(t)
    \/ TransferByTag(t) \/ TransfersDone(t)
    \/ ShowCompleted(t) \/ ShowNext(t) \/ ShowPrint(t)

Answer(t) ==
    \/ DecryptAnswered(t) \/ PublicNodeAnswered(t) \/ DetailsAnswered(t) \/ QuotaAnswered(t)
    \/ FolderLoginAnswered(t) \/ FolderFetchAnswered(t) \/ AuthorizeNode(t)
    \/ CopyAnswered(t) \/ FolderLogoutAnswered(t) \/ ImportFileAnswered(t)
    \/ PutMakedirAnswered(t) \/ AllTransfersAnswered(t) \/ TagRequestAnswered(t)

SdkTransfer(k) == SdkStarts(k) \/ SdkProgresses(k) \/ SdkSucceeds(k) \/ SdkFails(k)

Environment == AccountUpdate \/ \E k \in Tags : SdkMeetsQuota(k)

Terminated ==
    /\ \A t \in Threads : run[t].pc = "idle" /\ script[t] = <<>>
    /\ \A k \in Tags : Running(k) => ~Advancing(k)

Next ==
    \/ \E t \in Threads : Command(t) \/ Step(t) \/ Answer(t)
    \/ \E k \in Tags : SdkTransfer(k)
    \/ Environment
    \/ Terminated /\ UNCHANGED vars

(* A thread that can go on does, every request is answered, and every       *)
(* transfer that is not paused ends.                                        *)
Fairness ==
    /\ \A t \in Threads : WF_vars(Step(t)) /\ WF_vars(Answer(t))
    /\ \A k \in Tags : WF_vars(SdkTransfer(k))

Spec == Init /\ [][Next]_vars /\ Fairness

-----------------------------------------------------------------------------
(* Every get and put in the foreground returns after all the transfers it   *)
(* started have ended, and its code says OK only if all of them went well.  *)
ForegroundReports ==
    [][\A t \in Threads :
         (run[t].pc \in {"finish", "free", "logout"} /\ run'[t].pc = "idle" /\ Foreground(t)) =>
            /\ \A k \in run[t].own : xfer[k].state = "done"
            /\ (\E k \in run[t].own : xfer[k].error # "OK") => run'[t].out # "OK"]_vars

(* What --print-tag-at-start prints for a file is the tag of the transfer   *)
(* that uploads it, and no promise is set twice or after its call is over.  *)
PrintedTagIsItsOwn ==
    \A t \in Threads :
        /\ run[t].promise <= MaxTransfers
        /\ \A i \in DOMAIN run[t].tags : run[t].tags[i][1] = run[t].tags[i][2]

(* The list shows every transfer that ran when it was taken and still runs  *)
(* when it is printed, unless it says that there is more, or one of those   *)
(* it was taken of has ended meanwhile; and never more rows than the limit. *)
ListIsComplete ==
    [][\A t \in Threads :
         (run[t].pc = "showprint" /\ run'[t].pc = "idle") =>
            LET show == run'[t].show IN
            /\ Len(show.printed) <= Req(t).limit
            /\ \/ show.more
               \/ "only" \in Req(t).completed
               \/ \E k \in show.snapshot : ~Running(k)
               \/ {k \in show.snapshot : Accepted(Req(t), k)} \subseteq Range(show.printed)]_vars

(* Every command ends, unless what it transfers stays paused.               *)
TransferCommandsEnd ==
    \A t \in Threads :
        run[t].pc # "idle" ~> (run[t].pc = "idle" \/ pausedAll # {} \/ \E k \in Tags : xfer[k].paused)
=============================================================================
