---------------------------- MODULE LocalFolders ----------------------------
(***************************************************************************)
(* The commands that tie folders of the local machine to the account:       *)
(* sync, sync-issues, sync-ignore with its deprecated form exclude, and     *)
(* sync-config (sync_command.cpp, sync_ignore.cpp, sync_issues.cpp) and     *)
(* fuse-add ... fuse-config (megacmd_fuse.cpp), as the executer runs them.  *)
(*                                                                          *)
(* Actors: one petition thread per client; the SDK, which is external: it   *)
(* answers every request with any answer the code handles and disables a    *)
(* sync of its own accord; and the user, who deletes remote folders and     *)
(* .megaignore files.  A sync or a mount keeps its number for good; the id  *)
(* of a sync is its number, the name of a mount is not.                     *)
(*                                                                          *)
(* Paths are sequences of characters, so that one may be the prefix of      *)
(* another; a line of a .megaignore file is a sequence of words, of more    *)
(* than one when a filter has been appended to a line without an end.       *)
(***************************************************************************)
EXTENDS Naturals, Sequences, SequencesExt, FiniteSets

CONSTANTS
    Clients,     \* petition threads
    Scenarios,   \* what the clients ask for and what exists at the start
    MaxSyncs,    \* bound on the syncs ever added
    MaxMounts    \* bound on the mounts ever added

ASSUME FolderBounds == MaxSyncs \in Nat \ {0} /\ MaxMounts \in Nat \ {0}
ASSUME ClientsAssumption == "free" \notin Clients   \* the mark of a free lock

SyncIds == 1 .. MaxSyncs
Mounts == 1 .. MaxMounts
None == 0
Default == <<"D">>                     \* the directory of .megaignore.default
Lower == [wait |-> 1, attempts |-> 1]  \* the SDK's throttle limits
Upper == [wait |-> 2, attempts |-> 2]

VARIABLES
    startup,    \* what is left of GlobalSyncConfig::loadFromConfigurationManager
    script,     \* the requests each client still has to send
    run,        \* what each petition thread does
    syncs,      \* the SDK's syncs, by id
    mounts,     \* the SDK's mounts
    nodes,      \* remote paths: "full", "readonly", "file" or "gone"
    files,      \* the .megaignore files, by directory
    lock,       \* owner of the mutex of each .megaignore path
    issues,     \* the stalls of the sync engine
    throttle,   \* delay of frequent uploads: running and saved values
    told,       \* history: what clients were last told of the filters of a file
    unsettled,  \* history: filters of which the file need not say what was told
    faults      \* bound: failed requests, acts of the engine and the user

folderVars == <<startup, script, run, syncs, mounts, nodes, files, lock, issues,
          throttle, told, unsettled, faults>>

NoSync == [state |-> "none", local |-> <<>>, cloud |-> <<>>, error |-> FALSE]
NoMount == [name |-> "", path |-> "", node |-> <<>>, enabled |-> FALSE,
            startup |-> FALSE, persistent |-> FALSE, readonly |-> FALSE]
NoFile == [exists |-> FALSE, lines |-> <<>>, open |-> FALSE]
NoRequest == [op |-> "none"]
Operations == {"sync", "sync-ignore", "exclude", "sync-issues", "sync-config", "fuse"}
IdleRun == [pc |-> "idle", req |-> NoRequest, out |-> "OK", done |-> {}, missed |-> {},
            id |-> None, sync |-> NoSync, mount |-> NoMount, dir |-> <<>>,
            loaded |-> {}, kept |-> <<>>, issues |-> {}, list |-> <<>>, shown |-> <<>>]

(* Requests of the operations above; a filter that passes isValidFilter has *)
(* no space in it and is no comment.  A file whose last line has no end has *)
(* at least one character in that line.                                     *)
Requests == UNION {UNION {ToSet(s.scripts[c]) : c \in Clients} : s \in Scenarios}

ASSUME RequestsAssumption ==
    \A r \in Requests :
        /\ r.op \in Operations
        /\ r.op \in {"sync-ignore", "exclude"} =>
              /\ {"op", "flags", "filters"} \subseteq DOMAIN r
              /\ IsFiniteSet(r.filters)
              /\ \A f \in r.filters : f.word \in STRING /\ (f.valid => f.word # "#" /\ ~f.space)

Fragment == "cut"        \* what is left of a word when its writing fails
Line == Seq(STRING \cup {Fragment})
IgnoreFile == [exists : BOOLEAN, lines : Seq(Line), open : BOOLEAN]

ASSUME ScenariosAssumption ==
    \A s \in Scenarios :
        /\ s.scripts \in [Clients -> Seq(Requests)]
        /\ DOMAIN s.syncs = SyncIds
        /\ \A i \in SyncIds : DOMAIN s.syncs[i] = DOMAIN NoSync
        /\ s.files \in [DOMAIN s.files -> IgnoreFile]
        /\ \A d \in DOMAIN s.files :
              /\ s.files[d].open => s.files[d].lines # <<>> /\ Last(s.files[d].lines) # <<>>
              /\ ~s.files[d].exists => s.files[d].lines = <<>>

FoldersInit ==
    \E s \in Scenarios :
        /\ startup = s.startup
        /\ script = s.scripts
        /\ run = [c \in Clients |-> IdleRun]
        /\ syncs = s.syncs
        /\ mounts = s.mounts
        /\ nodes = s.nodes
        /\ files = s.files
        /\ lock = [d \in DOMAIN s.files |-> "free"]
        /\ issues = s.issues
        /\ throttle = [now |-> Lower, saved |-> s.saved]
        /\ told = [d \in DOMAIN s.files |-> <<>>]
        /\ unsettled = [d \in DOMAIN s.files |-> {}]
        /\ faults = s.faults

-----------------------------------------------------------------------------
(* Threads and the requests they wait for.                                  *)

At(c, state) == startup = <<>> /\ run[c].pc = state
Req(c) == run[c].req
Return(c, r) == run' = [run EXCEPT ![c] = [r EXCEPT !.pc = "idle"]]
Go(c, state) == run' = [run EXCEPT ![c].pc = state]
Refuse(c, code) == Return(c, [run[c] EXCEPT !.out = code])
Finish(c, what) == Return(c, [run[c] EXCEPT !.done = @ \cup {what}])

NoFault == UNCHANGED faults
Fault == faults > 0 /\ faults' = faults - 1

syncWorld == <<syncs, issues, throttle>>
fileWorld == <<files, lock, told, unsettled>>

(* A client sends its next request; nothing is done for one who is not      *)
(* logged in, and flags that exclude each other are refused.                *)
Submit(c) ==
    /\ At(c, "idle")
    /\ script[c] # <<>>
    /\ script' = [script EXCEPT ![c] = Tail(@)]
    /\ run' = [run EXCEPT ![c] = [IdleRun EXCEPT !.pc = Head(script[c]).op,
                                                 !.req = Head(script[c])]]
    /\ UNCHANGED <<startup, syncWorld, fileWorld, mounts, nodes, faults>>

Refused(c) ==
    /\ run[c].pc \in Operations
    /\ ~Req(c).loggedIn \/ Cardinality(Req(c).flags) > 1
    /\ startup = <<>>
    /\ Refuse(c, IF Req(c).loggedIn THEN "EARGS" ELSE "NOTLOGGEDIN")
    /\ UNCHANGED <<startup, script, syncWorld, fileWorld, mounts, nodes, faults>>

Accepted(c, op) ==
    /\ At(c, op)
    /\ Req(c).loggedIn
    /\ Cardinality(Req(c).flags) <= 1

-----------------------------------------------------------------------------
(* sync LOCAL REMOTE, sync ID|PATH, sync                                    *)

Existing == {i \in SyncIds : syncs[i].state \notin {"none", "deleted"}}

ById(i) == IF i \in Existing THEN i ELSE None
ByPath(p) ==
    IF \E i \in Existing : syncs[i].local = p
    THEN CHOOSE i \in Existing : syncs[i].local = p
    ELSE None

(* What the client typed names a sync by its id or else by its local path. *)
getSync(who) == IF ById(who.id) # None THEN who.id ELSE ByPath(who.path)

addSync(c) ==
    /\ Accepted(c, "sync")
    /\ Len(Req(c).args) = 2
    /\ LET local == Req(c).args[1]
           remote == Req(c).args[2]
       IN \/ /\ (local \notin DOMAIN files \/ nodes[remote] = "gone")
             /\ Refuse(c, "NOTFOUND")
          \/ /\ local \in DOMAIN files /\ nodes[remote] \in {"file", "readonly"}
             /\ Refuse(c, "NOTPERMITTED")
          \/ /\ local \in DOMAIN files /\ nodes[remote] = "full"
             /\ Go(c, "syncFolder")
    /\ UNCHANGED <<startup, script, syncWorld, fileWorld, mounts, nodes, faults>>

(* Mutant of SyncErrorCode: only the error of the request itself counts. *)
MutNoSyncErrorCode == "OK"

(* getErrorsAndSetOutCode: the request succeeded, the sync has an error. *)
SyncErrorCode == "INVALIDSTATE"

(* The SDK refuses a folder that is synced already or is gone by now; it    *)
(* may add a sync that does not run.                                        *)
SyncAdded(c) ==
    /\ At(c, "syncFolder")
    /\ LET local == Req(c).args[1]
           remote == Req(c).args[2]
           free == {i \in SyncIds : syncs[i].state = "none"}   \* ids are not used again
           id == CHOOSE i \in free : \A j \in free : i <= j
           taken == \E i \in Existing : syncs[i].local = local \/ syncs[i].cloud = remote
           Added(state) == [syncs EXCEPT ![id] = [state |-> state, local |-> local,
                                        cloud |-> remote, error |-> state = "disabled"]]
       IN \/ /\ ~taken /\ free # {} /\ nodes[remote] # "gone"
             /\ NoFault
             /\ syncs' = Added("running")
             /\ Finish(c, "added")
          \/ /\ ~taken /\ free # {} /\ nodes[remote] # "gone"
             /\ Fault
             /\ syncs' = Added("disabled")
             /\ Refuse(c, SyncErrorCode)
          \/ /\ IF taken \/ free = {} \/ nodes[remote] = "gone" THEN NoFault ELSE Fault
             /\ Refuse(c, "ERROR")
             /\ UNCHANGED syncs
    /\ UNCHANGED <<startup, script, issues, throttle, fileWorld, mounts, nodes>>

FindSync(c) ==
    /\ Accepted(c, "sync")
    /\ Len(Req(c).args) = 1
    /\ LET i == getSync(Req(c).args[1])
       IN IF i = None THEN Refuse(c, "NOTFOUND")
          ELSE run' = [run EXCEPT ![c].pc = "modifySync", ![c].id = i, ![c].sync = syncs[i]]
    /\ UNCHANGED <<startup, script, syncWorld, fileWorld, mounts, nodes, faults>>

(* Mutant of Target: the path of the sync that was found is used instead. *)
MutTargetByPath(c) == ByPath(run[c].sync.local)

(* The sync that the SDK is asked to change, None when it is gone. *)
Target(c) == ById(run[c].id)

(* Whatever is neither a removal nor an enabling pauses.  A request without *)
(* an option is one of those.                                               *)
modifySync(c) ==
    /\ At(c, "modifySync")
    /\ LET i == Target(c)
           removing == "delete" \in Req(c).flags
           enabling == "enable" \in Req(c).flags /\ ~removing
           Becomes(state) == [syncs EXCEPT ![i].state = state, ![i].error = state = "disabled"]
           next == IF removing THEN "idle" ELSE "reloadSync"
           what == IF removing THEN "deleted" ELSE IF enabling THEN "enabled" ELSE "paused"
       IN \/ /\ i # None
             /\ NoFault
             /\ syncs' = IF removing THEN Becomes("deleted")
                         ELSE Becomes(IF enabling THEN "running" ELSE "suspended")
             /\ run' = [run EXCEPT ![c].pc = next, ![c].done = {what}]
          \/ /\ i # None /\ enabling
             /\ Fault
             /\ syncs' = Becomes("disabled")
             /\ run' = [run EXCEPT ![c].pc = next, ![c].out = SyncErrorCode]
          \/ /\ IF i = None THEN NoFault ELSE Fault
             /\ run' = [run EXCEPT ![c].pc = next, ![c].out = "ERROR"]
             /\ UNCHANGED syncs
    /\ UNCHANGED <<startup, script, issues, throttle, fileWorld, mounts, nodes>>

(* The copy of a sync that is printed later. *)
Listed(i) == [id |-> i, sync |-> syncs[i]]

reloadSync(c) ==
    /\ At(c, "reloadSync")
    /\ LET i == ById(run[c].id)
       IN IF i = None THEN Refuse(c, "NOTFOUND")
          ELSE run' = [run EXCEPT ![c].pc = "getSyncIssues", ![c].sync = syncs[i],
                                  ![c].list = <<Listed(i)>>]
    /\ UNCHANGED <<startup, script, syncWorld, fileWorld, mounts, nodes, faults>>

ListSyncs(c) ==
    /\ Accepted(c, "sync")
    /\ Len(Req(c).args) = 0
    /\ Go(c, "getSyncIssues")
    /\ UNCHANGED <<startup, script, syncWorld, fileWorld, mounts, nodes, faults>>

AllListed == SetToSortSeq({Listed(i) : i \in Existing}, LAMBDA x, y : x.id < y.id)

(* A request that fails leaves the list empty and is not told to the user.  *)
(* The list of syncs is taken after the list of issues has come.            *)
getSyncIssues(c) ==
    /\ At(c, "getSyncIssues")
    /\ \E got \in {issues, {}} :
          /\ IF got = issues THEN NoFault ELSE Fault
          /\ run' = [run EXCEPT
                ![c].issues = got,
                ![c].list = IF Req(c).op = "sync" /\ Req(c).args = <<>> THEN AllListed ELSE @,
                ![c].pc = IF Req(c).op = "sync-issues" THEN "printIssues" ELSE "printSync"]
    /\ UNCHANGED <<startup, script, syncWorld, fileWorld, mounts, nodes>>

(* A plain prefix of the path: "/a" is one of "/ab" too. *)
belongsToSync(issue, sync) ==
    \/ issue.cloud # <<>> /\ IsPrefix(sync.cloud, issue.cloud)
    \/ issue.local # <<>> /\ IsPrefix(sync.local, issue.local)

getSyncIssuesCount(c, sync) ==
    Cardinality({x \in run[c].issues : belongsToSync(x, sync)})

(* One row; the folder is asked for its number of files and the thread      *)
(* waits for the answer.  printSync prints nothing when the node is gone.   *)
printSync(c) ==
    /\ At(c, "printSync")
    /\ run[c].list # <<>>
    /\ LET x == Head(run[c].list)
           row == <<x.id, x.sync.state, getSyncIssuesCount(c, x.sync)>>
           hidden == Len(Req(c).args) = 1 /\ nodes[x.sync.cloud] = "gone"
       IN run' = [run EXCEPT ![c].list = Tail(@),
                             ![c].shown = IF hidden THEN @ ELSE Append(@, row)]
    /\ UNCHANGED <<startup, script, syncWorld, fileWorld, mounts, nodes, faults>>

(* After the rows of all syncs: a warning when there are issues, else the   *)
(* request that tells whether uploads are delayed.                          *)
isAnySyncUploadDelayed(c) ==
    /\ At(c, "printSync")
    /\ run[c].list = <<>>
    /\ \/ NoFault /\ Return(c, run[c])
       \/ /\ Req(c).args = <<>> /\ run[c].issues = {} /\ issues = {}
          /\ \E i \in Existing : syncs[i].state = "running"
          /\ Fault
          /\ Refuse(c, "ERROR")
    /\ UNCHANGED <<startup, script, syncWorld, fileWorld, mounts, nodes>>

(* sync-issues: every issue is shown with the first sync of the SDK's list  *)
(* that it belongs to.                                                      *)
SyncIssues(c) ==
    /\ Accepted(c, "sync-issues")
    /\ Go(c, "getSyncIssues")
    /\ UNCHANGED <<startup, script, syncWorld, fileWorld, mounts, nodes, faults>>

getParentSync(issue) ==
    LET owners == {i \in Existing : belongsToSync(issue, syncs[i])}
    IN IF owners = {} THEN None ELSE CHOOSE i \in owners : \A j \in owners : i <= j

printAllIssues(some) == SetToSeq({<<x.id, getParentSync(x)>> : x \in some})

printIssues(c) ==
    /\ At(c, "printIssues")
    /\ LET wanted == IF Req(c).id = None THEN run[c].issues
                     ELSE {x \in run[c].issues : x.id = Req(c).id}
       IN IF wanted = {} /\ Req(c).id # None THEN Refuse(c, "NOTFOUND")
          ELSE Return(c, [run[c] EXCEPT !.shown = printAllIssues(wanted)])
    /\ UNCHANGED <<startup, script, syncWorld, fileWorld, mounts, nodes, faults>>

-----------------------------------------------------------------------------
(* sync-config, and the values that are loaded before the first petition.   *)

getCurrentConfig(c) ==
    /\ Accepted(c, "sync-config")
    /\ \/ NoFault /\ Return(c, [run[c] EXCEPT !.shown = <<throttle.now>>])
       \/ Fault /\ Refuse(c, "ERROR")
    /\ UNCHANGED <<startup, script, syncWorld, fileWorld, mounts, nodes>>

(* updateWaitSecs and updateMaxAttempts.  When the limits cannot be had the *)
(* value is tried without a test, and the SDK refuses one outside them.     *)
LoadThrottle ==
    /\ startup # <<>>
    /\ LET field == Head(startup)
           value == throttle.saved[field]
           valid == value >= Lower[field] /\ value <= Upper[field]
       IN \/ /\ valid
             /\ NoFault
             /\ throttle' = [throttle EXCEPT !.now[field] = value, !.saved[field] = value]
          \/ /\ IF valid THEN Fault ELSE NoFault
             /\ UNCHANGED throttle
    /\ startup' = Tail(startup)
    /\ UNCHANGED <<script, run, syncs, issues, fileWorld, mounts, nodes>>

-----------------------------------------------------------------------------
(* sync-ignore and exclude                                                  *)

Filters(file) == {l \in ToSet(file.lines) : l # <<>> /\ l[1] # "#"}
Text(filter) == <<filter.word>>

Shows(c) == Req(c).flags \subseteq {"show"}

(* The file's path: the default file, or the one of the sync's folder. *)
FindIgnoreFile(c) ==
    /\ Accepted(c, "sync-ignore") \/ Accepted(c, "exclude")
    /\ LET i == getSync(Req(c).who)
           default == Req(c).who.path = Default
       IN IF /\ Shows(c)
             /\ Req(c).op = "exclude" \/ Req(c).filters # {}
          THEN Refuse(c, "EARGS")
          ELSE IF ~default /\ i = None THEN Refuse(c, "NOTFOUND")
          ELSE run' = [run EXCEPT ![c].pc = "ignoreFile",
                          ![c].dir = IF default THEN Default ELSE syncs[i].local]
    /\ UNCHANGED <<startup, script, syncWorld, fileWorld, mounts, nodes, faults>>

(* SyncIgnore::executeCommand is over; exclude shows the file afterwards. *)
EndOfCommand(c, r) ==
    IF Req(c).op = "exclude" /\ ~Shows(c)
    THEN run' = [run EXCEPT ![c] = [r EXCEPT !.pc = "ignoreFile", !.req.flags = {"show"}]]
    ELSE Return(c, r)

IgnoreFileExists(c) ==
    /\ At(c, "ignoreFile")
    /\ IF ~Shows(c) /\ Req(c).filters = {}
       THEN EndOfCommand(c, [run[c] EXCEPT !.out = "EARGS"])
       ELSE IF ~files[run[c].dir].exists
            THEN EndOfCommand(c, [run[c] EXCEPT !.out = "NOTFOUND"])
            ELSE Go(c, "open")
    /\ UNCHANGED <<startup, script, syncWorld, fileWorld, mounts, nodes, faults>>

Free(c) == lock[run[c].dir] = "free"

(* The constructor: the file is read, or made again if it has gone since.   *)
(* It may not open, and reading may end early, which is not noticed.        *)
OpenIgnoreFile(c) ==
    /\ At(c, "open")
    /\ Free(c)
    /\ LET d == run[c].dir
           next == IF "add" \in Req(c).flags THEN "executeAdd" ELSE "executeRemove"
           Read(n) == Filters([files[d] EXCEPT !.lines = SubSeq(@, 1, n)])
       IN \/ /\ files' = IF files[d].exists THEN files
                         ELSE [files EXCEPT ![d] = [NoFile EXCEPT !.exists = TRUE]]
             /\ \E n \in 0 .. Len(files[d].lines) :
                   LET r == [run[c] EXCEPT !.loaded = Read(n)]
                   IN /\ IF n < Len(files[d].lines) THEN Fault ELSE NoFault
                      /\ IF Shows(c) THEN EndOfCommand(c, [r EXCEPT !.shown = SetToSeq(Read(n))])
                         ELSE run' = [run EXCEPT ![c] = [r EXCEPT !.pc = next]]
          \/ /\ Fault
             /\ EndOfCommand(c, [run[c] EXCEPT !.out = "INVALIDSTATE"])
             /\ UNCHANGED files
    /\ UNCHANGED <<startup, script, syncWorld, lock, told, unsettled, mounts, nodes>>

(* Those that the file had when it was opened are skipped. *)
ToAdd(c) == {Text(f) : f \in Req(c).filters} \ run[c].loaded

(* The lines are compared without the spaces at their end, with the filters *)
(* as they were typed: one typed with a space at its end is on no line.     *)
Doomed(c) ==
    {Text(f) : f \in {g \in Req(c).filters : Text(g) \in run[c].loaded /\ ~g.space}}

(* The client is told before the file is written, and without its mutex. *)
Tell(c, what, texts) ==
    LET d == run[c].dir
    IN /\ told' = [told EXCEPT ![d] = [t \in DOMAIN told[d] \cup texts |->
                                          IF t \in texts THEN what ELSE told[d][t]]]
       /\ unsettled' = [unsettled EXCEPT ![d] = @ \cup texts]

(* One invalid filter makes the whole command fail. *)
executeAdd(c) ==
    /\ At(c, "executeAdd")
    /\ IF \E f \in Req(c).filters : ~f.valid
       THEN /\ EndOfCommand(c, [run[c] EXCEPT !.out = "EARGS"])
            /\ UNCHANGED <<told, unsettled>>
       ELSE Go(c, "addFilters") /\ Tell(c, "added", ToAdd(c))
    /\ UNCHANGED <<startup, script, syncWorld, files, lock, mounts, nodes, faults>>

executeRemove(c) ==
    /\ At(c, "executeRemove")
    /\ Go(c, "removeFilters")
    /\ Tell(c, "removed", Doomed(c))
    /\ UNCHANGED <<startup, script, syncWorld, files, lock, mounts, nodes, faults>>

(* The file now says of the texts what a command told of them, and not what *)
(* another one has told since.  A write that fails part-way may leave       *)
(* anything of the file.                                                    *)
Settle(c, what, texts) ==
    LET d == run[c].dir
    IN unsettled' = [unsettled EXCEPT ![d] =
                        (@ \ texts) \cup {t \in texts \cap DOMAIN told[d] : told[d][t] # what}]

Unsettle(c) ==
    unsettled' = [unsettled EXCEPT ![run[c].dir] = @ \cup DOMAIN told[run[c].dir]]

(* What a write of lines that fails leaves: the last one may be cut.        *)
Partly(lines) ==
    {[lines |-> SubSeq(lines, 1, n), open |-> FALSE] : n \in 0 .. Len(lines) - 1}
    \cup
    {[lines |-> Append(SubSeq(lines, 1, n), cut), open |-> TRUE] :
        n \in 0 .. Len(lines) - 1, cut \in {<<Fragment>>} \cup (ToSet(lines) \ {<<>>})}

(* Appending to a line without an end makes one line of both. *)
WithAppended(file, new, open) ==
    LET lines == IF file.open
                 THEN Front(file.lines) \o <<Last(file.lines) \o new[1]>> \o Tail(new)
                 ELSE file.lines \o new
    IN IF new = <<>> THEN [file EXCEPT !.exists = TRUE]
       ELSE [exists |-> TRUE, open |-> open, lines |-> lines]

(* Whether the file was opened and written is never looked at. *)
addFilters(c) ==
    /\ At(c, "addFilters")
    /\ Free(c)
    /\ LET d == run[c].dir
           new == SetToSeq(ToAdd(c))
       IN \/ /\ NoFault
             /\ files' = [files EXCEPT ![d] = WithAppended(files[d], new, FALSE)]
             /\ Settle(c, "added", ToAdd(c))
             /\ EndOfCommand(c, [run[c] EXCEPT !.done = {"filters"}])
          \/ /\ Fault
             /\ \/ UNCHANGED <<files, unsettled>>
                \/ /\ \E part \in Partly(new) :
                         files' = [files EXCEPT ![d] = WithAppended(files[d], part.lines, part.open)]
                   /\ Unsettle(c)
             /\ EndOfCommand(c, [run[c] EXCEPT !.missed = {"filters"}])
    /\ UNCHANGED <<startup, script, syncWorld, lock, told, mounts, nodes>>

Without(lines, doomed) ==
    LET kept[i \in 0 .. Len(lines)] ==
            IF i = 0 THEN <<>>
            ELSE IF lines[i] \in doomed THEN kept[i - 1] ELSE Append(kept[i - 1], lines[i])
    IN kept[Len(lines)]

(* The lines read are those before the failure, if there is one. *)
ReadKept(c, n) ==
    run' = [run EXCEPT ![c].pc = "truncate",
                       ![c].kept = Without(SubSeq(files[run[c].dir].lines, 1, n), Doomed(c))]

(* Mutant of removeFilters: the file is read before the lock is taken. *)
MutReadUnlocked(c) ==
    /\ At(c, "removeFilters")
    /\ ReadKept(c, Len(files[run[c].dir].lines))
    /\ UNCHANGED <<startup, script, syncWorld, fileWorld, mounts, nodes, faults>>

removeFilters(c) ==
    /\ At(c, "removeFilters")
    /\ Free(c)
    /\ lock' = [lock EXCEPT ![run[c].dir] = c]
    /\ \E n \in 0 .. Len(files[run[c].dir].lines) :
          /\ ReadKept(c, n)
          /\ IF n = Len(files[run[c].dir].lines) THEN NoFault /\ UNCHANGED unsettled
             ELSE Fault /\ Unsettle(c)
    /\ UNCHANGED <<startup, script, syncWorld, files, told, mounts, nodes>>

(* A file that cannot be opened for writing stays as it is. *)
TruncateIgnoreFile(c) ==
    /\ At(c, "truncate")
    /\ \/ /\ NoFault
          /\ files' = [files EXCEPT ![run[c].dir].lines = <<>>, ![run[c].dir].open = FALSE,
                                    ![run[c].dir].exists = TRUE]
          /\ Go(c, "rewrite")
          /\ UNCHANGED lock
       \/ /\ Fault
          /\ lock' = [lock EXCEPT ![run[c].dir] = "free"]
          /\ EndOfCommand(c, [run[c] EXCEPT !.missed = {"filters"}])
          /\ UNCHANGED files
    /\ UNCHANGED <<startup, script, syncWorld, told, unsettled, mounts, nodes>>

RewriteIgnoreFile(c) ==
    /\ At(c, "rewrite")
    /\ \/ /\ NoFault
          /\ files' = [files EXCEPT ![run[c].dir].lines = run[c].kept]
          /\ Settle(c, "removed", Doomed(c))
          /\ EndOfCommand(c, [run[c] EXCEPT !.done = {"filters"}])
       \/ /\ Fault
          /\ \E part \in Partly(run[c].kept) :
                files' = [files EXCEPT ![run[c].dir].lines = part.lines,
                                       ![run[c].dir].open = part.open]
          /\ Unsettle(c)
          /\ EndOfCommand(c, [run[c] EXCEPT !.missed = {"filters"}])
    /\ lock' = [lock EXCEPT ![run[c].dir] = "free"]
    /\ UNCHANGED <<startup, script, syncWorld, told, mounts, nodes>>

-----------------------------------------------------------------------------
(* fuse-add, fuse-remove, fuse-enable, fuse-disable, fuse-show, fuse-config *)

Mounted == {m \in Mounts : mounts[m].name # ""}
ByName(name) == {m \in Mounted : mounts[m].name = name}

(* By name, else by path; a path that two mounts have is refused. *)
getMountByNameOrPath(who) ==
    LET named == ByName(who)
        there == {m \in Mounted : mounts[m].path = who}
    IN IF named # {} THEN named
       ELSE IF Cardinality(there) = 1 THEN there ELSE {}

Fuse(c, cmd) == Accepted(c, "fuse") /\ Req(c).cmd = cmd

FuseAdd(c) ==
    /\ Fuse(c, "add")
    /\ IF Req(c).path = "missing" \/ nodes[Req(c).node] = "gone"
       THEN Refuse(c, "NOTFOUND")
       ELSE run' = [run EXCEPT ![c].pc = "addMount",
                       ![c].mount = [name |-> Req(c).name, path |-> Req(c).path,
                                     node |-> Req(c).node, enabled |-> FALSE,
                                     startup |-> ~Req(c).transient /\ ~Req(c).disabled,
                                     persistent |-> ~Req(c).transient, readonly |-> FALSE]]
    /\ UNCHANGED <<startup, script, syncWorld, fileWorld, mounts, nodes, faults>>

MountAdded(c) ==
    /\ At(c, "addMount")
    /\ LET free == Mounts \ Mounted
           possible == free # {} /\ ByName(run[c].mount.name) = {}
       IN \/ /\ possible
             /\ NoFault
             /\ mounts' = [mounts EXCEPT ![CHOOSE m \in free : TRUE] = run[c].mount]
             /\ run' = [run EXCEPT ![c].pc = IF Req(c).disabled THEN "idle" ELSE "enableMount",
                                   ![c].done = {"mounted"}]
          \/ /\ IF possible THEN Fault ELSE NoFault
             /\ Refuse(c, "ERROR")
             /\ UNCHANGED mounts
    /\ UNCHANGED <<startup, script, syncWorld, fileWorld, nodes>>

(* loadFuseConfigDelta: no flag at all, or flags that contradict each other. *)
InvalidDelta(delta) ==
    \/ delta = <<>>
    \/ /\ {"startup", "persistent"} \subseteq DOMAIN delta
       /\ delta.startup /\ ~delta.persistent

AfterLookup(cmd, m) ==
    IF cmd = "remove" THEN IF mounts[m].enabled THEN "disableFirst" ELSE "removeMount"
    ELSE IF cmd = "enable" THEN "enableMount"
    ELSE IF cmd = "disable" THEN "disableMount"
    ELSE IF cmd = "config" THEN "changeConfig" ELSE "idle"

(* The other commands look the mount up and go on with a copy of it. *)
FindMount(c) ==
    /\ Accepted(c, "fuse")
    /\ Req(c).cmd \in {"remove", "enable", "disable", "show", "config"}
    /\ LET found == getMountByNameOrPath(Req(c).name)
       IN IF Req(c).cmd = "config" /\ InvalidDelta(Req(c).delta) THEN Refuse(c, "EARGS")
          ELSE IF found = {} THEN Refuse(c, "NOTFOUND")
          ELSE \E m \in found :
                 run' = [run EXCEPT ![c].mount = mounts[m],
                                    ![c].pc = AfterLookup(Req(c).cmd, m)]
    /\ UNCHANGED <<startup, script, syncWorld, fileWorld, mounts, nodes, faults>>

(* A request on a mount by its name: the mount that has the name now        *)
(* becomes what "new" says of it.                                           *)
Request(c, new, afterwards, what) ==
    LET named == ByName(run[c].mount.name)
    IN \/ \E m \in named :
             /\ NoFault
             /\ mounts' = [mounts EXCEPT ![m] = new[m]]
             /\ run' = [run EXCEPT ![c].pc = afterwards, ![c].done = @ \cup {what}]
             /\ UNCHANGED <<startup, script, syncWorld, fileWorld, nodes>>
       \/ /\ IF named = {} THEN NoFault ELSE Fault
          /\ Refuse(c, "ERROR")
          /\ UNCHANGED <<startup, script, syncWorld, fileWorld, mounts, nodes>>

shouldRememberChange(c) == run[c].mount.persistent /\ ~Req(c).transient

Enabled(c) ==
    [m \in Mounts |-> [mounts[m] EXCEPT !.enabled = TRUE,
                                        !.startup = @ \/ shouldRememberChange(c)]]
Disabled(c) ==
    [m \in Mounts |-> [mounts[m] EXCEPT !.enabled = FALSE,
                                        !.startup = @ /\ ~shouldRememberChange(c)]]
Configured(flags) ==
    [m \in Mounts |-> [mounts[m] EXCEPT !.name = flags.name, !.startup = flags.startup,
                           !.persistent = flags.persistent, !.readonly = flags.readonly]]

enableMount(c) ==
    /\ At(c, "enableMount")
    /\ Request(c, Enabled(c), "recheck", "mount enabled")

(* The mount is looked up again for its message. *)
MountEnabled(c) ==
    /\ At(c, "recheck")
    /\ IF getMountByNameOrPath(run[c].mount.name) = {} THEN Refuse(c, "NOTFOUND")
       ELSE Return(c, run[c])
    /\ UNCHANGED <<startup, script, syncWorld, fileWorld, mounts, nodes, faults>>

disableMount(c) ==
    \/ /\ At(c, "disableMount")
       /\ Request(c, Disabled(c), "idle", "mount disabled")
    \/ /\ At(c, "disableFirst")
       /\ Request(c, [m \in Mounts |-> [mounts[m] EXCEPT !.enabled = FALSE, !.startup = FALSE]],
                  "removeMount", "mount disabled")

(* The SDK does not remove a mount that is enabled. *)
removeMount(c) ==
    /\ At(c, "removeMount")
    /\ IF \E m \in ByName(run[c].mount.name) : mounts[m].enabled
       THEN /\ Refuse(c, "ERROR")
            /\ UNCHANGED <<startup, script, syncWorld, fileWorld, mounts, nodes, faults>>
       ELSE Request(c, [m \in Mounts |-> NoMount], "idle", "unmounted")

(* All the flags of the copy are written, the changed one among them. *)
NewFlags(c) == Req(c).delta @@ run[c].mount

changeConfig(c) ==
    /\ At(c, "changeConfig")
    /\ IF NewFlags(c).name # run[c].mount.name /\ ByName(NewFlags(c).name) # {}
       THEN /\ Refuse(c, "ERROR")
            /\ UNCHANGED <<startup, script, syncWorld, fileWorld, mounts, nodes, faults>>
       ELSE Request(c, Configured(NewFlags(c)), "idle", "configured")

printAllMounts(c) ==
    /\ Fuse(c, "list")
    /\ Return(c, [run[c] EXCEPT !.shown = SetToSeq({mounts[m].name : m \in Mounted})])
    /\ UNCHANGED <<startup, script, syncWorld, fileWorld, mounts, nodes, faults>>

-----------------------------------------------------------------------------
(* The engine and the user                                                  *)

SyncDisabled ==
    /\ startup = <<>>
    /\ Fault
    /\ \E i \in Existing :
          /\ syncs[i].state = "running"
          /\ syncs' = [syncs EXCEPT ![i].state = "disabled", ![i].error = TRUE]
    /\ UNCHANGED <<startup, script, run, issues, throttle, fileWorld, mounts, nodes>>

RemoteFolderGone ==
    /\ startup = <<>>
    /\ Fault
    /\ \E n \in DOMAIN nodes : nodes[n] = "full" /\ nodes' = [nodes EXCEPT ![n] = "gone"]
    /\ UNCHANGED <<startup, script, run, syncWorld, fileWorld, mounts>>

(* The user removes a file that no command is working on. *)
IgnoreFileGone ==
    /\ startup = <<>>
    /\ Fault
    /\ \E d \in DOMAIN files :
          /\ files[d].exists /\ lock[d] = "free"
          /\ files' = [files EXCEPT ![d] = NoFile]
          /\ told' = [told EXCEPT ![d] = <<>>]
          /\ unsettled' = [unsettled EXCEPT ![d] = {}]
    /\ UNCHANGED <<startup, script, run, syncWorld, lock, mounts, nodes>>

SyncStep(c) ==
    \/ addSync(c) \/ SyncAdded(c) \/ FindSync(c) \/ modifySync(c) \/ reloadSync(c)
    \/ ListSyncs(c) \/ getSyncIssues(c) \/ printSync(c) \/ isAnySyncUploadDelayed(c)
    \/ SyncIssues(c) \/ printIssues(c) \/ getCurrentConfig(c)

IgnoreStep(c) ==
    \/ FindIgnoreFile(c) \/ IgnoreFileExists(c) \/ OpenIgnoreFile(c)
    \/ executeAdd(c) \/ addFilters(c)
    \/ executeRemove(c) \/ removeFilters(c) \/ TruncateIgnoreFile(c) \/ RewriteIgnoreFile(c)

FuseStep(c) ==
    \/ FuseAdd(c) \/ MountAdded(c) \/ FindMount(c) \/ enableMount(c) \/ MountEnabled(c)
    \/ disableMount(c) \/ removeMount(c) \/ changeConfig(c) \/ printAllMounts(c)

FoldersNext ==
    \/ LoadThrottle
    \/ \E c \in Clients : Submit(c) \/ Refused(c) \/ SyncStep(c) \/ IgnoreStep(c) \/ FuseStep(c)
    \/ SyncDisabled \/ RemoteFolderGone \/ IgnoreFileGone

FoldersSpec == FoldersInit /\ [][FoldersNext]_folderVars

-----------------------------------------------------------------------------
(* Properties                                                               *)

(* A client only ever changes the sync that it named: one named by its id   *)
(* is that very sync also when it has been deleted, and another one added   *)
(* at its path, since it was looked up (sync_command.cpp, modifySync).      *)
SyncsChangeAsNamed ==
    [][\A i \in SyncIds :
          /\ syncs[i].state # "none"
          /\ syncs'[i] # syncs[i]
          => \/ \E c \in Clients :
                   /\ run[c].pc = "modifySync" /\ run'[c] # run[c]
                   /\ Req(c).args[1].id = i \/ Req(c).args[1].path = syncs[i].local
             \/ syncs'[i].state = "disabled" /\ run' = run]_folderVars

Whole(file) == ~file.open /\ \A l \in ToSet(file.lines) : Len(l) = 1

(* However many clients edit a .megaignore file at once, a filter that one  *)
(* was last told to have been added is a line of the file and one last told *)
(* to have been removed is not, except while a command is rewriting the     *)
(* file (sync_ignore.cpp, getFileLock).  Clients are told before the file   *)
(* is written (82, 98), so filters are unsettled until the command that     *)
(* told of them has written, and for good when its write fails, when any    *)
(* command reads or writes the file only in part (none of this is noticed,  *)
(* 278-313), or when a command that told otherwise before writes after it.  *)
(* A file that the user has left without an end of its last line is         *)
(* excepted: its next filter is lost.  A filter typed with a space at its   *)
(* end is not on any line: it is said to be removed when the one without    *)
(* the space is there, and nothing is.                                      *)
FiltersAsTold ==
    \A d \in DOMAIN files :
        Whole(files[d]) /\ (\A c \in Clients : run[c].dir = d => run[c].pc # "rewrite") =>
            \A t \in DOMAIN told[d] \ unsettled[d] :
                (told[d][t] = "added") <=> t \in Filters(files[d])

PromiseOfSync(req) ==
    IF Len(req.args) = 2 THEN {"added"}
    ELSE IF Len(req.args) # 1 THEN {}
    ELSE IF "delete" \in req.flags THEN {"deleted"}
    ELSE IF "enable" \in req.flags THEN {"enabled"} ELSE {"paused"}

PromiseOfFuse(req) ==
    IF req.cmd = "add" THEN {"mounted"} \cup (IF req.disabled THEN {} ELSE {"mount enabled"})
    ELSE IF req.cmd = "enable" THEN {"mount enabled"}
    ELSE IF req.cmd = "disable" THEN {"mount disabled"}
    ELSE IF req.cmd = "remove" THEN {"unmounted"}
    ELSE IF req.cmd = "config" THEN {"configured"} ELSE {}

Promise(req) ==
    IF req.op = "sync" THEN PromiseOfSync(req)
    ELSE IF req.op = "fuse" THEN PromiseOfFuse(req)
    ELSE IF req.op = "sync-ignore" /\ req.flags \cap {"add", "remove"} # {} THEN {"filters"}
    ELSE {}

(* A command that answers OK has had every request it consists of carried   *)
(* out, and without a sync error: none of several requests fails silently.  *)
(* The one thing that may be missed is a write of a .megaignore file, whose *)
(* failure sync-ignore does not look at (sync_ignore.cpp:278-285, 308-313). *)
OkMeansDone ==
    \A c \in Clients :
        run[c].pc = "idle" /\ run[c].out = "OK" =>
            \/ Promise(Req(c)) \subseteq run[c].done
            \/ Req(c).op = "sync-ignore" /\ run[c].missed = {"filters"}

=============================================================================
