------------------------------ MODULE AutoUpdate ------------------------------
(***************************************************************************)
(* Automatic updates (megacmd.cpp, macOS): "update --auto=on" starts a      *)
(* thread that runs checkForUpdates, "update --auto=off" asks it to stop.   *)
(* The thread executes MEGAcmdUpdater (UpdateTask), first to download an    *)
(* update, then, once no petition is being processed, to install it, and    *)
(* restarts the server into the new release.                                *)
(*                                                                          *)
(* Callers are the petition threads (and the main thread, which starts the  *)
(* checks when a shell registers).  One action is one access to the flags   *)
(* they share with the threads.  executeUpdater waits for the updater, so   *)
(* the thread goes on when there is no updater process any more.            *)
(***************************************************************************)
EXTENDS UpdateTask

CONSTANTS
    Callers,      \* petitions that turn automatic updates on or off
    Threads,      \* threads that startcheckingForUpdates may create
    Nobody,       \* nobody waits for an updater
    UpdaterFile,  \* MEGAcmdUpdater
    ServerFile,   \* mega-cmd
    MaxCalls      \* bound on the number of calls

ASSUME AutoUpdateAssumption ==
    /\ Nobody \notin Threads
    /\ {UpdaterFile, ServerFile} \subseteq Files
    /\ MaxCalls \in Nat

VARIABLES
    autoupdate,     \* the saved property
    alreadyCheckingForUpdates,
    stopCheckingforUpdaters,
    caller,         \* control state of each caller
    thread,         \* control state of each thread
    restartRequired,\* local variable of each thread
    owner,          \* the thread that waits for the updater
    running,        \* release that the running server comes from
    calls

flagVars == <<autoupdate, alreadyCheckingForUpdates, stopCheckingforUpdaters>>
autoVars == <<flagVars, caller, thread, restartRequired, owner, running, calls>>
vars == <<updateVars, autoVars>>

Init ==
    /\ UpdaterInit
    /\ autoupdate = FALSE
    /\ alreadyCheckingForUpdates = FALSE
    /\ stopCheckingforUpdaters = FALSE
    /\ caller = [c \in Callers |-> "idle"]
    /\ thread = [t \in Threads |-> "none"]
    /\ restartRequired = [t \in Threads |-> FALSE]
    /\ owner = Nobody
    /\ running = 1
    /\ calls = 0

Go(t, state) == thread' = [thread EXCEPT ![t] = state]
Say(c, state) == caller' = [caller EXCEPT ![c] = state]

-----------------------------------------------------------------------------
(* startcheckingForUpdates and stopcheckingForUpdates *)

TurnOn(c) ==
    /\ caller[c] = "idle"
    /\ calls < MaxCalls
    /\ calls' = calls + 1
    /\ autoupdate' = TRUE
    /\ Say(c, "test")
    /\ UNCHANGED <<updateVars, alreadyCheckingForUpdates, stopCheckingforUpdaters,
                   thread, restartRequired, owner, running>>

TestChecking(c) ==
    /\ caller[c] = "test"
    /\ Say(c, IF alreadyCheckingForUpdates THEN "idle" ELSE "start")
    /\ UNCHANGED <<updateVars, flagVars, thread, restartRequired, owner, running,
                   calls>>

StartThread(c) ==
    /\ caller[c] = "start"
    /\ alreadyCheckingForUpdates' = TRUE
    /\ \E t \in Threads : thread[t] = "none" /\ Go(t, "born")
    /\ Say(c, "idle")
    /\ UNCHANGED <<updateVars, autoupdate, stopCheckingforUpdaters, restartRequired,
                   owner, running, calls>>

TurnOff(c) ==
    /\ caller[c] = "idle"
    /\ calls < MaxCalls
    /\ calls' = calls + 1
    /\ autoupdate' = FALSE
    /\ Say(c, "stop")
    /\ UNCHANGED <<updateVars, alreadyCheckingForUpdates, stopCheckingforUpdaters,
                   thread, restartRequired, owner, running>>

AskToStop(c) ==
    /\ caller[c] = "stop"
    /\ stopCheckingforUpdaters' = TRUE
    /\ Say(c, "idle")
    /\ UNCHANGED <<updateVars, autoupdate, alreadyCheckingForUpdates, thread,
                   restartRequired, owner, running, calls>>

-----------------------------------------------------------------------------
(* The thread: checkForUpdates of megacmd.cpp *)

(* Its first statement forgets that it may have been asked to stop. *)
Begin(t) ==
    /\ thread[t] = "born"
    /\ stopCheckingforUpdaters' = FALSE
    /\ Go(t, "loop")
    /\ UNCHANGED <<updateVars, autoupdate, alreadyCheckingForUpdates, caller,
                   restartRequired, owner, running, calls>>

(* Every sleep of the thread ends early when it is asked to stop, and every *)
(* sleep is followed by a test of the flag.                                 *)
Leave(t) ==
    /\ thread[t] \in {"loop", "announced", "quiet", "applied", "pause"}
    /\ stopCheckingforUpdaters
    /\ alreadyCheckingForUpdates' = FALSE
    /\ Go(t, "none")
    /\ UNCHANGED <<updateVars, autoupdate, stopCheckingforUpdaters, caller,
                   restartRequired, owner, running, calls>>

(* executeUpdater: run the updater that is installed.  Without one the      *)
(* forked child goes on as a second server, and the thread waits for it for *)
(* ever; an updater that finds the lock held answers that nothing changed.  *)
Execute(t, only, version, waiting) ==
    IF app[UpdaterFile] = Absent
    THEN /\ Go(t, "hung")
         /\ UNCHANGED <<updateVars, owner>>
    ELSE \/ /\ owner = Nobody
            /\ checkForUpdates(only, version)
            /\ owner' = t
            /\ Go(t, waiting)
         \/ /\ updater # "none"
            /\ Go(t, "applied")
            /\ UNCHANGED <<updateVars, owner>>

(* A check begins with restartRequired = false, and a refusal sets it so.   *)
StartCheck(t) ==
    /\ thread[t] = "loop"
    /\ ~stopCheckingforUpdaters
    /\ restartRequired' = [restartRequired EXCEPT ![t] = FALSE]
    /\ Execute(t, TRUE, running, "checking")
    /\ UNCHANGED <<flagVars, caller, running, calls>>

(* The exit code of the updater; nothing changes if it crashed. *)
Answer(t) == IF outcome = "crashed" THEN restartRequired[t]
                                    ELSE outcome = "updated"

UpdaterEnded(t) == updater = "none" /\ owner = t

CheckDone(t) ==
    /\ thread[t] = "checking"
    /\ UpdaterEnded(t)
    /\ owner' = Nobody
    /\ restartRequired' = [restartRequired EXCEPT ![t] = Answer(t)]
    /\ Go(t, IF Answer(t) THEN "announced" ELSE "applied")
    /\ UNCHANGED <<updateVars, flagVars, caller, running, calls>>

(* A minute passes, then the petitions that are being processed end. *)
CountDown(t) ==
    /\ thread[t] = "announced"
    /\ ~stopCheckingforUpdaters
    /\ \A c \in Callers : caller[c] = "idle"
    /\ Go(t, "quiet")
    /\ UNCHANGED <<updateVars, flagVars, caller, restartRequired, owner, running,
                   calls>>

(* The argument after "--normal-update" is a null pointer here, which ends  *)
(* the list: --version is not passed, and the updater uses its own.         *)
StartApply(t) ==
    /\ thread[t] = "quiet"
    /\ ~stopCheckingforUpdaters
    /\ Execute(t, FALSE, app[UpdaterFile], "applying")
    /\ restartRequired' = [restartRequired EXCEPT ![t] = @ /\ thread'[t] # "applied"]
    /\ UNCHANGED <<flagVars, caller, running, calls>>

ApplyDone(t) ==
    /\ thread[t] = "applying"
    /\ UpdaterEnded(t)
    /\ owner' = Nobody
    /\ restartRequired' = [restartRequired EXCEPT ![t] = Answer(t)]
    /\ Go(t, "applied")
    /\ UNCHANGED <<updateVars, flagVars, caller, running, calls>>

(* restartServer: the new server is a new process that starts the checks if *)
(* the property says so.  No server runs when its binary is not there.      *)
Restart(t) ==
    /\ thread[t] = "applied"
    /\ ~stopCheckingforUpdaters
    /\ restartRequired[t]
    /\ running' = app[ServerFile]
    /\ thread' = [u \in Threads |-> IF u = t /\ app[ServerFile] # Absent /\ autoupdate
                                    THEN "born" ELSE "none"]
    /\ alreadyCheckingForUpdates' = (app[ServerFile] # Absent /\ autoupdate)
    /\ stopCheckingforUpdaters' = FALSE
    /\ caller' = [c \in Callers |-> "idle"]
    /\ restartRequired' = [u \in Threads |-> FALSE]
    /\ owner' = Nobody
    /\ UNCHANGED <<updateVars, autoupdate, calls>>

NothingToDo(t) ==
    /\ thread[t] = "applied"
    /\ ~stopCheckingforUpdaters
    /\ ~restartRequired[t]
    /\ Go(t, "pause")
    /\ UNCHANGED <<updateVars, flagVars, caller, restartRequired, owner, running,
                   calls>>

(* Two hours pass. *)
Pause(t) ==
    /\ thread[t] = "pause"
    /\ Go(t, "loop")
    /\ UNCHANGED <<updateVars, flagVars, caller, restartRequired, owner, running,
                   calls>>

CallerStep(c) == TestChecking(c) \/ StartThread(c) \/ AskToStop(c)

ThreadStep(t) ==
    \/ Begin(t) \/ Leave(t) \/ StartCheck(t) \/ CheckDone(t) \/ CountDown(t)
    \/ StartApply(t) \/ ApplyDone(t) \/ Restart(t) \/ NothingToDo(t) \/ Pause(t)

UpdaterOrWorld ==
    /\ UpdaterStep \/ Crash \/ Publish
    /\ UNCHANGED autoVars

Next ==
    \/ running # Absent /\ \E c \in Callers : TurnOn(c) \/ TurnOff(c) \/ CallerStep(c)
    \/ \E t \in Threads : ThreadStep(t)
    \/ UpdaterOrWorld

Spec == Init /\ [][Next]_vars

(* Threads, petitions and the updater run, and time passes.  Whether a      *)
(* fault or a crash happens is up to the world.                             *)
Fairness ==
    /\ \A c \in Callers : WF_vars(CallerStep(c))
    /\ \A t \in Threads : WF_vars(ThreadStep(t))
    /\ WF_vars(UpdaterStep /\ UNCHANGED autoVars)

FairSpec == Spec /\ Fairness

-----------------------------------------------------------------------------
(* Properties *)

ThreadStates == {"none", "born", "loop", "checking", "announced", "quiet",
                 "applying", "applied", "pause", "hung"}

(* Nothing but the whole, signed file of some release is ever installed,    *)
(* however downloads fail and whatever crashes leave in the update folder.  *)
OnlyVerifiedIsInstalled == \A f \in Files : app[f] \in Releases \cup {Absent}

Installed(r, f) == IF <<r, f>> \in Removed THEN Absent ELSE r
Complete(r) == \A f \in Files : app[f] = Installed(r, f)

RollbackEnds == updater = "restore" /\ updater' = "none" /\ outcome' = "no update"

(* When a file cannot be installed, the rollback leaves every file as it    *)
(* was before the update, except those that a failing rename of the rollback*)
(* itself, or a failing removal from the backup folder before, left where   *)
(* they were: rollbackUpdate looks at no result, so that one such failure   *)
(* must not cost the other files.  (When the step that failed is a backup,  *)
(* the rollback moves that file, still in place, out of the installation.)  *)
FailedInstallRestores ==
    [][RollbackEnds /\ failed = "install"
          => \A f \in Files \ unmoved' : app'[f] = before[f]]_vars

(* The server restarts only into a whole release, as long as no updater     *)
(* crashed (after a crash restartRequired still has the answer of the check *)
(* before) and no second thread has an updater of its own.                  *)
Alone == \A t, u \in Threads : t = u \/ "none" \in {thread[t], thread[u]}

(* "If there is an update available, it will be downloaded and applied"     *)
(* (contrib/docs/commands/update.md), unless the updater crashes, or fails  *)
(* to back a file up or to put itself back, or two threads take the         *)
(* updater's lock from each other: while a thread checks, the installation  *)
(* arrives at the published release.                                        *)
Checking == \E t \in Threads : thread[t] # "none"
UpdaterLost == failed = "install" /\ UpdaterFile \in unmoved

Undisturbed == crashes = 0 /\ failed # "backup" /\ ~UpdaterLost /\ Alone

UpdatesArrive ==
    ([]Undisturbed /\ <>[](Checking /\ ~stopCheckingforUpdaters)) => <>[]Complete(release)

=============================================================================
