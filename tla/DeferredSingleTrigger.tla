------------------------ MODULE DeferredSingleTrigger ------------------------
(***************************************************************************)
(* The class DeferredSingleTrigger (deferred_single_trigger.h): a call of   *)
(* triggerDeferredSingleShot cancels the worker thread of the previous call *)
(* and starts one that runs the callback mSecondsToWait later.  The         *)
(* executer uses it to verify shared folders once a burst of logins has     *)
(* settled; petition threads trigger it concurrently, and the main thread   *)
(* destroys it in finalize().                                               *)
(*                                                                          *)
(* Every call gets an id from mCounter; the worker of a call carries its    *)
(* id, so the id also names the worker thread.  Id 0 is "no thread".        *)
(*                                                                          *)
(* Atomicity: incrementCounter, destroy and isDestroyed are single critical *)
(* sections of mConditionVariableMutex and are one step each.  A worker     *)
(* releases that mutex while it waits and holds it while the callback runs. *)
(* mThreadMutex is held from ensureThreadIsStopped until the call returns.  *)
(* Time is not modelled: the timer of a waiting worker may expire at any    *)
(* moment.                                                                  *)
(***************************************************************************)
EXTENDS Naturals, FiniteSets

CONSTANTS
    Callers,      \* threads that call triggerDeferredSingleShot
    Destructor,   \* the thread that runs ~DeferredSingleTrigger
    NoOwner,      \* value of mThreadMutex when it is free
    MaxTriggers   \* bound on the number of calls

ASSUME ActorsAssumption ==
    /\ Destructor \notin Callers
    /\ NoOwner \notin Callers \cup {Destructor}
ASSUME MaxTriggersAssumption == MaxTriggers \in Nat \ {0}

VARIABLES
    mDestroyed,   \* the destructor has started
    mCounter,     \* id of the latest call
    mThread,      \* the worker object held by the trigger, 0 when null
    mThreadMutex, \* owner of mThreadMutex
    cvMutex,      \* worker that holds mConditionVariableMutex, 0 when free
    pc,           \* control state of every actor
    id,           \* the local variable "id" of every caller
    worker,       \* control state of every worker thread
    notified,     \* waiting workers that a notify_one has woken
    fired         \* history: the ids whose callback has started

vars == <<mDestroyed, mCounter, mThread, mThreadMutex, cvMutex, pc, id,
          worker, notified, fired>>

Actors == Callers \cup {Destructor}
Ids == 1 .. MaxTriggers

PcStates == {"idle", "stopping", "joining", "checking", "spawning", "done"}
WorkerStates == {"unborn", "spawned", "waiting", "callback", "exited"}

Init ==
    /\ mDestroyed = FALSE
    /\ mCounter = 0
    /\ mThread = 0
    /\ mThreadMutex = NoOwner
    /\ cvMutex = 0
    /\ pc = [a \in Actors |-> "idle"]
    /\ id = [c \in Callers |-> 0]
    /\ worker = [i \in Ids |-> "unborn"]
    /\ notified = {}
    /\ fired = {}

-----------------------------------------------------------------------------
(* Mutant of Cancelled: a newer call does not cancel an older one. *)
MutCancelledByDestructorOnly(i) == mDestroyed

(* The predicate of the condition variable: the worker of call i must not  *)
(* run its callback any more.                                               *)

Cancelled(i) == mDestroyed \/ i # mCounter

-----------------------------------------------------------------------------
(* Calls of triggerDeferredSingleShot and of the destructor *)

incrementCounter(c) ==
    /\ pc[c] = "idle"
    /\ mCounter < MaxTriggers
    /\ cvMutex = 0
    /\ mCounter' = mCounter + 1
    /\ id' = [id EXCEPT ![c] = mCounter + 1]
    /\ pc' = [pc EXCEPT ![c] = "stopping"]
    /\ UNCHANGED <<mDestroyed, mThread, mThreadMutex, cvMutex, worker,
                   notified, fired>>

(* The destructor's twin of incrementCounter. *)
destroy ==
    /\ pc[Destructor] = "idle"
    /\ cvMutex = 0
    /\ mDestroyed' = TRUE
    /\ pc' = [pc EXCEPT ![Destructor] = "stopping"]
    /\ UNCHANGED <<mCounter, mThread, mThreadMutex, cvMutex, id, worker,
                   notified, fired>>

(* ensureThreadIsStopped, first half: lock mThreadMutex and, if there is a  *)
(* worker, notify it.  A notify_one that finds nobody waiting is lost.      *)
NotifiedByLock ==
    IF mThread # 0 /\ worker[mThread] = "waiting"
    THEN notified \cup {mThread}
    ELSE notified

LockAndNotify(a) ==
    /\ pc[a] = "stopping"
    /\ mThreadMutex = NoOwner
    /\ mThreadMutex' = a
    /\ pc' = [pc EXCEPT ![a] = "joining"]
    /\ notified' = NotifiedByLock
    /\ UNCHANGED <<mDestroyed, mCounter, mThread, cvMutex, id, worker, fired>>

(* ensureThreadIsStopped, second half: join the worker and drop it.  The    *)
(* destructor releases the returned lock at once; a caller keeps it.        *)
MayStopJoining == mThread # 0 => worker[mThread] = "exited"

Join(a) ==
    /\ pc[a] = "joining"
    /\ MayStopJoining
    /\ mThread' = 0
    /\ IF a = Destructor
       THEN /\ pc' = [pc EXCEPT ![a] = "done"]
            /\ mThreadMutex' = NoOwner
       ELSE /\ pc' = [pc EXCEPT ![a] = "checking"]
            /\ UNCHANGED mThreadMutex
    /\ UNCHANGED <<mDestroyed, mCounter, cvMutex, id, worker, notified, fired>>

(* isDestroyed: a call that lost the race with the destructor returns       *)
(* without a worker.                                                        *)
isDestroyed(c) ==
    /\ pc[c] = "checking"
    /\ cvMutex = 0
    /\ IF mDestroyed
       THEN /\ pc' = [pc EXCEPT ![c] = "idle"]
            /\ mThreadMutex' = NoOwner
       ELSE /\ pc' = [pc EXCEPT ![c] = "spawning"]
            /\ UNCHANGED mThreadMutex
    /\ UNCHANGED <<mDestroyed, mCounter, mThread, cvMutex, id, worker,
                   notified, fired>>

Spawn(c) ==
    /\ pc[c] = "spawning"
    /\ mThread' = id[c]
    /\ worker' = [worker EXCEPT ![id[c]] = "spawned"]
    /\ pc' = [pc EXCEPT ![c] = "idle"]
    /\ mThreadMutex' = NoOwner
    /\ UNCHANGED <<mDestroyed, mCounter, cvMutex, id, notified, fired>>

-----------------------------------------------------------------------------
(* The worker thread.  wait_for evaluates the predicate before it waits.    *)

StartWaiting(i) ==
    /\ worker[i] = "spawned"
    /\ cvMutex = 0
    /\ worker' = [worker EXCEPT ![i] = IF Cancelled(i) THEN "exited"
                                                       ELSE "waiting"]
    /\ UNCHANGED <<mDestroyed, mCounter, mThread, mThreadMutex, cvMutex, pc,
                   id, notified, fired>>

(* Woken by notify_one, the worker evaluates the predicate again. *)
WakeUp(i) ==
    /\ worker[i] = "waiting"
    /\ i \in notified
    /\ cvMutex = 0
    /\ notified' = notified \ {i}
    /\ worker' = [worker EXCEPT ![i] = IF Cancelled(i) THEN "exited"
                                                       ELSE "waiting"]
    /\ UNCHANGED <<mDestroyed, mCounter, mThread, mThreadMutex, cvMutex, pc,
                   id, fired>>

(* The timer expires: the predicate decides one last time. *)
Timeout(i) ==
    /\ worker[i] = "waiting"
    /\ cvMutex = 0
    /\ notified' = notified \ {i}
    /\ IF Cancelled(i)
       THEN /\ worker' = [worker EXCEPT ![i] = "exited"]
            /\ UNCHANGED <<cvMutex, fired>>
       ELSE /\ worker' = [worker EXCEPT ![i] = "callback"]
            /\ cvMutex' = i
            /\ fired' = fired \cup {i}
    /\ UNCHANGED <<mDestroyed, mCounter, mThread, mThreadMutex, pc, id>>

CallbackReturns(i) ==
    /\ worker[i] = "callback"
    /\ worker' = [worker EXCEPT ![i] = "exited"]
    /\ cvMutex' = 0
    /\ UNCHANGED <<mDestroyed, mCounter, mThread, mThreadMutex, pc, id,
                   notified, fired>>

-----------------------------------------------------------------------------
CallerStep(c) ==
    incrementCounter(c) \/ LockAndNotify(c) \/ Join(c) \/ isDestroyed(c)
        \/ Spawn(c)

DestructorStep == destroy \/ LockAndNotify(Destructor) \/ Join(Destructor)

WorkerStep(i) ==
    StartWaiting(i) \/ WakeUp(i) \/ Timeout(i) \/ CallbackReturns(i)

Next ==
    \/ \E c \in Callers : CallerStep(c)
    \/ DestructorStep
    \/ \E i \in Ids : WorkerStep(i)

Spec == Init /\ [][Next]_vars

(* A call that has started goes on, and so does a worker that does not wait *)
(* for its timer.  Weak fairness per thread is enough: mutex steps compete  *)
(* only finitely often, because the number of calls is bounded.             *)
ThreadFairness ==
    /\ \A c \in Callers :
          WF_vars(LockAndNotify(c) \/ Join(c) \/ isDestroyed(c) \/ Spawn(c))
    /\ WF_vars(LockAndNotify(Destructor) \/ Join(Destructor))
    /\ \A i \in Ids : WF_vars(StartWaiting(i) \/ WakeUp(i) \/ CallbackReturns(i))

(* Time passes. *)
TimerFairness == \A i \in Ids : WF_vars(Timeout(i))

(* Nothing is assumed about the timer: only notifications wake a worker. *)
UntimedSpec == Spec /\ ThreadFairness

FairSpec == UntimedSpec /\ TimerFairness

-----------------------------------------------------------------------------
(* Properties *)

TypeOK ==
    /\ mDestroyed \in BOOLEAN
    /\ mCounter \in 0 .. MaxTriggers
    /\ mThread \in 0 .. MaxTriggers
    /\ mThreadMutex \in Actors \cup {NoOwner}
    /\ cvMutex \in 0 .. MaxTriggers
    /\ pc \in [Actors -> PcStates]
    /\ id \in [Callers -> 0 .. MaxTriggers]
    /\ worker \in [Ids -> WorkerStates]
    /\ notified \subseteq Ids
    /\ fired \subseteq Ids

Alive(i) == worker[i] \in {"spawned", "waiting", "callback"}

(* "Single": however many threads trigger at once, at most one worker       *)
(* thread is alive, and it is the one the trigger holds and can join        *)
(* (deferred_single_trigger.h, ensureThreadIsStopped).                      *)
SingleWorker == \A i \in Ids : Alive(i) => i = mThread

(* While a callback runs no newer call exists and the destructor has not    *)
(* started: superseded calls never fire, also when they race the timer.     *)
CallbackIsLatest ==
    \A i \in Ids : worker[i] = "callback" => i = mCounter /\ ~mDestroyed

(* Once the destructor has returned no worker is alive or will be held:     *)
(* "we might spawn a new thread after the destructor is done" never happens. *)
NothingAfterDestructor ==
    pc[Destructor] = "done" => mThread = 0 /\ \A i \in Ids : ~Alive(i)

(* Callbacks start in the order of the calls and at most once per call,     *)
(* whatever order the calls get mThreadMutex in.                            *)
FiresInOrder ==
    [][\A i \in fired' \ fired : \A j \in fired : j < i]_vars

=============================================================================
