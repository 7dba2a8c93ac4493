------------------------------ MODULE ShellProofs ------------------------------
(***************************************************************************)
(* Proofs about Shell, Broadcasts and the DeferredSingleTrigger they run:   *)
(* about the whole server and its shells, for any shells, any scenarios and *)
(* any number of faults.                                                    *)
(*                                                                          *)
(* A step of a shell leaves the memory of the server alone and can only     *)
(* take listeners from it (ShellLeavesServer), and a step of the server     *)
(* leaves the memory of the shells alone: each invariant is carried over    *)
(* the steps of the other side by one of these two facts.                   *)
(***************************************************************************)
EXTENDS Shell, SequenceTheorems, FiniteSetTheorems, TLAPS

-----------------------------------------------------------------------------
(* The trigger alone: DeferredSingleTrigger, for any set of calling threads *)
(* and any number of calls.                                                 *)
(*                                                                          *)
(* SingleWorker and NothingAfterDestructor are not inductive: the first     *)
(* needs that mThreadMutex is held while a thread is joined and replaced    *)
(* (MutexProtectsThread, StoppedMeansNoThread), the second that a call      *)
(* which has passed the isDestroyed test still holds the mutex when the     *)
(* destructor asks for it (DoneMeansNoSpawn).  CallbackIsLatest needs that  *)
(* a running callback holds mConditionVariableMutex (CallbackHoldsMutex).   *)

MutexProtectsThread ==
    \A a \in Actors :
        pc[a] \in {"joining", "checking", "spawning"} => mThreadMutex = a

StoppedMeansNoThread ==
    \A c \in Callers : pc[c] \in {"checking", "spawning"} => mThread = 0

CallbackHoldsMutex ==
    \A i \in Ids : worker[i] = "callback" => cvMutex = i

ActorStates ==
    /\ pc[Destructor] \in {"idle", "stopping", "joining", "done"}
    /\ \A c \in Callers : pc[c] # "done"
    /\ mDestroyed <=> pc[Destructor] # "idle"

IssuedIds ==
    /\ \A c \in Callers :
          /\ id[c] <= mCounter
          /\ pc[c] # "idle" => id[c] # 0
    /\ \A i \in fired : i <= mCounter

DoneMeansNoSpawn ==
    pc[Destructor] = "done" =>
        /\ mThread = 0
        /\ \A c \in Callers : pc[c] # "spawning"

TriggerInv ==
    /\ TypeOK
    /\ MutexProtectsThread
    /\ StoppedMeansNoThread
    /\ SingleWorker
    /\ CallbackHoldsMutex
    /\ CallbackIsLatest
    /\ ActorStates
    /\ IssuedIds
    /\ DoneMeansNoSpawn

-----------------------------------------------------------------------------
(* The initial states satisfy the inductive invariant. *)
LEMMA TriggerInvInit == Init => TriggerInv
<1> SUFFICES ASSUME Init PROVE TriggerInv
  OBVIOUS
<1> USE MaxTriggersAssumption, ActorsAssumption DEF Init, Ids, Actors, Alive
<1>1. TypeOK
  <2>1. mDestroyed \in BOOLEAN
    BY Zenon
  <2>2. /\ mCounter \in 0 .. MaxTriggers
        /\ mThread \in 0 .. MaxTriggers
        /\ cvMutex \in 0 .. MaxTriggers
    OBVIOUS
  <2>3. /\ mThreadMutex \in Actors \cup {NoOwner}
        /\ notified \subseteq Ids
        /\ fired \subseteq Ids
    OBVIOUS
  <2>4. pc \in [Actors -> PcStates]
    BY DEF PcStates
  <2>5. id \in [Callers -> 0 .. MaxTriggers]
    BY <2>2
  <2>6. worker \in [Ids -> WorkerStates]
    BY DEF WorkerStates
  <2> QED
    BY <2>1, <2>2, <2>3, <2>4, <2>5, <2>6 DEF TypeOK
<1>2. MutexProtectsThread /\ StoppedMeansNoThread
  BY DEF MutexProtectsThread, StoppedMeansNoThread
<1>3. SingleWorker /\ CallbackHoldsMutex /\ CallbackIsLatest
  BY DEF SingleWorker, CallbackHoldsMutex, CallbackIsLatest
<1>4. ActorStates /\ IssuedIds /\ DoneMeansNoSpawn
  BY DEF ActorStates, IssuedIds, DoneMeansNoSpawn
<1> QED
  BY <1>1, <1>2, <1>3, <1>4 DEF TriggerInv

(* Every step of the specification preserves the inductive invariant. *)
LEMMA TriggerInvNext == TriggerInv /\ [Next]_vars => TriggerInv'
<1> SUFFICES ASSUME TriggerInv, [Next]_vars PROVE TriggerInv'
  OBVIOUS
<1> USE MaxTriggersAssumption, ActorsAssumption
<1> USE DEF TriggerInv, TypeOK, MutexProtectsThread, StoppedMeansNoThread,
        SingleWorker, CallbackHoldsMutex, CallbackIsLatest, ActorStates,
        IssuedIds, DoneMeansNoSpawn, Ids, Actors, Alive, PcStates, WorkerStates
<1>1. ASSUME NEW c \in Callers, incrementCounter(c) PROVE TriggerInv'
  BY <1>1 DEF incrementCounter
<1>2. CASE destroy
  BY <1>2 DEF destroy
<1>3. ASSUME NEW a \in Actors, LockAndNotify(a) PROVE TriggerInv'
  BY <1>3 DEF LockAndNotify, NotifiedByLock
<1>4. ASSUME NEW a \in Actors, Join(a) PROVE TriggerInv'
  BY <1>4 DEF Join, MayStopJoining
<1>5. ASSUME NEW c \in Callers, isDestroyed(c) PROVE TriggerInv'
  BY <1>5 DEF isDestroyed
<1>6. ASSUME NEW c \in Callers, Spawn(c) PROVE TriggerInv'
  BY <1>6 DEF Spawn
<1>7. ASSUME NEW i \in Ids, StartWaiting(i) PROVE TriggerInv'
  BY <1>7 DEF StartWaiting, Cancelled
<1>8. ASSUME NEW i \in Ids, WakeUp(i) PROVE TriggerInv'
  BY <1>8 DEF WakeUp, Cancelled
<1>9. ASSUME NEW i \in Ids, Timeout(i) PROVE TriggerInv'
  <2>1. CASE Cancelled(i)
    BY <1>9, <2>1 DEF Timeout
  <2>2. CASE ~Cancelled(i)
    <3>1. /\ worker' = [worker EXCEPT ![i] = "callback"]
          /\ cvMutex = 0
          /\ cvMutex' = i
          /\ worker[i] = "waiting"
          /\ i = mCounter
          /\ ~mDestroyed
          /\ notified' \subseteq Ids
          /\ fired' = fired \cup {i}
          /\ UNCHANGED <<mDestroyed, mCounter, mThread, mThreadMutex, pc, id>>
      BY <1>9, <2>2 DEF Timeout, Cancelled
    <3>2. TypeOK'
      BY <3>1
    <3>3. /\ MutexProtectsThread' /\ StoppedMeansNoThread'
          /\ ActorStates' /\ DoneMeansNoSpawn'
      BY <3>1
    <3>4. SingleWorker' /\ CallbackHoldsMutex' /\ CallbackIsLatest'
      BY <3>1
    <3>5. IssuedIds'
      BY <3>1
    <3> QED
      BY <3>2, <3>3, <3>4, <3>5
  <2> QED
    BY <2>1, <2>2
<1>10. ASSUME NEW i \in Ids, CallbackReturns(i) PROVE TriggerInv'
  BY <1>10 DEF CallbackReturns
<1>11. CASE UNCHANGED vars
  BY <1>11 DEF vars
<1> QED
  BY <1>1, <1>2, <1>3, <1>4, <1>5, <1>6, <1>7, <1>8, <1>9, <1>10, <1>11
  DEF Next, CallerStep, DestructorStep, WorkerStep

(* The inductive invariant holds in every reachable state. *)
THEOREM TriggerInvHolds == Spec => []TriggerInv
  BY TriggerInvInit, TriggerInvNext, PTL DEF Spec

-----------------------------------------------------------------------------
(* Types: no call sequence takes the counters, the mutexes or the thread    *)
(* states out of their domains.                                             *)
THEOREM TriggerTypeCorrect == Spec => []TypeOK
<1>1. TriggerInv => TypeOK
  BY DEF TriggerInv
<1> QED
  BY <1>1, TriggerInvHolds, PTL

(* At most one worker is alive at a time and it is the one mThread holds,   *)
(* for any number of threads that trigger concurrently.                     *)
THEOREM SingleWorkerHolds == Spec => []SingleWorker
<1>1. TriggerInv => SingleWorker
  BY DEF TriggerInv
<1> QED
  BY <1>1, TriggerInvHolds, PTL

(* A callback that runs belongs to the latest call and never overlaps the   *)
(* destructor.                                                              *)
THEOREM CallbackIsLatestHolds == Spec => []CallbackIsLatest
<1>1. TriggerInv => CallbackIsLatest
  BY DEF TriggerInv
<1> QED
  BY <1>1, TriggerInvHolds, PTL

(* After the destructor no worker exists: the comment in                    *)
(* triggerDeferredSingleShot about a thread spawned after the destructor.   *)
THEOREM NothingAfterDestructorHolds == Spec => []NothingAfterDestructor
<1>1. TriggerInv => NothingAfterDestructor
  <2> SUFFICES ASSUME TriggerInv, pc[Destructor] = "done"
               PROVE  mThread = 0 /\ \A i \in Ids : ~Alive(i)
    BY DEF NothingAfterDestructor
  <2>1. mThread = 0
    BY DEF TriggerInv, DoneMeansNoSpawn
  <2>2. \A i \in Ids : ~Alive(i)
    BY <2>1, MaxTriggersAssumption DEF TriggerInv, SingleWorker, Ids
  <2> QED
    BY <2>1, <2>2
<1> QED
  BY <1>1, TriggerInvHolds, PTL

(* Callbacks start in the order of the calls: a worker that fires carries   *)
(* the value of mCounter, which bounds every id that has fired.             *)
THEOREM FiresInOrderHolds == Spec => FiresInOrder
<1> DEFINE Ordered == \A i \in fired' \ fired : \A j \in fired : j < i
<1>1. TriggerInv /\ [Next]_vars => [Ordered]_vars
  <2> SUFFICES ASSUME TriggerInv, Next PROVE Ordered
    BY DEF vars
  <2>1. CASE fired' = fired
    BY <2>1
  <2>2. ASSUME NEW i \in Ids, Timeout(i) PROVE Ordered
    <3> SUFFICES ASSUME NEW k \in fired' \ fired, NEW j \in fired PROVE j < k
      OBVIOUS
    <3>1. k = i /\ k = mCounter
      BY <2>2 DEF Timeout, Cancelled
    <3>2. j <= mCounter /\ j # k /\ j \in Ids
      BY DEF TriggerInv, IssuedIds, TypeOK
    <3> QED
      BY <3>1, <3>2, MaxTriggersAssumption DEF Ids
  <2> QED
    BY <2>1, <2>2
    DEF Next, CallerStep, DestructorStep, WorkerStep, incrementCounter, destroy,
        LockAndNotify, Join, isDestroyed, Spawn, StartWaiting, WakeUp,
        CallbackReturns
<1> QED
  BY <1>1, TriggerInvHolds, PTL DEF Spec, FiresInOrder

-----------------------------------------------------------------------------
ShellStep(s) ==
    \/ ListenerThread(s) \/ MainThread(s) \/ TypeLine(s)
    \/ RetryConnections(s) \/ FailureForgotten(s) \/ sigint_handler(s)
    \/ ShellDies(s)

-----------------------------------------------------------------------------
(* The trigger within the system *)

(* Whatever a shell does, the server's memory stays as it is. *)
LEMMA ShellKeepsServer ==
  ASSUME NEW s \in Shells, ShellStep(s)
  PROVE  UNCHANGED serverState
BY DEF ShellStep, ListenerThread, MainThread, TypeLine, RetryConnections,
       FailureForgotten, sigint_handler, ShellDies, ReadState,
       listenToStateChanges, registerForStateChanges, JoinAndRegister,
       WaitForServer, LeaveLoop, ShellEnds, ProcessLine, LoginPassword,
       NewPassword, ConfirmPassword, Exit, LocalLine, isserverloggedin,
       AccountLine, ConfirmLine, SentLine

LEMMA TriggerSteps ==
  ASSUME ServerNext
  PROVE  [Next]_vars
<1>1. CASE UNCHANGED vars
  BY <1>1
<1>2. ASSUME NEW i \in Ids, verifySharedFolders(i) \/ VerificationReturns(i)
      PROVE  [Next]_vars
  BY <1>2 DEF verifySharedFolders, VerificationReturns, Next, WorkerStep
<1>3. CASE TriggerStep
  BY <1>3 DEF TriggerStep, Next, CallerStep, WorkerStep
<1> QED
  BY <1>1, <1>2, <1>3 DEF ServerNext

(* The system is one of the trigger's environments: to the trigger every    *)
(* step of the server and of the shells is a step of its own or none.  What *)
(* has been proved of DeferredSingleTrigger alone therefore holds of the    *)
(* trigger the executer uses, with its callback verifySharedFolders.        *)
THEOREM SystemImplementsTrigger == SystemSpec => Spec
<1>1. SystemInit => Init
  BY DEF SystemInit, ServerInit
<1>2. SystemNext => [Next]_vars
  <2>1. ServerNext => [Next]_vars
    BY TriggerSteps
  <2>2. ASSUME NEW s \in Shells, ShellStep(s) PROVE [Next]_vars
    BY <2>2, ShellKeepsServer DEF serverState
  <2>3. ServerDies => [Next]_vars
    BY DEF ServerDies
  <2> QED
    BY <2>1, <2>2, <2>3 DEF SystemNext, ShellStep
<1>3. UNCHANGED systemVars => UNCHANGED vars
  BY DEF systemVars
<1> QED
  BY <1>1, <1>2, <1>3, PTL DEF SystemSpec, Spec

(* A running verification of shared folders belongs to the latest login,    *)
(* whatever else the server and the shells do meanwhile.                    *)
THEOREM SystemCallbackIsLatest == SystemSpec => []CallbackIsLatest
  BY SystemImplementsTrigger, CallbackIsLatestHolds, PTL

-----------------------------------------------------------------------------
(* The invariant of the passwords *)

ShellFields ==
    {"pc", "back", "listener", "mStopListener", "mUpdating",
     "mRegisterRequired", "recentFailure", "refused", "prompt", "line",
     "answer", "loginname", "signingup", "confirminglink",
     "confirmingcancellink", "newpasswd", "asked", "dynamicprompt", "clientID",
     "lastMessage", "handler", "doExit", "doReboot"}

ShellShape(me) == DOMAIN me = ShellFields
SentShape(told) == DOMAIN told = {"name", "asked", "abandoned"}

(* What is asked for fits the prompt. *)
PromptFits(me) ==
    /\ me.prompt = "COMMAND" => me.asked = "none"
    /\ me.prompt = "LOGINPASSWORD" =>
          me.asked \in {"login", "confirm", "confirmcancel"}
    /\ me.prompt \in {"NEWPASSWORD", "PASSWORDCONFIRM"} =>
          me.asked \in {"signup", "passwd"}
    /\ me.prompt \in {"COMMAND", "LOGINPASSWORD", "NEWPASSWORD", "PASSWORDCONFIRM"}

(* The flag of the command that is asked for is up, and a flag that is up   *)
(* for no such reason was left by a command that was given up.              *)
FlagFits(flag, name, me, abandoned) ==
    /\ me.asked = name => flag
    /\ flag => me.asked = name \/ name \in abandoned

FlagsFit(me, abandoned) ==
    /\ FlagFits(me.signingup, "signup", me, abandoned)
    /\ FlagFits(me.confirminglink, "confirm", me, abandoned)
    /\ FlagFits(me.confirmingcancellink, "confirmcancel", me, abandoned)

SentAsAsked(told) ==
    told.asked # "none" => told.name \in {told.asked} \cup told.abandoned

PasswordInv ==
    /\ DOMAIN shell = Shells
    /\ DOMAIN sent = Shells
    /\ \A s \in Shells :
          /\ ShellShape(shell[s])
          /\ SentShape(sent[s])
          /\ PromptFits(shell[s])
          /\ FlagsFit(shell[s], sent[s].abandoned)
          /\ SentAsAsked(sent[s])

LEMMA FreshFits ==
  /\ ShellShape(FreshShell)
  /\ PromptFits(FreshShell)
  /\ \A abandoned : FlagsFit(FreshShell, abandoned)
BY DEF FreshShell, ShellShape, ShellFields, PromptFits, FlagsFit, FlagFits

LEMMA InitPassword == SystemInit => PasswordInv
<1> SUFFICES ASSUME SystemInit PROVE PasswordInv
  OBVIOUS
<1>1. DOMAIN shell = Shells /\ DOMAIN sent = Shells
  BY DEF SystemInit
<1>2. ASSUME NEW s \in Shells
      PROVE  /\ ShellShape(shell[s])
             /\ PromptFits(shell[s])
             /\ FlagsFit(shell[s], sent[s].abandoned)
  <2>1. shell[s] = FreshShell \/ shell[s] = [FreshShell EXCEPT !.pc = "exited"]
    BY DEF SystemInit
  <2>2. CASE shell[s] = FreshShell
    BY <2>2, FreshFits
  <2>3. CASE shell[s] = [FreshShell EXCEPT !.pc = "exited"]
    BY <2>3 DEF FreshShell, ShellShape, ShellFields, PromptFits, FlagsFit, FlagFits
  <2> QED
    BY <2>1, <2>2, <2>3
<1>3. ASSUME NEW s \in Shells PROVE SentShape(sent[s]) /\ SentAsAsked(sent[s])
  BY DEF SystemInit, Nothing, SentShape, SentAsAsked
<1> QED
  BY <1>1, <1>2, <1>3 DEF PasswordInv

(* Only shell s, and what was sent for it, may change. *)
OnlyShell(s) ==
    /\ DOMAIN shell' = Shells
    /\ DOMAIN sent' = Shells
    /\ \A u \in Shells \ {s} : shell'[u] = shell[u] /\ sent'[u] = sent[u]

(* One shell's record that agrees with another on what concerns passwords. *)
SamePasswords(me, old) ==
    /\ ShellShape(me)
    /\ me.prompt = old.prompt
    /\ me.asked = old.asked
    /\ me.signingup = old.signingup
    /\ me.confirminglink = old.confirminglink
    /\ me.confirmingcancellink = old.confirmingcancellink

LEMMA OneShell ==
  ASSUME PasswordInv, NEW s \in Shells, OnlyShell(s),
         ShellShape(shell'[s]), PromptFits(shell'[s]),
         FlagsFit(shell'[s], sent'[s].abandoned),
         SentShape(sent'[s]), SentAsAsked(sent'[s])
  PROVE  PasswordInv'
<1>1. ASSUME NEW u \in Shells
      PROVE  /\ ShellShape(shell'[u]) /\ SentShape(sent'[u])
             /\ PromptFits(shell'[u])
             /\ FlagsFit(shell'[u], sent'[u].abandoned)
             /\ SentAsAsked(sent'[u])
  <2>1. CASE u = s
    BY <2>1
  <2>2. CASE u # s
    <3>1. shell'[u] = shell[u] /\ sent'[u] = sent[u]
      BY <2>2 DEF OnlyShell
    <3> QED
      BY <3>1 DEF PasswordInv
  <2> QED
    BY <2>1, <2>2
<1>2. DOMAIN shell' = Shells /\ DOMAIN sent' = Shells
  BY DEF OnlyShell
<1> QED
  BY <1>1, <1>2, Zenon DEF PasswordInv

(* Steps that have nothing to do with passwords. *)
LEMMA NotAboutPasswords ==
  ASSUME PasswordInv, NEW s \in Shells, OnlyShell(s),
         SamePasswords(shell'[s], shell[s]),
         SentShape(sent'[s]), SentAsAsked(sent'[s]),
         sent'[s].abandoned = sent[s].abandoned
  PROVE  PasswordInv'
<1>1. PromptFits(shell[s]) /\ FlagsFit(shell[s], sent[s].abandoned)
  BY DEF PasswordInv
<1>2. PromptFits(shell'[s]) /\ FlagsFit(shell'[s], sent'[s].abandoned)
  BY <1>1 DEF SamePasswords, PromptFits, FlagsFit, FlagFits
<1> QED
  BY <1>2, OneShell DEF SamePasswords

(* A command is sent: what for, is judged by its name. *)
LEMMA CommandSent ==
  ASSUME PasswordInv, NEW s \in Shells, NEW name, executeCommand(s, name),
         shell[s].asked # "none" =>
             name \in {shell[s].asked} \cup sent[s].abandoned
  PROVE  /\ DOMAIN sent' = Shells
         /\ \A u \in Shells \ {s} : sent'[u] = sent[u]
         /\ SentShape(sent'[s])
         /\ SentAsAsked(sent'[s])
         /\ sent'[s].abandoned = sent[s].abandoned
<1>1. \/ sent' = sent
      \/ sent' = [sent EXCEPT ![s] = [name |-> name, asked |-> shell[s].asked,
                                      abandoned |-> sent[s].abandoned]]
  BY DEF executeCommand
<1>2. DOMAIN sent = Shells /\ SentShape(sent[s]) /\ SentAsAsked(sent[s])
  BY DEF PasswordInv
<1>3. CASE sent' = sent
  BY <1>2, <1>3
<1>4. CASE sent' = [sent EXCEPT ![s] = [name |-> name, asked |-> shell[s].asked,
                                        abandoned |-> sent[s].abandoned]]
  BY <1>2, <1>4 DEF SentShape, SentAsAsked
<1> QED
  BY <1>1, <1>3, <1>4

(* The line has been processed: only pc and answer change after that. *)
LEMMA LineProcessed ==
  ASSUME PasswordInv, NEW s \in Shells, NEW me, ShellShape(me), Processed(s, me)
  PROVE  /\ DOMAIN shell' = Shells
         /\ \A u \in Shells \ {s} : shell'[u] = shell[u]
         /\ SamePasswords(shell'[s], me)
BY DEF PasswordInv, Processed, ShellShape, ShellFields, SamePasswords

LEMMA RegistersAgain ==
  ASSUME NEW me, ShellShape(me)
  PROVE  SamePasswords(setForRegisterAgain(me), me)
BY DEF setForRegisterAgain, ShellShape, ShellFields, SamePasswords

(* The steps of a shell that process no line. *)
LEMMA OtherStepsPassword ==
  ASSUME PasswordInv, NEW s \in Shells,
         \/ ListenerThread(s) \/ registerForStateChanges(s) \/ JoinAndRegister(s)
         \/ WaitForServer(s) \/ LeaveLoop(s) \/ ShellEnds(s) \/ TypeLine(s)
         \/ RetryConnections(s) \/ FailureForgotten(s) \/ sigint_handler(s)
         \/ ShellDies(s)
  PROVE  PasswordInv'
<1>1. /\ DOMAIN shell = Shells /\ DOMAIN sent = Shells
      /\ ShellShape(shell[s]) /\ SentShape(sent[s])
      /\ PromptFits(shell[s]) /\ FlagsFit(shell[s], sent[s].abandoned)
      /\ SentAsAsked(sent[s])
  BY DEF PasswordInv
<1>2. CASE sent' = sent /\ OnlyShell(s) /\ SamePasswords(shell'[s], shell[s])
  BY <1>1, <1>2, NotAboutPasswords
<1>3. CASE sent' = sent /\ OnlyShell(s)
           /\ (shell'[s] = FreshShell \/ shell'[s] = [FreshShell EXCEPT !.pc = "exited"])
  <2>1. CASE shell'[s] = FreshShell
    BY <1>1, <1>3, <2>1, FreshFits, OneShell
  <2>2. CASE shell'[s] = [FreshShell EXCEPT !.pc = "exited"]
    <3>1. /\ ShellShape(shell'[s])
          /\ PromptFits(shell'[s])
          /\ FlagsFit(shell'[s], sent'[s].abandoned)
      BY <2>2 DEF FreshShell, ShellShape, ShellFields, PromptFits, FlagsFit, FlagFits
    <3> QED
      BY <1>1, <1>3, <3>1, OneShell
  <2> QED
    BY <1>3, <2>1, <2>2
<1>4. CASE ReadState(s)
  <2>1. sent' = sent /\ shell' = [shell EXCEPT ![s] = Handled(@, Head(inbox[s]))]
    BY <1>4 DEF ReadState
  <2>2. OnlyShell(s) /\ SamePasswords(shell'[s], shell[s])
    BY <1>1, <2>1
    DEF OnlyShell, Handled, PromptChanged, ShellShape, ShellFields, SamePasswords
  <2> QED
    BY <1>2, <2>1, <2>2
<1>5. CASE listenToStateChanges(s)
  BY <1>1, <1>2, <1>5 DEF listenToStateChanges, ListenerEnded, OnlyShell,
     ShellShape, ShellFields, SamePasswords
<1>6. CASE registerForStateChanges(s)
  BY <1>1, <1>2, <1>6 DEF registerForStateChanges, OnlyShell, ShellShape,
     ShellFields, SamePasswords
<1>7. CASE JoinAndRegister(s)
  BY <1>1, <1>2, <1>7 DEF JoinAndRegister, Registered, OnlyShell, ShellShape,
     ShellFields, SamePasswords
<1>8. CASE WaitForServer(s)
  BY <1>1, <1>2, <1>8 DEF WaitForServer, OnlyShell, ShellShape, ShellFields,
     SamePasswords
<1>9. CASE LeaveLoop(s)
  BY <1>1, <1>2, <1>9 DEF LeaveLoop, OnlyShell, ShellShape, ShellFields,
     SamePasswords
<1>10. CASE ShellEnds(s)
  BY <1>1, <1>3, <1>10 DEF ShellEnds, OnlyShell
<1>11. CASE TypeLine(s)
  BY <1>1, <1>2, <1>11 DEF TypeLine, OnlyShell, ShellShape, ShellFields,
     SamePasswords
<1>12. CASE RetryConnections(s)
  <2>1. sent' = sent /\ shell' = [shell EXCEPT ![s] = setForRegisterAgain(@)]
    BY <1>12 DEF RetryConnections
  <2>2. OnlyShell(s) /\ SamePasswords(shell'[s], shell[s])
    BY <1>1, <2>1, RegistersAgain DEF OnlyShell
  <2> QED
    BY <1>2, <2>1, <2>2
<1>13. CASE FailureForgotten(s)
  BY <1>1, <1>2, <1>13 DEF FailureForgotten, OnlyShell, ShellShape, ShellFields,
     SamePasswords
<1>14. CASE sigint_handler(s)
  <2>1. /\ shell' = [shell EXCEPT ![s].prompt = "COMMAND", ![s].asked = "none"]
        /\ sent' = [sent EXCEPT ![s].abandoned = @ \cup {shell[s].asked}]
    BY <1>14 DEF sigint_handler, Abandon
  <2>2. OnlyShell(s) /\ ShellShape(shell'[s]) /\ SentShape(sent'[s])
    BY <1>1, <2>1 DEF OnlyShell, ShellShape, ShellFields, SentShape
  <2>3. PromptFits(shell'[s]) /\ FlagsFit(shell'[s], sent'[s].abandoned)
    BY <1>1, <2>1
    DEF ShellShape, ShellFields, SentShape, PromptFits, FlagsFit, FlagFits
  <2>4. SentAsAsked(sent'[s])
    BY <1>1, <2>1 DEF SentShape, SentAsAsked
  <2> QED
    BY <2>2, <2>3, <2>4, OneShell
<1>15. CASE ShellDies(s)
  BY <1>1, <1>3, <1>15 DEF ShellDies, OnlyShell
<1> QED
  BY <1>4, <1>5, <1>6, <1>7, <1>8, <1>9, <1>10, <1>11, <1>12, <1>13, <1>14, <1>15
  DEF ListenerThread

(* A password that is entered is sent with what it was asked for. *)
LEMMA LoginPasswordStep ==
  ASSUME PasswordInv, NEW s \in Shells, LoginPassword(s)
  PROVE  PasswordInv'
<1> DEFINE name == IF shell[s].confirminglink THEN "confirm"
                   ELSE IF shell[s].confirmingcancellink THEN "confirmcancel"
                   ELSE "login"
           me == setForRegisterAgain(PasswordTaken(shell[s]))
<1>1. /\ ShellShape(shell[s]) /\ PromptFits(shell[s])
      /\ FlagsFit(shell[s], sent[s].abandoned)
  BY DEF PasswordInv
<1>2. executeCommand(s, name) /\ Processed(s, me) /\ shell[s].prompt = "LOGINPASSWORD"
  BY DEF LoginPassword, Asking
<1>3. name \in {shell[s].asked} \cup sent[s].abandoned
  BY <1>1, <1>2 DEF PromptFits, FlagsFit, FlagFits
<1>4. ShellShape(PasswordTaken(shell[s])) /\ ShellShape(me)
      /\ SamePasswords(me, PasswordTaken(shell[s]))
  <2>1. ShellShape(PasswordTaken(shell[s]))
    BY <1>1 DEF PasswordTaken, ShellShape, ShellFields
  <2> QED
    BY <2>1, RegistersAgain DEF SamePasswords
<1> HIDE DEF name, me
<1>5. /\ DOMAIN sent' = Shells /\ \A u \in Shells \ {s} : sent'[u] = sent[u]
      /\ SentShape(sent'[s]) /\ SentAsAsked(sent'[s])
      /\ sent'[s].abandoned = sent[s].abandoned
  BY <1>2, <1>3, CommandSent
<1>6. /\ DOMAIN shell' = Shells /\ \A u \in Shells \ {s} : shell'[u] = shell[u]
      /\ SamePasswords(shell'[s], me)
  BY <1>2, <1>4, LineProcessed
<1>7. SamePasswords(shell'[s], PasswordTaken(shell[s]))
  BY <1>4, <1>6 DEF SamePasswords
<1>8. PromptFits(shell'[s]) /\ FlagsFit(shell'[s], sent'[s].abandoned)
  <2>1. /\ shell'[s].prompt = "COMMAND"
        /\ shell'[s].asked = "none"
        /\ shell'[s].signingup = shell[s].signingup
        /\ shell'[s].confirminglink = FALSE
        /\ shell'[s].confirmingcancellink = FALSE
    BY <1>1, <1>7 DEF SamePasswords, PasswordTaken, ShellShape, ShellFields
  <2>2. shell[s].asked # "signup"
    BY <1>1, <1>2 DEF PromptFits
  <2> QED
    BY <1>1, <1>5, <2>1, <2>2 DEF PromptFits, FlagsFit, FlagFits
<1> QED
  BY <1>5, <1>6, <1>7, <1>8, OneShell DEF OnlyShell, SamePasswords

LEMMA ConfirmPasswordStep ==
  ASSUME PasswordInv, NEW s \in Shells, ConfirmPassword(s)
  PROVE  PasswordInv'
<1>1. /\ ShellShape(shell[s]) /\ PromptFits(shell[s])
      /\ FlagsFit(shell[s], sent[s].abandoned)
      /\ SentShape(sent[s]) /\ SentAsAsked(sent[s])
      /\ DOMAIN shell = Shells /\ DOMAIN sent = Shells
      /\ shell[s].prompt = "PASSWORDCONFIRM"
  BY DEF PasswordInv, ConfirmPassword, Asking
<1>2. CASE Line(s).word # shell[s].newpasswd
  <2> DEFINE me == [shell[s] EXCEPT !.prompt = "COMMAND", !.asked = "none"]
  <2>1. Processed(s, me) /\ sent' = [sent EXCEPT ![s].abandoned = @ \cup {shell[s].asked}]
    BY <1>2 DEF ConfirmPassword, Abandon
  <2>2. ShellShape(me)
    BY <1>1 DEF ShellShape, ShellFields
  <2>3. /\ DOMAIN shell' = Shells /\ \A u \in Shells \ {s} : shell'[u] = shell[u]
        /\ SamePasswords(shell'[s], me)
    <3> HIDE DEF me
    <3> QED
      BY <2>1, <2>2, LineProcessed
  <2>4. PromptFits(shell'[s]) /\ FlagsFit(shell'[s], sent'[s].abandoned)
    BY <1>1, <2>1, <2>3
    DEF SamePasswords, ShellShape, ShellFields, SentShape, PromptFits, FlagsFit,
        FlagFits
  <2>5. /\ SentShape(sent'[s]) /\ SentAsAsked(sent'[s]) /\ DOMAIN sent' = Shells
        /\ \A u \in Shells \ {s} : sent'[u] = sent[u]
    BY <1>1, <2>1 DEF SentShape, SentAsAsked
  <2> QED
    BY <2>3, <2>4, <2>5, OneShell DEF OnlyShell, SamePasswords
<1>3. CASE ~(Line(s).word # shell[s].newpasswd)
  <2> DEFINE name == IF shell[s].signingup THEN "signup" ELSE "passwd"
             again == setForRegisterAgain(shell[s])
             me == [again EXCEPT !.prompt = "COMMAND", !.asked = "none",
                                 !.signingup = FALSE]
  <2>1. executeCommand(s, name) /\ Processed(s, me)
    BY <1>3 DEF ConfirmPassword
  <2>2. name \in {shell[s].asked} \cup sent[s].abandoned
    BY <1>1 DEF PromptFits, FlagsFit, FlagFits
  <2>3. SamePasswords(again, shell[s])
    BY <1>1, RegistersAgain
  <2> HIDE DEF name, again
  <2>4. ShellShape(me)
    BY <2>3 DEF SamePasswords, ShellShape, ShellFields
  <2>5. /\ DOMAIN sent' = Shells /\ \A u \in Shells \ {s} : sent'[u] = sent[u]
        /\ SentShape(sent'[s]) /\ SentAsAsked(sent'[s])
        /\ sent'[s].abandoned = sent[s].abandoned
    BY <2>1, <2>2, CommandSent
  <2>6. /\ DOMAIN shell' = Shells /\ \A u \in Shells \ {s} : shell'[u] = shell[u]
        /\ SamePasswords(shell'[s], me)
    <3> HIDE DEF me
    <3> QED
      BY <2>1, <2>4, LineProcessed
  <2>7. PromptFits(shell'[s]) /\ FlagsFit(shell'[s], sent'[s].abandoned)
    BY <1>1, <2>3, <2>5, <2>6
    DEF SamePasswords, ShellShape, ShellFields, PromptFits, FlagsFit, FlagFits
  <2> QED
    BY <2>5, <2>6, <2>7, OneShell DEF OnlyShell, SamePasswords
<1> QED
  BY <1>2, <1>3

(* A line whose command was not asked a password for. *)
LEMMA CommandLineStep ==
  ASSUME PasswordInv, NEW s \in Shells, NEW me, shell[s].prompt = "COMMAND",
         SamePasswords(me, shell[s]), Processed(s, me),
         \/ sent' = sent
         \/ \E name : executeCommand(s, name)
  PROVE  PasswordInv'
<1>1. /\ DOMAIN sent = Shells /\ SentShape(sent[s]) /\ SentAsAsked(sent[s])
      /\ shell[s].asked = "none"
  BY DEF PasswordInv, PromptFits
<1>2. /\ DOMAIN sent' = Shells /\ \A u \in Shells \ {s} : sent'[u] = sent[u]
      /\ SentShape(sent'[s]) /\ SentAsAsked(sent'[s])
      /\ sent'[s].abandoned = sent[s].abandoned
  <2>1. CASE sent' = sent
    BY <1>1, <2>1
  <2>2. ASSUME NEW name, executeCommand(s, name)
        PROVE  /\ DOMAIN sent' = Shells /\ \A u \in Shells \ {s} : sent'[u] = sent[u]
               /\ SentShape(sent'[s]) /\ SentAsAsked(sent'[s])
               /\ sent'[s].abandoned = sent[s].abandoned
    BY <1>1, <2>2, CommandSent
  <2> QED
    BY <2>1, <2>2
<1>3. ShellShape(me)
  BY DEF SamePasswords
<1>4. /\ DOMAIN shell' = Shells /\ \A u \in Shells \ {s} : shell'[u] = shell[u]
      /\ SamePasswords(shell'[s], me)
  BY <1>3, LineProcessed
<1>5. SamePasswords(shell'[s], shell[s])
  BY <1>4 DEF SamePasswords
<1> QED
  BY <1>2, <1>4, <1>5, NotAboutPasswords DEF OnlyShell

(* A line that makes the shell ask for a password. *)
LEMMA AskingStep ==
  ASSUME PasswordInv, NEW s \in Shells, NEW me, shell[s].prompt = "COMMAND",
         sent' = sent, Processed(s, me), ShellShape(me), PromptFits(me),
         FlagsFit(me, sent[s].abandoned)
  PROVE  PasswordInv'
<1>1. /\ DOMAIN sent = Shells /\ SentShape(sent[s]) /\ SentAsAsked(sent[s])
  BY DEF PasswordInv
<1>2. /\ DOMAIN shell' = Shells /\ \A u \in Shells \ {s} : shell'[u] = shell[u]
      /\ SamePasswords(shell'[s], me)
  BY LineProcessed
<1>3. PromptFits(shell'[s]) /\ FlagsFit(shell'[s], sent'[s].abandoned)
  BY <1>2 DEF SamePasswords, PromptFits, FlagsFit, FlagFits
<1> QED
  BY <1>1, <1>2, <1>3, OneShell DEF OnlyShell, SamePasswords

LEMMA ProcessLinePassword ==
  ASSUME PasswordInv, NEW s \in Shells, ProcessLine(s)
  PROVE  PasswordInv'
<1>1. /\ DOMAIN shell = Shells /\ DOMAIN sent = Shells
      /\ ShellShape(shell[s]) /\ SentShape(sent[s])
      /\ PromptFits(shell[s]) /\ FlagsFit(shell[s], sent[s].abandoned)
      /\ SentAsAsked(sent[s])
  BY DEF PasswordInv
<1>2. /\ SamePasswords(shell[s], shell[s])
      /\ SamePasswords(setForRegisterAgain(shell[s]), shell[s])
  BY <1>1, RegistersAgain DEF SamePasswords
<1>3. CASE LoginPassword(s) \/ ConfirmPassword(s)
  BY <1>3, LoginPasswordStep, ConfirmPasswordStep
<1>4. CASE NewPassword(s)
  <2> DEFINE me == [shell[s] EXCEPT !.newpasswd = Line(s).word,
                                    !.prompt = "PASSWORDCONFIRM"]
  <2>1. Processed(s, me) /\ sent' = sent /\ shell[s].prompt = "NEWPASSWORD"
    BY <1>4 DEF NewPassword, Asking
  <2>2. ShellShape(me)
    BY <1>1 DEF ShellShape, ShellFields
  <2>3. PromptFits(me) /\ FlagsFit(me, sent[s].abandoned)
    BY <1>1, <2>1 DEF ShellShape, ShellFields, PromptFits, FlagsFit, FlagFits
  <2> HIDE DEF me
  <2>4. /\ DOMAIN shell' = Shells /\ \A u \in Shells \ {s} : shell'[u] = shell[u]
        /\ SamePasswords(shell'[s], me)
    BY <2>1, <2>2, LineProcessed
  <2>5. PromptFits(shell'[s]) /\ FlagsFit(shell'[s], sent'[s].abandoned)
    BY <2>1, <2>3, <2>4 DEF SamePasswords, PromptFits, FlagsFit, FlagFits
  <2> QED
    BY <1>1, <2>1, <2>4, <2>5, OneShell DEF OnlyShell, SamePasswords
<1>5. CASE Exit(s)
  <2> DEFINE me == [shell[s] EXCEPT !.doExit = @ \/ Line(s).only # "server"]
  <2>1. SamePasswords(me, shell[s])
    BY <1>1 DEF SamePasswords, ShellShape, ShellFields
  <2>2. Processed(s, me) \/ Processed(s, shell[s])
    BY <1>5 DEF Exit
  <2>3. shell[s].prompt = "COMMAND" /\ (sent' = sent \/ \E name : executeCommand(s, name))
    BY <1>5 DEF Exit, Word, Asking
  <2> HIDE DEF me
  <2> QED
    BY <1>2, <2>1, <2>2, <2>3, CommandLineStep
<1>6. CASE LocalLine(s)
  <2>1. Processed(s, shell[s]) /\ shell[s].prompt = "COMMAND" /\ sent' = sent
    BY <1>6 DEF LocalLine, Word, Asking
  <2> QED
    BY <1>2, <2>1, CommandLineStep
<1>7. CASE isserverloggedin(s)
  <2>1. PICK ok \in BOOLEAN :
          shell' = [shell EXCEPT ![s] =
              [setForRegisterAgain(@) EXCEPT
                  !.answer = IF ok /\ ~loggedIn THEN "no" ELSE "yes"]]
    BY <1>7 DEF isserverloggedin
  <2>2. sent' = sent
    BY <1>7 DEF isserverloggedin
  <2>3. OnlyShell(s) /\ SamePasswords(shell'[s], shell[s])
    BY <1>1, <1>2, <2>1, <2>2 DEF OnlyShell, SamePasswords, ShellShape, ShellFields
  <2> QED
    BY <1>1, <2>2, <2>3, NotAboutPasswords
<1>8. CASE AccountLine(s)
  <2> DEFINE me == shell[s]
             name == me.line.word
             asking == IF name = "login"
                       THEN Ask(me, "LOGINPASSWORD", name)
                       ELSE [Ask(me, "NEWPASSWORD", name) EXCEPT
                                !.signingup = @ \/ name = "signup"]
  <2>1. /\ shell[s].prompt = "COMMAND"
        /\ name \in {"passwd", "login", "signup"}
        /\ \/ Processed(s, me) /\ sent' = sent
           \/ executeCommand(s, name) /\ Processed(s, setForRegisterAgain(me))
           \/ Processed(s, asking) /\ sent' = sent
    BY <1>8 DEF AccountLine, Word, Asking, Line
  <2>2. ShellShape(asking)
    BY <1>1 DEF Ask, ShellShape, ShellFields
  <2>3. PromptFits(asking)
    BY <1>1, <2>1 DEF Ask, ShellShape, ShellFields, PromptFits
  <2>4. FlagsFit(asking, sent[s].abandoned)
    BY <1>1, <2>1 DEF Ask, ShellShape, ShellFields, PromptFits, FlagsFit, FlagFits
  <2> HIDE DEF asking
  <2> QED
    BY <1>2, <2>1, <2>2, <2>3, <2>4, CommandLineStep, AskingStep
<1>9. CASE ConfirmLine(s)
  <2> DEFINE me == shell[s]
             name == me.line.word
             confirm == [Ask(me, "LOGINPASSWORD", name) EXCEPT !.confirminglink = TRUE]
             cancel == [Ask(me, "LOGINPASSWORD", name) EXCEPT
                           !.confirmingcancellink = TRUE]
  <2>1. /\ shell[s].prompt = "COMMAND"
        /\ \/ executeCommand(s, name) /\ Processed(s, setForRegisterAgain(me))
           \/ Processed(s, confirm) /\ sent' = sent /\ name = "confirm"
           \/ Processed(s, cancel) /\ sent' = sent /\ name = "confirmcancel"
    BY <1>9 DEF ConfirmLine, Word, Asking, Line
  <2>2. ASSUME name = "confirm"
        PROVE  ShellShape(confirm) /\ PromptFits(confirm)
               /\ FlagsFit(confirm, sent[s].abandoned)
    BY <1>1, <2>1, <2>2 DEF Ask, ShellShape, ShellFields, PromptFits, FlagsFit, FlagFits
  <2>3. ASSUME name = "confirmcancel"
        PROVE  ShellShape(cancel) /\ PromptFits(cancel)
               /\ FlagsFit(cancel, sent[s].abandoned)
    BY <1>1, <2>1, <2>3 DEF Ask, ShellShape, ShellFields, PromptFits, FlagsFit, FlagFits
  <2> HIDE DEF confirm, cancel
  <2> QED
    BY <1>2, <2>1, <2>2, <2>3, CommandLineStep, AskingStep
<1>10. CASE SentLine(s)
  <2>1. /\ shell[s].prompt = "COMMAND"
        /\ executeCommand(s, Line(s).word) /\ Processed(s, setForRegisterAgain(shell[s]))
    BY <1>10 DEF SentLine, Word, Asking
  <2> QED
    BY <1>2, <2>1, CommandLineStep
<1> QED
  BY <1>3, <1>4, <1>5, <1>6, <1>7, <1>8, <1>9, <1>10 DEF ProcessLine

LEMMA NextPassword == PasswordInv /\ [SystemNext]_systemVars => PasswordInv'
<1>1. ASSUME PasswordInv, UNCHANGED <<shell, sent>> PROVE PasswordInv'
  BY <1>1 DEF PasswordInv
<1>2. ASSUME PasswordInv, NEW s \in Shells, ShellStep(s) PROVE PasswordInv'
  BY <1>2, OtherStepsPassword, ProcessLinePassword DEF ShellStep, MainThread
<1>3. ASSUME ServerDies PROVE UNCHANGED <<shell, sent>>
  BY <1>3 DEF ServerDies
<1>4. ASSUME UNCHANGED systemVars PROVE UNCHANGED <<shell, sent>>
  BY <1>4 DEF systemVars, shellVars
<1>5. ASSUME UNCHANGED shellVars PROVE UNCHANGED <<shell, sent>>
  BY <1>5 DEF shellVars
<1> QED
  BY <1>1, <1>2, <1>3, <1>4, <1>5 DEF SystemNext, ShellStep

(* The password that a user enters for a command is sent with that command, *)
(* or with one that was given up when its password was asked for, however   *)
(* the user goes on after Ctrl-C or after two passwords that differ.        *)
THEOREM PasswordGoesToItsCommandHolds == SystemSpec => []PasswordGoesToItsCommand
<1>1. PasswordInv => PasswordGoesToItsCommand
  BY DEF PasswordInv, PasswordGoesToItsCommand, SentAsAsked
<1> QED
  BY <1>1, InitPassword, NextPassword, PTL DEF SystemSpec

-----------------------------------------------------------------------------
(* Lists that messages are taken out of *)

(* Induction: the theorems of the library take the induction hypothesis as  *)
(* an operator; here it is a set.  A set that were to miss a number would   *)
(* map the numbers below it, one-to-one, into one less of them.             *)
LEMMA Induction ==
  ASSUME NEW T, 0 \in T, \A n \in Nat : n \in T => n + 1 \in T
  PROVE  Nat \subseteq T
<1> SUFFICES ASSUME NEW x \in Nat, x \notin T PROVE FALSE
  OBVIOUS
<1> DEFINE A == {n \in 0 .. x : n \in T}
           B == A \ {0}
           f == [n \in A |-> n + 1]
<1>1. A \in SUBSET (0 .. x) /\ 0 \in A
  OBVIOUS
<1>2. IsFiniteSet(A)
  <2> HIDE DEF A
  <2>1. IsFiniteSet(0 .. x)
    BY FS_Interval
  <2> QED
    BY <1>1, <2>1, FS_Subset
<1>3. f \in [A -> B]
  OBVIOUS
<1>4. Cardinality(B) = Cardinality(A) - 1 /\ IsFiniteSet(B) /\ Cardinality(A) \in Nat
  BY <1>1, <1>2, FS_RemoveElement, FS_CardinalityType
<1>5. PICK m \in A, n \in A : m # n /\ f[m] = f[n]
  <2> HIDE DEF f, A, B
  <2> QED
    BY <1>2, <1>3, <1>4, FS_PigeonHole
<1> QED
  BY <1>5

(* What is left of the first i messages, for every i. *)
IsRest(list, pattern, r) ==
    /\ NotMatching(list, pattern) = r[Len(list)]
    /\ r[0] = <<>>
    /\ \A i \in 1 .. Len(list) :
          r[i] = IF list[i] = pattern THEN r[i - 1] ELSE Append(r[i - 1], list[i])

(* The recursive function in NotMatching exists and is what it says. *)
LEMMA NotMatchingIs ==
  ASSUME NEW S, NEW list \in Seq(S), NEW pattern
  PROVE  \E r \in [0 .. Len(list) -> Seq(S)] : IsRest(list, pattern, r)
<1> DEFINE Item(r, i) == IF list[i] = pattern THEN r[i - 1]
                                              ELSE Append(r[i - 1], list[i])
           Rest(r, n) == r[0] = <<>> /\ \A i \in 1 .. n : r[i] = Item(r, i)
           P(n) == n <= Len(list) => \E r \in [0 .. n -> Seq(S)] : Rest(r, n)
           T == {n \in Nat : P(n)}
<1>1. Nat \subseteq T
  <2>1. 0 \in T
    <3>1. [i \in 0 .. 0 |-> <<>>] \in [0 .. 0 -> Seq(S)]
      OBVIOUS
    <3>2. Rest([i \in 0 .. 0 |-> <<>>], 0)
      OBVIOUS
    <3>3. P(0)
      BY <3>1, <3>2
    <3> HIDE DEF P
    <3> QED
      BY <3>3
  <2>2. ASSUME NEW n \in Nat, n \in T PROVE n + 1 \in T
    <3> SUFFICES ASSUME n + 1 <= Len(list)
                 PROVE  \E r \in [0 .. n + 1 -> Seq(S)] : Rest(r, n + 1)
      <4>1. SUFFICES P(n + 1)
        <5> HIDE DEF P
        <5> QED
          OBVIOUS
      <4> QED
        OBVIOUS
    <3>1. P(n)
      <4> HIDE DEF P
      <4> QED
        BY <2>2
    <3>2. PICK r \in [0 .. n -> Seq(S)] : Rest(r, n)
      <4>1. n <= Len(list)
        OBVIOUS
      <4> HIDE DEF Rest
      <4> QED
        BY <3>1, <4>1
    <3> DEFINE v == IF list[n + 1] = pattern THEN r[n] ELSE Append(r[n], list[n + 1])
               g == [i \in 0 .. n + 1 |-> IF i = n + 1 THEN v ELSE r[i]]
    <3>3. v \in Seq(S)
      OBVIOUS
    <3>4. g \in [0 .. n + 1 -> Seq(S)]
      BY <3>3
    <3>5. g[0] = <<>>
      BY <3>2
    <3>6. ASSUME NEW i \in 1 .. n + 1 PROVE g[i] = Item(g, i)
      <4>1. CASE i = n + 1
        BY <4>1
      <4>2. CASE i # n + 1
        BY <4>2, <3>2
      <4> QED
        BY <4>1, <4>2
    <3> HIDE DEF g
    <3> QED
      BY <3>4, <3>5, <3>6
  <2> HIDE DEF T
  <2> QED
    BY <2>1, <2>2, Induction
<1>2. PICK r \in [0 .. Len(list) -> Seq(S)] : Rest(r, Len(list))
  <2>1. Len(list) \in T
    <3> HIDE DEF T
    <3> QED
      BY <1>1
  <2>2. P(Len(list))
    <3> HIDE DEF P
    <3> QED
      BY <2>1
  <2> QED
    BY <2>2
<1> DEFINE Body(f) == [i \in 0 .. Len(list) |->
                          IF i = 0 THEN <<>>
                          ELSE IF list[i] = pattern THEN f[i - 1]
                          ELSE Append(f[i - 1], list[i])]
           h == CHOOSE f : f = Body(f)
<1>3. r = Body(r)
  <2>1. ASSUME NEW i \in 0 .. Len(list)
        PROVE  r[i] = IF i = 0 THEN <<>>
                      ELSE IF list[i] = pattern THEN r[i - 1]
                      ELSE Append(r[i - 1], list[i])
    <3>1. CASE i = 0
      BY <1>2, <3>1
    <3>2. CASE i # 0
      <4>1. i \in 1 .. Len(list)
        BY <3>2
      <4>2. r[i] = Item(r, i)
        BY <1>2, <4>1
      <4> QED
        BY <4>2, <3>2
    <3> QED
      BY <3>1, <3>2
  <2>2. r = [i \in 0 .. Len(list) |-> r[i]]
    OBVIOUS
  <2> QED
    BY <2>1, <2>2
<1>4. h = Body(h)
  <2> HIDE DEF Body
  <2> QED
    BY <1>3
<1>5. NotMatching(list, pattern) = h[Len(list)]
  BY DEF NotMatching
<1>6. h[0] = <<>> /\ \A i \in 1 .. Len(list) : h[i] = Item(h, i)
  <2> HIDE DEF h
  <2>1. \A i \in 0 .. Len(list) :
           h[i] = IF i = 0 THEN <<>>
                  ELSE IF list[i] = pattern THEN h[i - 1]
                  ELSE Append(h[i - 1], list[i])
    BY <1>4
  <2>2. h[0] = <<>>
    BY <2>1
  <2>3. ASSUME NEW i \in 1 .. Len(list) PROVE h[i] = Item(h, i)
    BY <2>1
  <2> QED
    BY <2>2, <2>3
<1>7. ASSUME NEW i \in 0 .. Len(list) PROVE h[i] = r[i]
  <2> DEFINE U == {n \in Nat : n <= Len(list) => h[n] = r[n]}
  <2> HIDE DEF h
  <2>1. 0 \in U
    BY <1>6, <1>2
  <2>2. ASSUME NEW n \in Nat, n \in U PROVE n + 1 \in U
    <3>1. CASE n + 1 <= Len(list)
      <4>1. n + 1 \in 1 .. Len(list) /\ n + 1 - 1 = n /\ h[n] = r[n]
        BY <3>1, <2>2
      <4>2. h[n + 1] = Item(h, n + 1) /\ r[n + 1] = Item(r, n + 1)
        BY <4>1, <1>6, <1>2
      <4> QED
        BY <4>1, <4>2
    <3> QED
      BY <3>1
  <2>3. Nat \subseteq U
    <3> HIDE DEF U
    <3> QED
      BY <2>1, <2>2, Induction
  <2> QED
    BY <2>3
<1> HIDE DEF h
<1>8. IsRest(list, pattern, r)
  BY <1>2, <1>5, <1>7 DEF IsRest
<1> QED
  BY <1>8

LEMMA InToSet ==
  ASSUME NEW S, NEW list \in Seq(S), NEW x
  PROVE  x \in ToSet(list) <=> \E i \in 1 .. Len(list) : list[i] = x
BY DEF ToSet

LEMMA ToSetAppend ==
  ASSUME NEW S, NEW list \in Seq(S), NEW e \in S
  PROVE  ToSet(Append(list, e)) = ToSet(list) \cup {e}
<1>1. \A i \in 1 .. Len(list) : Append(list, e)[i] = list[i]
  OBVIOUS
<1>2. Append(list, e)[Len(list) + 1] = e /\ Len(Append(list, e)) = Len(list) + 1
  OBVIOUS
<1> QED
  BY <1>1, <1>2 DEF ToSet

LEMMA ToSetOfLists ==
  ASSUME NEW S, NEW list \in Seq(S), NEW e \in S
  PROVE  /\ ToSet(<<>>) = {}
         /\ ToSet(<<e>> \o list) = ToSet(list) \cup {e}
         /\ list # <<>> => ToSet(list) = {Head(list)} \cup ToSet(Tail(list))
<1>1. ToSet(<<>>) = {}
  BY DEF ToSet
<1>3. ToSet(<<e>> \o list) = ToSet(list) \cup {e}
  <2> DEFINE all == <<e>> \o list
  <2>1. all \in Seq(S) /\ Len(all) = Len(list) + 1 /\ all[1] = e
    BY ConcatProperties
  <2>2. \A i \in 1 .. Len(list) : all[i + 1] = list[i]
    BY ConcatProperties
  <2>3. \A i \in 2 .. Len(all) : all[i] = list[i - 1] /\ i - 1 \in 1 .. Len(list)
    BY ConcatProperties
  <2> HIDE DEF all
  <2>4. ASSUME NEW x \in ToSet(all) PROVE x \in ToSet(list) \cup {e}
    <3>1. PICK i \in 1 .. Len(all) : all[i] = x
      BY <2>1, InToSet
    <3>2. CASE i = 1
      BY <2>1, <3>1, <3>2
    <3>3. CASE i # 1
      <4>1. i - 1 \in 1 .. Len(list) /\ list[i - 1] = x
        BY <2>1, <2>3, <3>1, <3>3
      <4> QED
        BY <4>1, InToSet
    <3> QED
      BY <3>2, <3>3
  <2>5. e \in ToSet(all)
    BY <2>1, InToSet
  <2>6. ASSUME NEW x \in ToSet(list) PROVE x \in ToSet(all)
    <3>1. PICK i \in 1 .. Len(list) : list[i] = x
      BY InToSet
    <3>2. i + 1 \in 1 .. Len(all) /\ all[i + 1] = x
      BY <2>1, <2>2, <3>1
    <3> QED
      BY <2>1, <3>2, InToSet
  <2>7. ToSet(all) = ToSet(list) \cup {e}
    BY <2>4, <2>5, <2>6
  <2> QED
    BY <2>7 DEF all
<1>4. ASSUME list # <<>> PROVE ToSet(list) = {Head(list)} \cup ToSet(Tail(list))
  <2>1. /\ Head(list) = list[1] /\ Tail(list) \in Seq(S)
        /\ Len(Tail(list)) = Len(list) - 1 /\ Len(list) \in Nat \ {0}
        /\ \A i \in 1 .. Len(Tail(list)) : Tail(list)[i] = list[i + 1]
    BY <1>4, HeadTailProperties, EmptySeq
  <2>2. ASSUME NEW x \in ToSet(list) PROVE x \in {Head(list)} \cup ToSet(Tail(list))
    <3>1. PICK i \in 1 .. Len(list) : list[i] = x
      BY InToSet
    <3>2. CASE i = 1
      BY <2>1, <3>1, <3>2
    <3>3. CASE i # 1
      <4>1. i - 1 \in 1 .. Len(Tail(list)) /\ Tail(list)[i - 1] = x
        BY <2>1, <3>1, <3>3
      <4> QED
        BY <2>1, <4>1, InToSet
    <3> QED
      BY <3>2, <3>3
  <2>3. Head(list) \in ToSet(list)
    BY <2>1, InToSet
  <2>4. ASSUME NEW x \in ToSet(Tail(list)) PROVE x \in ToSet(list)
    <3>1. PICK i \in 1 .. Len(Tail(list)) : Tail(list)[i] = x
      BY <2>1, InToSet
    <3>2. i + 1 \in 1 .. Len(list) /\ list[i + 1] = x
      BY <2>1, <3>1
    <3> QED
      BY <3>2, InToSet
  <2> QED
    BY <2>2, <2>3, <2>4
<1> QED
  BY <1>1, <1>3, <1>4

LEMMA ToSetOfParts ==
  ASSUME NEW S
  PROVE  \A a, b \in Seq(S) : ToSet(b) \subseteq ToSet(a \o b)
<1> TAKE a, b \in Seq(S)
<1>1. \A i \in 1 .. Len(b) : Len(a) + i \in 1 .. Len(a \o b)
                            /\ (a \o b)[Len(a) + i] = b[i]
  BY ConcatProperties
<1>2. a \o b \in Seq(S)
  OBVIOUS
<1>3. ASSUME NEW x \in ToSet(b) PROVE x \in ToSet(a \o b)
  <2>1. PICK i \in 1 .. Len(b) : b[i] = x
    BY InToSet
  <2> DEFINE all == a \o b
  <2>2. all \in Seq(S) /\ Len(a) + i \in 1 .. Len(all) /\ all[Len(a) + i] = x
    BY <1>1, <1>2, <2>1
  <2> HIDE DEF all
  <2>3. x \in ToSet(all)
    BY <2>2, InToSet
  <2> QED
    BY <2>3 DEF all
<1> QED
  BY <1>3

(* What does not match stays in the list. *)
LEMMA NotMatchingKeeps ==
  ASSUME NEW S, NEW list \in Seq(S), NEW pattern
  PROVE  /\ NotMatching(list, pattern) \in Seq(S)
         /\ ToSet(list) \ {pattern} \subseteq ToSet(NotMatching(list, pattern))
<1>1. PICK r \in [0 .. Len(list) -> Seq(S)] : IsRest(list, pattern, r)
  BY NotMatchingIs
<1> DEFINE Left(n) == \A i \in 1 .. n : list[i] # pattern => list[i] \in ToSet(r[n])
           T == {n \in Nat : n <= Len(list) => Left(n)}
<1>2. 0 \in T
  OBVIOUS
<1>3. ASSUME NEW n \in Nat, n \in T PROVE n + 1 \in T
  <2> SUFFICES ASSUME n + 1 <= Len(list), NEW i \in 1 .. n + 1, list[i] # pattern
               PROVE  list[i] \in ToSet(r[n + 1])
    OBVIOUS
  <2>1. /\ r[n] \in Seq(S) /\ list[n + 1] \in S
        /\ r[n + 1] = IF list[n + 1] = pattern THEN r[n] ELSE Append(r[n], list[n + 1])
    BY <1>1 DEF IsRest
  <2>2. ToSet(r[n]) \subseteq ToSet(r[n + 1])
    <3>1. CASE list[n + 1] = pattern
      BY <2>1, <3>1
    <3>2. CASE list[n + 1] # pattern
      <4>1. ToSet(Append(r[n], list[n + 1])) = ToSet(r[n]) \cup {list[n + 1]}
        BY <2>1, ToSetAppend
      <4> QED
        BY <2>1, <3>2, <4>1
    <3> QED
      BY <3>1, <3>2
  <2>3. CASE i = n + 1
    <3>1. r[n + 1] = Append(r[n], list[n + 1])
      BY <2>1, <2>3
    <3> QED
      <4>1. ToSet(Append(r[n], list[n + 1])) = ToSet(r[n]) \cup {list[n + 1]}
        BY <2>1, ToSetAppend
      <4> QED
        BY <2>3, <3>1, <4>1
  <2>4. CASE i # n + 1
    BY <1>3, <2>2, <2>4
  <2> QED
    BY <2>3, <2>4
<1>4. Nat \subseteq T
  <2> HIDE DEF T
  <2> QED
    BY <1>2, <1>3, Induction
<1>5. Left(Len(list))
  BY <1>4
<1>6. ToSet(list) \ {pattern} \subseteq ToSet(r[Len(list)])
  BY <1>5 DEF ToSet
<1> QED
  BY <1>1, <1>6 DEF IsRest

-----------------------------------------------------------------------------
(* The invariant of the broadcasts *)

SeenFields == {"told", "warned", "security", "kept", "handed", "unheard",
               "queued", "delivered", "announced", "paywallFailed"}
MessageFields == {"type", "text", "keep", "step"}
Texts == STRING \cup {"syncs disabled", "security", "sync issues",
                      "verify contacts", "inaccessible shares"}
SdkFields == {"events", "paywall", "logout"}
RegistrationPlaces == {"id", "storage", "greet", "prompt", "send"}

ServerTyped ==
    /\ stateListenersPetitions \subseteq Shells
    /\ DOMAIN socket = Shells
    /\ DOMAIN seen = SeenFields
    /\ DOMAIN sdk = SdkFields /\ sdk.events \in Seq(SdkEvents)
    /\ DOMAIN debouncer = {"pc", "mSyncIssuesSize", "mLastTriggerTime"}
    /\ DOMAIN hand = Broadcasters
    /\ DOMAIN delayed = DelayedThreads
    /\ storageStatus \in 0 .. 4
    /\ delayedBroadCastMessages \in Seq(Texts)
    /\ greetingsFirstClientMsgs \in Seq(Texts)
    /\ greetingsAllClientMsgs \in Seq(Texts)

Free(t) == hand[t] = NoMessage

(* A thread that broadcasts does nothing else until all have been told. *)
HandFits(t) ==
    ~Free(t) =>
        /\ DOMAIN hand[t] = MessageFields
        /\ hand[t].type # "none"
        /\ hand[t].step \in {"inform", "keep"}
        /\ hand[t].keep \in BOOLEAN
        /\ hand[t].keep => hand[t].text \in Texts
        /\ hand[t].step = "keep" => hand[t].keep
        /\ t \in DelayedThreads => hand[t].keep

HandsFit ==
    /\ \A t \in Broadcasters : HandFits(t)
    /\ debouncer.pc = "waiting" => Free("debouncer")
    /\ ~verified => Free("verifier")
    /\ \A t \in DelayedThreads : delayed[t] = "none" => Free(t)

(* Somebody is to broadcast the text, and to keep it. *)
ToKeep(text) ==
    \E t \in Broadcasters : ~Free(t) /\ hand[t].text = text /\ hand[t].keep

(* What has been put into sockets since it was last to be kept, or taken    *)
(* from the greetings for a shell that had gone.                            *)
Over == seen.handed \cup seen.unheard

IsKept(text) ==
    \/ text \in ToSet(delayedBroadCastMessages)
    \/ ToKeep(text)
    \/ text \in ToSet(greetingsFirstClientMsgs)
    \/ text \in Over

KeptInv == \A text \in seen.kept : IsKept(text)

(* What has been queued is what has been told, what is about to be told by  *)
(* the one thread there is, and what is still in the queue.                 *)
About(t) == ~Free(t) /\ hand[t].step = "inform"

DelayedInv ==
    /\ seen.queued \in Seq(Texts) /\ seen.delivered \in Seq(Texts)
    /\ \A t, u \in DelayedThreads :
          delayed[t] # "none" /\ delayed[u] # "none" => t = u
    /\ ~ongoing => \A t \in DelayedThreads : delayed[t] = "none"
    /\ \A t \in DelayedThreads : About(t) =>
          seen.queued = Append(seen.delivered, hand[t].text)
                            \o delayedBroadCastMessages
    /\ (\A t \in DelayedThreads : ~About(t)) =>
          seen.queued = seen.delivered \o delayedBroadCastMessages

(* A registration that goes on is at one of its steps. *)
RegistrationFits ==
    registration # Idle =>
        /\ DOMAIN registration = {"pc", "shell", "level", "prompt"}
        /\ registration.pc \in RegistrationPlaces
        /\ registration.shell \in Shells
        /\ registration.level \in 0 .. 4

Before(s, places) == Registering(s) /\ registration.pc \in places

(* A shell that the greetings have reached knows of the upgrade, or is      *)
(* about to be told.                                                        *)
Secured(s) ==
    \/ "security" \in seen.told[s]
    \/ \E t \in Broadcasters : About(t) /\ hand[t].text = "security"
    \/ Before(s, {"id", "storage", "greet"})

Level(s) == IF Before(s, {"greet", "prompt", "send"})
               /\ registration.level > seen.warned[s]
            THEN registration.level ELSE seen.warned[s]

(* A shell has been warned, will be when its registration ends, or the      *)
(* thread of the SDK is about to.                                           *)
WarnedInTime(s) ==
    \/ Level(s) >= storageStatus
    \/ \E l \in {ORANGE, RED, PAYWALL} :
          About("sdk") /\ hand["sdk"].text = Warning(l) /\ l >= storageStatus
    \/ sdk.paywall # "none" \/ seen.paywallFailed
    \/ Before(s, {"id", "storage"})

ToldInv ==
    /\ RegistrationFits
    /\ seen.warned \in [Shells -> 0 .. 4]
    /\ DOMAIN seen.told = Shells
    /\ sdk.paywall \in {"none", "user data", "details"}
    /\ seen.security => "security" \in ToSet(greetingsAllClientMsgs)
    /\ \A s \in Listening :
          /\ seen.security => Secured(s)
          /\ WarnedInTime(s)

(* -- what the steps do to the hands -------------------------------------- *)

HandVars == <<hand, debouncer, verified, delayed>>

(* Thread t has taken a message into its hand. *)
Takes(t, text, keep) ==
    /\ DOMAIN hand' = Broadcasters
    /\ \A u \in Broadcasters \ {t} : hand'[u] = hand[u]
    /\ DOMAIN hand'[t] = MessageFields
    /\ hand'[t].type # "none"
    /\ hand'[t].text = text
    /\ hand'[t].keep = keep
    /\ hand'[t].step = "inform"

LEMMA Broadcasting ==
  ASSUME ServerTyped, NEW t \in Broadcasters, NEW text, NEW keep,
         broadcastMessage(t, text, keep)
  PROVE  Takes(t, text, keep)
BY DEF ServerTyped, broadcastMessage, Takes, MessageFields

LEMMA Prompting ==
  ASSUME ServerTyped, NEW t \in Broadcasters, NEW text, changeprompt(t, text)
  PROVE  Takes(t, text, FALSE)
BY DEF ServerTyped, changeprompt, Takes, MessageFields

LEMMA HandsFitTaken ==
  ASSUME HandsFit, NEW t \in Broadcasters, NEW text, NEW keep \in BOOLEAN,
         Takes(t, text, keep),
         keep => text \in Texts,
         t \in DelayedThreads => keep,
         t # "debouncer" \/ debouncer'.pc # "waiting",
         t # "verifier" \/ verified',
         t \in DelayedThreads => delayed'[t] # "none",
         debouncer'.pc = "waiting" => debouncer.pc = "waiting",
         ~verified' => ~verified,
         \A u \in DelayedThreads : delayed'[u] = "none" => delayed[u] = "none"
  PROVE  HandsFit'
<1>1. ASSUME NEW u \in Broadcasters PROVE HandFits(u)'
  <2>1. CASE u = t
    BY <2>1 DEF Takes, HandFits, Free, NoMessage
  <2>2. CASE u # t
    <3>1. hand'[u] = hand[u]
      BY <2>2 DEF Takes
    <3> QED
      BY <3>1 DEF HandsFit, HandFits, Free
  <2> QED
    BY <2>1, <2>2
<1>2. debouncer'.pc = "waiting" => Free("debouncer")'
  BY DEF HandsFit, Takes, Free, Broadcasters
<1>3. ~verified' => Free("verifier")'
  BY DEF HandsFit, Takes, Free, Broadcasters
<1>4. ASSUME NEW u \in DelayedThreads, delayed'[u] = "none" PROVE Free(u)'
  BY <1>4 DEF HandsFit, Takes, Free, Broadcasters
<1> QED
  BY <1>1, <1>2, <1>3, <1>4 DEF HandsFit

(* Thread t goes on to keep what nobody heard, or lets go of it. *)
LEMMA HandsFitOne ==
  ASSUME HandsFit, NEW t \in Broadcasters, ~Free(t), HandFits(t)',
         \A u \in Broadcasters \ {t} : hand'[u] = hand[u],
         UNCHANGED <<debouncer, verified, delayed>>
  PROVE  HandsFit'
<1>1. ASSUME NEW u \in Broadcasters PROVE HandFits(u)' /\ (Free(u) => Free(u)')
  <2>1. CASE u = t
    BY <2>1
  <2>2. CASE u # t
    BY <2>2 DEF HandsFit, HandFits, Free
  <2> QED
    BY <2>1, <2>2
<1>2. /\ "debouncer" \in Broadcasters /\ "verifier" \in Broadcasters
      /\ DelayedThreads \subseteq Broadcasters
  BY DEF Broadcasters
<1>3. debouncer'.pc = "waiting" => Free("debouncer")'
  BY <1>1, <1>2 DEF HandsFit
<1>4. ~verified' => Free("verifier")'
  BY <1>1, <1>2 DEF HandsFit
<1>5. ASSUME NEW u \in DelayedThreads, delayed'[u] = "none" PROVE Free(u)'
  BY <1>1, <1>2, <1>5 DEF HandsFit
<1> QED
  BY <1>1, <1>3, <1>4, <1>5 DEF HandsFit

LEMMA HandsFitSame == HandsFit /\ UNCHANGED HandVars => HandsFit'
BY DEF HandsFit, HandVars, HandFits, Free

LEMMA MainStepTyped ==
  ASSUME ServerTyped, MainStep
  PROVE  ServerTyped' /\ UNCHANGED HandVars
<1> USE DEF ServerTyped, HandVars, listenerVars, wireVars, greetingVars,
        delayedVars, mainVars, issueVars
<1>1. ASSUME NEW s \in Shells, registerStateListener(s)
      PROVE  ServerTyped' /\ UNCHANGED HandVars
  BY <1>1 DEF registerStateListener, Listening, SeenFields
<1>2. CASE TellClientId
  BY <1>2 DEF TellClientId
<1>3. CASE PrepareStorageWarning
  BY <1>3 DEF PrepareStorageWarning
<1>4. CASE Greet
  BY <1>4 DEF Greet, SeenFields
<1>5. CASE ReadPrompt
  BY <1>5 DEF ReadPrompt
<1>6. CASE SendPrompt
  BY <1>6 DEF SendPrompt, SeenFields
<1> QED
  BY <1>1, <1>2, <1>3, <1>4, <1>5, <1>6 DEF MainStep

(* The next event is one the SDK may report. *)
LEMMA EventTyped ==
  ASSUME ServerTyped, sdk.events # <<>>
  PROVE  Event \in SdkEvents /\ Tail(sdk.events) \in Seq(SdkEvents)
BY HeadTailProperties DEF ServerTyped, Event

LEMMA StorageLevel ==
  ASSUME ServerTyped, sdk.events # <<>>, Event.type = "storage"
  PROVE  Event.level \in {GREEN, ORANGE, RED, PAYWALL}
<1>1. Event \in SdkEvents
  BY EventTyped
<1>2. ASSUME Event \notin [type : {"storage"}, level : {GREEN, ORANGE, RED, PAYWALL}]
      PROVE  FALSE
  <2>1. Event \notin [type : {"syncOrMount"}, bad : {FALSE}]
    OBVIOUS
  <2>2. Event \notin [type : {"syncOrMount"}, bad : {TRUE}, text : STRING]
    OBVIOUS
  <2>3. Event \notin [type : {"syncsDisabled", "upgradeSecurity"}]
    OBVIOUS
  <2>4. Event \notin [type : {"fatal"}, reaction : {"tell", "log out", "none"}]
    OBVIOUS
  <2> QED
    BY <1>1, <1>2, <2>1, <2>2, <2>3, <2>4 DEF SdkEvents
<1> QED
  BY <1>2

LEMMA SdkStepTyped ==
  ASSUME ServerTyped, HandsFit, SdkStep
  PROVE  ServerTyped' /\ HandsFit'
<1> USE DEF HandVars, listenerVars, wireVars, greetingVars, delayedVars,
        mainVars, issueVars
<1>1. CASE SyncOrMountEvent
  <2>1. sdk.events # <<>> /\ sdk' = Take
    BY <1>1 DEF SyncOrMountEvent, EventIs
  <2>2. Event \in SdkEvents /\ Tail(sdk.events) \in Seq(SdkEvents)
    BY <2>1, EventTyped
  <2>3. DOMAIN sdk' = SdkFields /\ sdk'.events \in Seq(SdkEvents)
    BY <2>1, <2>2 DEF ServerTyped, Take, SdkFields
  <2>4. CASE Event.bad
    <3>1. broadcastDelayedMessage(Event.text)
      BY <1>1, <2>4 DEF SyncOrMountEvent
    <3> Event.text \in Texts
      BY <1>1, <2>2, <2>4 DEF SyncOrMountEvent, EventIs, SdkEvents, Texts
    <3>2. delayedBroadCastMessages' \in Seq(Texts) /\ DOMAIN seen' = SeenFields
      BY <3>1 DEF ServerTyped, broadcastDelayedMessage, SeenFields, Keeping
    <3>3. DOMAIN delayed' = DelayedThreads
          /\ \A u \in DelayedThreads : delayed'[u] = "none" => delayed[u] = "none"
      BY <3>1 DEF ServerTyped, broadcastDelayedMessage
    <3>4. UNCHANGED <<hand, debouncer, verified>>
      BY <1>1 DEF SyncOrMountEvent
    <3>5. HandsFit'
      BY <3>3, <3>4 DEF HandsFit, HandFits, Free
    <3> QED
      BY <1>1, <2>3, <3>2, <3>3, <3>5 DEF SyncOrMountEvent, ServerTyped
  <2>5. CASE ~Event.bad
    BY <1>1, <2>3, <2>5, HandsFitSame DEF SyncOrMountEvent, ServerTyped
  <2> QED
    BY <2>4, <2>5
<1>2. CASE SyncsDisabledEvent
  <2>1. sdk.events # <<>> /\ sdk' = Take
    BY <1>2 DEF SyncsDisabledEvent, EventIs
  <2>2. DOMAIN sdk' = SdkFields /\ sdk'.events \in Seq(SdkEvents)
    BY <2>1, EventTyped DEF ServerTyped, Take, SdkFields
  <2>3. NotDisabled \in Seq(Texts)
    BY NotMatchingKeeps DEF ServerTyped, NotDisabled
  <2>4. Takes("sdk", "syncs disabled", TRUE)
    BY <1>2, Broadcasting DEF SyncsDisabledEvent, Broadcasters
  <2>5. HandsFit'
    <3>1. UNCHANGED <<debouncer, verified, delayed>>
      BY <1>2 DEF SyncsDisabledEvent
    <3>2. /\ "sdk" \in Broadcasters /\ "sdk" \notin DelayedThreads
          /\ "sdk" # "debouncer" /\ "sdk" # "verifier" /\ "syncs disabled" \in Texts
      BY DEF Broadcasters, DelayedThreads, Texts
    <3> QED
      BY <2>4, <3>1, <3>2, HandsFitTaken, Zenon
  <2>6. DOMAIN seen' = SeenFields
    BY <1>2 DEF SyncsDisabledEvent, ServerTyped, SeenFields, Keeping
  <2> QED
    BY <1>2, <2>2, <2>3, <2>4, <2>5, <2>6 DEF SyncsDisabledEvent, ServerTyped, Takes
<1>3. ASSUME NEW text, Takes("sdk", text, FALSE), UNCHANGED <<debouncer, verified, delayed>>
      PROVE  HandsFit' /\ DOMAIN hand' = Broadcasters
  <2>1. "sdk" \in Broadcasters /\ "sdk" \notin DelayedThreads /\ FALSE # TRUE
    BY DEF Broadcasters, DelayedThreads
  <2> QED
    BY <1>3, <2>1, HandsFitTaken DEF Takes
<1>4. ASSUME UNCHANGED HandVars
      PROVE  HandsFit' /\ (DOMAIN hand = Broadcasters => DOMAIN hand' = Broadcasters)
  BY <1>4, HandsFitSame
<1>5. \A text : broadcastMessage("sdk", text, FALSE) => Takes("sdk", text, FALSE)
  BY Broadcasting DEF Broadcasters
<1>6. \A text : changeprompt("sdk", text) => Takes("sdk", text, FALSE)
  BY Prompting DEF Broadcasters
<1>7. CASE StorageEvent
  <2>1. sdk.events # <<>> /\ Event.type = "storage"
    BY <1>7 DEF StorageEvent, EventIs
  <2>2. Event \in SdkEvents /\ Tail(sdk.events) \in Seq(SdkEvents)
    BY <2>1, EventTyped
  <2>3. storageStatus' \in 0 .. 4
    <3>2. Event.level \in 0 .. 4
      BY <2>1, StorageLevel DEF GREEN, ORANGE, RED, PAYWALL
    <3>3. storageStatus' = Event.level
      BY <1>7 DEF StorageEvent
    <3> QED
      BY <3>2, <3>3
  <2>4. DOMAIN sdk' = SdkFields /\ sdk'.events \in Seq(SdkEvents)
    BY <1>7, <2>2 DEF StorageEvent, ServerTyped, Take, SdkFields
  <2>5. DOMAIN seen' = SeenFields
    BY <1>7 DEF StorageEvent, ServerTyped, SeenFields
  <2>6. HandsFit' /\ DOMAIN hand' = Broadcasters
    BY <1>7, <1>3, <1>4, <1>5 DEF StorageEvent, ServerTyped
  <2> QED
    BY <1>7, <2>3, <2>4, <2>5, <2>6 DEF StorageEvent, ServerTyped
<1>8. CASE PaywallAnswer
  <2>1. PICK ok \in BOOLEAN :
          /\ sdk' = [sdk EXCEPT !.paywall =
                        IF ok /\ @ = "user data" THEN "details" ELSE "none"]
          /\ broadcastMessage("sdk", Warning(PAYWALL), FALSE) \/ UNCHANGED hand
          /\ seen' = [seen EXCEPT !.paywallFailed = @ \/ ~ok]
    BY <1>8, Zenon DEF PaywallAnswer
  <2>2. DOMAIN sdk' = SdkFields /\ sdk'.events \in Seq(SdkEvents)
    BY <2>1 DEF ServerTyped, SdkFields
  <2>3. DOMAIN seen' = SeenFields
    BY <2>1 DEF ServerTyped, SeenFields
  <2>4. HandsFit' /\ DOMAIN hand' = Broadcasters
    BY <1>8, <1>3, <1>4, <1>5, <2>1 DEF PaywallAnswer, ServerTyped
  <2> QED
    BY <1>8, <2>2, <2>3, <2>4 DEF PaywallAnswer, ServerTyped
<1>9. CASE SecurityEvent
  <2>1. sdk.events # <<>> /\ sdk' = Take
    BY <1>9 DEF SecurityEvent, EventIs
  <2>2. DOMAIN sdk' = SdkFields /\ sdk'.events \in Seq(SdkEvents)
    BY <2>1, EventTyped DEF ServerTyped, Take, SdkFields
  <2>3. greetingsAllClientMsgs' \in Seq(Texts)
    <3>1. greetingsAllClientMsgs' = <<"security">> \o greetingsAllClientMsgs
      BY <1>9 DEF SecurityEvent
    <3>2. "security" \in Texts
      BY DEF Texts
    <3>3. <<"security">> \in Seq(Texts) /\ greetingsAllClientMsgs \in Seq(Texts)
      BY <3>2 DEF ServerTyped
    <3> QED
      BY <3>1, <3>3, ConcatProperties
  <2>4. DOMAIN seen' = SeenFields
    BY <1>9 DEF SecurityEvent, ServerTyped, SeenFields
  <2>5. HandsFit' /\ DOMAIN hand' = Broadcasters
    BY <1>9, <1>3, <1>5 DEF SecurityEvent
  <2> QED
    BY <1>9, <2>2, <2>3, <2>4, <2>5 DEF SecurityEvent, ServerTyped
<1>10. CASE FatalErrorEvent
  <2>1. sdk.events # <<>>
    BY <1>10 DEF FatalErrorEvent, EventIs
  <2>2. DOMAIN sdk' = SdkFields /\ sdk'.events \in Seq(SdkEvents)
    BY <1>10, <2>1, EventTyped DEF FatalErrorEvent, ServerTyped, Take, SdkFields
  <2>3. HandsFit' /\ DOMAIN hand' = Broadcasters
    BY <1>10, <1>3, <1>4, <1>5 DEF FatalErrorEvent, ServerTyped
  <2> QED
    BY <1>10, <2>2, <2>3 DEF FatalErrorEvent, ServerTyped
<1>11. CASE LogoutAnswer
  <2>1. DOMAIN sdk' = SdkFields /\ sdk'.events \in Seq(SdkEvents)
    BY <1>11 DEF LogoutAnswer, ServerTyped, SdkFields
  <2>2. DOMAIN seen' = SeenFields
    BY <1>11 DEF LogoutAnswer, ServerTyped, SeenFields
  <2>3. HandsFit' /\ DOMAIN hand' = Broadcasters
    BY <1>11, <1>3, <1>5 DEF LogoutAnswer
  <2> QED
    BY <1>11, <2>1, <2>2, <2>3 DEF LogoutAnswer, ServerTyped, GREEN
<1>12. CASE actUponLogout
  <2>1. DOMAIN sdk' = SdkFields /\ sdk'.events \in Seq(SdkEvents)
    BY <1>12 DEF actUponLogout, ServerTyped, SdkFields
  <2>2. DOMAIN seen' = SeenFields
    BY <1>12 DEF actUponLogout, ServerTyped, SeenFields
  <2>3. HandsFit' /\ DOMAIN hand' = Broadcasters
    BY <1>12, <1>3, <1>6 DEF actUponLogout
  <2>4. greetingsFirstClientMsgs' \in Seq(Texts) /\ greetingsAllClientMsgs' \in Seq(Texts)
    <3>1. \/ greetingsFirstClientMsgs' = <<>> /\ greetingsAllClientMsgs' = <<>>
          \/ UNCHANGED <<greetingsFirstClientMsgs, greetingsAllClientMsgs>>
      BY <1>12 DEF actUponLogout
    <3>2. <<>> \in Seq(Texts)
      BY EmptySeq
    <3> QED
      BY <3>1, <3>2 DEF ServerTyped
  <2> QED
    BY <1>12, <2>1, <2>2, <2>3, <2>4 DEF actUponLogout, ServerTyped
<1>13. CASE onGlobalSyncStateChanged
  BY <1>13, HandsFitSame DEF onGlobalSyncStateChanged, ServerTyped
<1>14. CASE StallListAnswer
  BY <1>14 DEF StallListAnswer, MayChangeIssues, ServerTyped, HandsFit, HandFits, Free
<1> QED
  BY <1>1, <1>2, <1>7, <1>8, <1>9, <1>10, <1>11, <1>12, <1>13, <1>14 DEF SdkStep

LEMMA InformStepTyped ==
  ASSUME ServerTyped, HandsFit, NEW t \in Broadcasters, InformStep(t)
  PROVE  /\ ServerTyped' /\ HandsFit'
         /\ ~Free(t) /\ hand[t].step = "inform"
         /\ \A u \in Broadcasters \ {t} : hand'[u] = hand[u]
         /\ \/ /\ Listening # {} \/ ~hand[t].keep
               /\ Free(t)'
            \/ /\ Listening = {}
               /\ ~Free(t)' /\ hand'[t].text = hand[t].text
               /\ hand'[t].keep /\ hand'[t].step = "keep"
<1>1. ~Free(t) /\ hand[t].step = "inform"
  BY DEF InformStep, Free, NoMessage
<1>2. /\ DOMAIN hand[t] = MessageFields /\ hand[t].type # "none"
      /\ hand[t].keep \in BOOLEAN /\ hand[t].keep => hand[t].text \in Texts
  BY <1>1 DEF HandsFit, HandFits
<1>3. hand' = [hand EXCEPT ![t] = IF hand[t].keep /\ Listening = {}
                                  THEN [hand[t] EXCEPT !.step = "keep"]
                                  ELSE NoMessage]
  BY DEF InformStep, NobodyListens
<1>4. DOMAIN hand' = Broadcasters /\ \A u \in Broadcasters \ {t} : hand'[u] = hand[u]
  BY <1>3 DEF ServerTyped
<1>5. UNCHANGED <<debouncer, verified, delayed>>
  BY DEF InformStep, delayedVars, issueVars
<1>6. ServerTyped'
  <2>1. DOMAIN seen' = SeenFields
    BY DEF InformStep, ServerTyped, SeenFields
  <2>2. /\ stateListenersPetitions' = Listening /\ socket' = socket
        /\ UNCHANGED <<sdk, debouncer, delayed, storageStatus,
                       delayedBroadCastMessages, greetingVars>>
    BY DEF InformStep, informStateListeners, delayedVars, issueVars
  <2> QED
    BY <1>4, <2>1, <2>2 DEF ServerTyped, Listening, greetingVars
<1>7. CASE hand[t].keep /\ Listening = {}
  <2>1. hand'[t] = [hand[t] EXCEPT !.step = "keep"]
    BY <1>3, <1>7 DEF ServerTyped
  <2>2. /\ DOMAIN hand'[t] = MessageFields /\ hand'[t].type # "none"
        /\ hand'[t].step = "keep" /\ hand'[t].text = hand[t].text
        /\ hand'[t].keep = hand[t].keep
    BY <1>2, <2>1 DEF MessageFields
  <2>3. ~Free(t)'
    BY <2>2 DEF Free, NoMessage
  <2>4. HandFits(t)'
    BY <1>2, <1>7, <2>2 DEF HandFits
  <2>5. HandsFit'
    BY <1>1, <1>4, <1>5, <2>4, HandsFitOne
  <2> QED
    BY <1>1, <1>4, <1>6, <1>7, <2>2, <2>3, <2>5
<1>8. CASE ~(hand[t].keep /\ Listening = {})
  <2>1. Free(t)'
    BY <1>3, <1>8 DEF ServerTyped, Free
  <2>2. HandsFit'
    BY <1>1, <1>4, <1>5, <2>1, HandsFitOne DEF HandFits
  <2> QED
    BY <1>1, <1>4, <1>6, <1>8, <2>1, <2>2
<1> QED
  BY <1>7, <1>8

LEMMA KeepStepTyped ==
  ASSUME ServerTyped, HandsFit, NEW t \in Broadcasters, KeepStep(t)
  PROVE  /\ ServerTyped' /\ HandsFit'
         /\ ~Free(t) /\ hand[t].step = "keep" /\ Free(t)'
         /\ \A u \in Broadcasters \ {t} : hand'[u] = hand[u]
         /\ greetingsFirstClientMsgs' = <<hand[t].text>> \o greetingsFirstClientMsgs
<1>1. ~Free(t) /\ hand[t].step = "keep"
  BY DEF KeepStep, Free, NoMessage
<1>2. hand' = [hand EXCEPT ![t] = NoMessage]
  BY DEF KeepStep
<1>3. Free(t)' /\ \A u \in Broadcasters \ {t} : hand'[u] = hand[u]
  BY <1>2 DEF Free, ServerTyped
<1>4. UNCHANGED <<debouncer, verified, delayed>>
  BY DEF KeepStep, delayedVars, issueVars
<1>5. HandsFit'
  BY <1>1, <1>3, <1>4, HandsFitOne DEF HandFits
<1>6. greetingsFirstClientMsgs' = <<hand[t].text>> \o greetingsFirstClientMsgs
  BY DEF KeepStep
<1>7. ServerTyped'
  <2>1. hand[t].text \in Texts
    BY <1>1 DEF HandsFit, HandFits
  <2>2. <<hand[t].text>> \in Seq(Texts) /\ greetingsFirstClientMsgs \in Seq(Texts)
    BY <2>1 DEF ServerTyped
  <2>3. greetingsFirstClientMsgs' \in Seq(Texts)
    BY <1>6, <2>2, ConcatProperties
  <2>4. DOMAIN hand' = Broadcasters
    BY <1>2 DEF ServerTyped
  <2>5. UNCHANGED <<listenerVars, wireVars, seen, sdk, debouncer, delayed,
                    storageStatus, delayedBroadCastMessages, greetingsAllClientMsgs>>
    BY DEF KeepStep, delayedVars, issueVars
  <2> QED
    BY <2>3, <2>4, <2>5 DEF ServerTyped, listenerVars, wireVars
<1> QED
  BY <1>1, <1>3, <1>5, <1>6, <1>7

LEMMA DelayedStepTyped ==
  ASSUME ServerTyped, HandsFit, NEW t \in DelayedThreads, DelayedStep(t)
  PROVE  ServerTyped' /\ HandsFit'
<1>1. Free(t) /\ delayed[t] # "none" /\ t \in Broadcasters
  BY DEF DelayedStep, Free, Broadcasters
<1>2. UNCHANGED <<listenerVars, wireVars, greetingVars, seen, sdk, debouncer,
                  storageStatus, verified>>
  BY DEF DelayedStep, issueVars
<1>3. CASE delayedBroadCastMessages # <<>>
  <2>1. /\ broadcastMessage(t, Head(delayedBroadCastMessages), TRUE)
        /\ delayedBroadCastMessages' = Tail(delayedBroadCastMessages)
        /\ delayed' = [delayed EXCEPT ![t] = "telling"]
    BY <1>3 DEF DelayedStep
  <2>2. /\ Head(delayedBroadCastMessages) \in Texts
        /\ delayedBroadCastMessages' \in Seq(Texts)
    BY <1>3, <2>1, HeadTailProperties DEF ServerTyped
  <2>3. Takes(t, Head(delayedBroadCastMessages), TRUE)
    BY <1>1, <2>1, Broadcasting
  <2>4. /\ DOMAIN delayed' = DelayedThreads
        /\ \A u \in DelayedThreads : delayed'[u] = "none" => delayed[u] = "none"
        /\ delayed'[t] # "none"
    BY <2>1 DEF ServerTyped
  <2>5. t # "debouncer" /\ t # "verifier"
    BY DEF DelayedThreads
  <2>6. HandsFit'
    BY <1>1, <1>2, <2>2, <2>3, <2>4, <2>5, HandsFitTaken
  <2> QED
    BY <1>2, <2>2, <2>3, <2>4, <2>6
    DEF ServerTyped, Takes, listenerVars, wireVars, greetingVars
<1>4. CASE delayedBroadCastMessages = <<>>
  <2>1. /\ delayed' = [delayed EXCEPT ![t] = "none"]
        /\ UNCHANGED <<hand, delayedBroadCastMessages>>
    BY <1>4 DEF DelayedStep
  <2>2. HandsFit'
    BY <1>1, <1>2, <2>1 DEF HandsFit, HandFits, Free, ServerTyped
  <2> QED
    BY <1>2, <2>1, <2>2 DEF ServerTyped, listenerVars, wireVars, greetingVars
<1> QED
  BY <1>3, <1>4

(* The other threads of the server. *)
LEMMA OtherStepsTyped ==
  ASSUME ServerTyped, HandsFit,
         \/ SyncsStall \/ DebouncerTriggers \/ DebouncerReturns
         \/ ChangeDirectory \/ TellRestart \/ ConfirmSecurity \/ SetWarning
         \/ \E i \in Ids : verifySharedFolders(i) \/ VerificationReturns(i)
         \/ TriggerStep
  PROVE  ServerTyped' /\ HandsFit'
<1> DEFINE OthersSame == UNCHANGED <<listenerVars, wireVars, greetingVars,
                             delayedVars, sdk, storageStatus>>
<1>1. ASSUME UNCHANGED serverVars PROVE ServerTyped' /\ HandsFit'
  BY <1>1, HandsFitSame DEF serverVars, ServerTyped, HandVars, listenerVars,
     wireVars, greetingVars, delayedVars, issueVars
<1>2. ASSUME OthersSame, DOMAIN seen' = SeenFields, DOMAIN hand' = Broadcasters,
             DOMAIN debouncer' = {"pc", "mSyncIssuesSize", "mLastTriggerTime"}
      PROVE  ServerTyped'
  BY <1>2 DEF ServerTyped, listenerVars, wireVars, greetingVars, delayedVars
<1>3. /\ "petition" \in Broadcasters \ DelayedThreads
      /\ "debouncer" \in Broadcasters \ DelayedThreads
      /\ "verifier" \in Broadcasters \ DelayedThreads
  BY DEF Broadcasters, DelayedThreads
<1>4. CASE SyncsStall
  BY <1>2, <1>4, HandsFitSame
  DEF SyncsStall, ServerTyped, HandVars, delayedVars, issueVars
<1>5. CASE DebouncerTriggers
  <2>1. UNCHANGED <<verified, delayed>> /\ OthersSame
    BY <1>5 DEF DebouncerTriggers, delayedVars
  <2>2. debouncer' = [debouncer EXCEPT !.pc = "calling"]
    BY <1>5 DEF DebouncerTriggers
  <2>3. DOMAIN debouncer' = {"pc", "mSyncIssuesSize", "mLastTriggerTime"}
        /\ debouncer'.pc = "calling"
    BY <2>2 DEF ServerTyped
  <2>4. DOMAIN seen' = SeenFields
    BY <1>5 DEF DebouncerTriggers, ServerTyped, SeenFields, Keeping
  <2>5. broadcastMessage("debouncer", "sync issues", TRUE) \/ UNCHANGED hand
    BY <1>5 DEF DebouncerTriggers
  <2>6. CASE UNCHANGED hand
    <3>1. HandsFit'
      BY <2>1, <2>3, <2>6 DEF HandsFit, HandFits, Free
    <3> QED
      BY <1>2, <2>1, <2>3, <2>4, <2>6, <3>1 DEF ServerTyped
  <2>7. CASE broadcastMessage("debouncer", "sync issues", TRUE)
    <3>1. Takes("debouncer", "sync issues", TRUE)
      BY <1>3, <2>7, Broadcasting
    <3>2. "sync issues" \in Texts
      BY DEF Texts
    <3>3. HandsFit'
      BY <1>3, <2>1, <2>3, <3>1, <3>2, HandsFitTaken
    <3> QED
      BY <1>2, <2>1, <2>3, <2>4, <3>1, <3>3 DEF Takes
  <2> QED
    BY <2>5, <2>6, <2>7
<1>6. CASE DebouncerReturns
  <2>1. /\ debouncer' = [debouncer EXCEPT !.pc = "waiting",
                                         !.mLastTriggerTime = "never"]
        /\ UNCHANGED <<hand, verified, delayed, seen>> /\ OthersSame
        /\ Free("debouncer")
    BY <1>6 DEF DebouncerReturns, delayedVars, Free
  <2>2. HandsFit'
    BY <2>1 DEF HandsFit, HandFits, Free
  <2>3. DOMAIN debouncer' = {"pc", "mSyncIssuesSize", "mLastTriggerTime"}
    BY <2>1 DEF ServerTyped
  <2> QED
    BY <1>2, <2>1, <2>2, <2>3 DEF ServerTyped
<1>7. ASSUME NEW text, Takes("petition", text, FALSE), OthersSame,
             UNCHANGED <<debouncer, verified, delayed, seen>>
      PROVE  ServerTyped' /\ HandsFit'
  <2>1. HandsFit'
    BY <1>3, <1>7, HandsFitTaken
  <2> QED
    BY <1>2, <1>7, <2>1 DEF ServerTyped, Takes
<1>8. CASE ChangeDirectory
  <2>1. Takes("petition", Command.prompt, FALSE)
    BY <1>3, <1>8, Prompting DEF ChangeDirectory
  <2>2. OthersSame /\ UNCHANGED <<debouncer, verified, delayed, seen>>
    BY <1>8 DEF ChangeDirectory, delayedVars, issueVars
  <2> QED
    BY <1>7, <2>1, <2>2
<1>9. CASE TellRestart
  <2>1. Takes("petition", "", FALSE)
    BY <1>3, <1>9 DEF TellRestart, Takes, ServerTyped, MessageFields
  <2>2. OthersSame /\ UNCHANGED <<debouncer, verified, delayed, seen>>
    BY <1>9 DEF TellRestart, delayedVars, issueVars
  <2> QED
    BY <1>7, <2>1, <2>2
<1>10. CASE ConfirmSecurity
  <2>1. greetingsAllClientMsgs' \in Seq(Texts)
    BY <1>10, NotMatchingKeeps DEF ConfirmSecurity, ServerTyped
  <2>2. DOMAIN seen' = SeenFields
    BY <1>10 DEF ConfirmSecurity, ServerTyped, SeenFields
  <2>3. UNCHANGED HandVars
    BY <1>10 DEF ConfirmSecurity, HandVars, delayedVars, issueVars
  <2>4. UNCHANGED <<listenerVars, wireVars, greetingsFirstClientMsgs, delayedVars,
                    sdk, storageStatus>>
    BY <1>10 DEF ConfirmSecurity
  <2> QED
    BY <2>1, <2>2, <2>3, <2>4, HandsFitSame
    DEF ServerTyped, HandVars, listenerVars, wireVars, delayedVars
<1>11. CASE SetWarning
  BY <1>2, <1>11, HandsFitSame DEF SetWarning, ServerTyped, HandVars, delayedVars
<1>12. ASSUME NEW i \in Ids, verifySharedFolders(i)
       PROVE  ServerTyped' /\ HandsFit'
  <2>1. OthersSame /\ UNCHANGED <<debouncer, delayed>> /\ verified' = TRUE
    BY <1>12 DEF verifySharedFolders, delayedVars, issueVars
  <2>2. CASE Caveats = <<>>
    <3>1. UNCHANGED <<hand, seen>>
      BY <1>12, <2>2 DEF verifySharedFolders
    <3>2. HandsFit'
      BY <2>1, <3>1 DEF HandsFit, HandFits, Free
    <3> QED
      BY <1>2, <2>1, <3>1, <3>2 DEF ServerTyped
  <2>3. CASE Caveats # <<>>
    <3>1. broadcastMessage("verifier", Caveats[1], TRUE)
      BY <1>12, <2>3 DEF verifySharedFolders
    <3>2. Takes("verifier", Caveats[1], TRUE)
      BY <1>3, <3>1, Broadcasting
    <3>3. Caveats[1] \in Texts
      BY <2>3 DEF Caveats, Texts
    <3>4. HandsFit'
      BY <1>3, <2>1, <3>2, <3>3, HandsFitTaken
    <3>5. DOMAIN seen' = SeenFields
      BY <1>12, <2>3 DEF verifySharedFolders, ServerTyped, SeenFields, Keeping
    <3> QED
      BY <1>2, <2>1, <3>2, <3>4, <3>5 DEF ServerTyped, Takes
  <2> QED
    BY <2>2, <2>3
<1>13. ASSUME NEW i \in Ids, VerificationReturns(i)
       PROVE  ServerTyped' /\ HandsFit'
  <2>1. /\ OthersSame /\ UNCHANGED <<hand, debouncer, delayed, seen>>
        /\ Free("verifier")
    BY <1>13 DEF VerificationReturns, delayedVars, issueVars, Free
  <2>2. HandsFit'
    BY <2>1 DEF HandsFit, HandFits, Free
  <2> QED
    BY <1>2, <2>1, <2>2 DEF ServerTyped
<1>14. CASE TriggerStep
  BY <1>1, <1>14 DEF TriggerStep
<1> QED
  BY <1>4, <1>5, <1>6, <1>8, <1>9, <1>10, <1>11, <1>12, <1>13, <1>14

LEMMA ServerNextTyped ==
  ASSUME ServerTyped, HandsFit, ServerNext
  PROVE  ServerTyped' /\ HandsFit'
<1>1. CASE MainStep
  BY <1>1, MainStepTyped, HandsFitSame
<1>2. CASE SdkStep
  BY <1>2, SdkStepTyped
<1>3. CASE BroadcastStep
  BY <1>3, InformStepTyped, KeepStepTyped DEF BroadcastStep
<1>4. ASSUME NEW t \in DelayedThreads, DelayedStep(t) PROVE ServerTyped' /\ HandsFit'
  BY <1>4, DelayedStepTyped
<1> QED
  BY <1>1, <1>2, <1>3, <1>4, OtherStepsTyped DEF ServerNext

(* -- what the shells and the end of the server do ------------------------ *)

(* A shell leaves the memory of the server alone, and opens no socket.      *)
LEMMA ShellLeavesServer ==
  ASSUME ServerTyped, NEW s \in Shells, ShellStep(s)
  PROVE  /\ UNCHANGED serverState
         /\ DOMAIN socket' = Shells
         /\ Listening' \subseteq Listening
<1>1. UNCHANGED serverState
  BY ShellKeepsServer
<1> DEFINE NoneOpened == /\ DOMAIN socket' = Shells
                         /\ \A u \in Shells : socket'[u] = "open" => socket[u] = "open"
<1>2. NoneOpened
  <2>0. DOMAIN socket = Shells
    BY DEF ServerTyped
  <2>1. CASE registerForStateChanges(s)
    BY <2>0, <2>1 DEF registerForStateChanges
  <2>2. CASE JoinAndRegister(s)
    <3>1. socket' = [socket EXCEPT ![s] = "pending"] \/ socket' = socket
      BY <2>2 DEF JoinAndRegister, wireVars
    <3> QED
      BY <2>0, <3>1
  <2>3. CASE LeaveLoop(s)
    BY <2>0, <2>3 DEF LeaveLoop
  <2>4. CASE listenToStateChanges(s)
    <3>1. socket' = [socket EXCEPT ![s] = "none"]
      BY <2>4 DEF listenToStateChanges
    <3> QED
      BY <2>0, <3>1
  <2>5. CASE ShellDies(s)
    BY <2>0, <2>5 DEF ShellDies
  <2>6. CASE ReadState(s) \/ WaitForServer(s) \/ ShellEnds(s) \/ TypeLine(s)
             \/ RetryConnections(s) \/ FailureForgotten(s) \/ sigint_handler(s)
    BY <2>0, <2>6 DEF ReadState, WaitForServer, ShellEnds, TypeLine,
       RetryConnections, FailureForgotten, sigint_handler, wireVars
  <2>7. CASE ProcessLine(s)
    BY <2>0, <2>7 DEF ProcessLine, LoginPassword, NewPassword, ConfirmPassword,
       Exit, LocalLine, isserverloggedin, AccountLine, ConfirmLine, SentLine,
       wireVars
  <2> QED
    BY <2>1, <2>2, <2>3, <2>4, <2>5, <2>6, <2>7
    DEF ShellStep, ListenerThread, MainThread
<1>3. stateListenersPetitions' = stateListenersPetitions
  BY <1>1 DEF serverState, listenerVars
<1> QED
  BY <1>1, <1>2, <1>3 DEF Listening, ServerTyped

LEMMA ShellStepTyped ==
  ASSUME ServerTyped, HandsFit, NEW s \in Shells, ShellStep(s)
  PROVE  ServerTyped' /\ HandsFit'
BY ShellLeavesServer, HandsFitSame DEF ServerTyped, HandVars, serverState,
   listenerVars, greetingVars, delayedVars, issueVars

LEMMA ServerDiesTyped ==
  ASSUME ServerTyped, HandsFit, ServerDies
  PROVE  ServerTyped' /\ HandsFit'
<1>2. DOMAIN sdk' = SdkFields /\ sdk'.events \in Seq(SdkEvents)
  <2>1. /\ sdk' = [sdk EXCEPT !.paywall = "none", !.logout = "none"]
        /\ DOMAIN sdk = SdkFields /\ sdk.events \in Seq(SdkEvents)
    BY DEF ServerDies, ServerTyped
  <2> QED
    BY <2>1 DEF SdkFields
<1>3. <<>> \in Seq(Texts) /\ storageStatus' \in 0 .. 4
  <2>1. <<>> \in Seq(Texts)
    BY EmptySeq
  <2>2. storageStatus' = GREEN
    BY DEF ServerDies, ForgetEverything
  <2> QED
    BY <2>1, <2>2 DEF GREEN
<1> USE DEF ServerDies, ForgetEverything, ServerTyped
<1>1. DOMAIN socket' = Shells /\ DOMAIN seen' = SeenFields /\ DOMAIN hand' = Broadcasters
  BY DEF SeenFields
<1>4. DOMAIN debouncer' = {"pc", "mSyncIssuesSize", "mLastTriggerTime"}
      /\ DOMAIN delayed' = DelayedThreads
  OBVIOUS
<1>5. ServerTyped'
  BY <1>1, <1>2, <1>3, <1>4
<1>6. \A t \in Broadcasters : Free(t)'
  BY DEF Free
<1>7. HandsFit'
  BY <1>6 DEF HandsFit, HandFits, Broadcasters
<1> QED
  BY <1>5, <1>7

LEMMA InitTyped == SystemInit => ServerTyped /\ HandsFit
<1> SUFFICES ASSUME SystemInit PROVE ServerTyped /\ HandsFit
  OBVIOUS
<1>3. sdk.events \in Seq(SdkEvents) /\ DOMAIN sdk = SdkFields
  <2>1. plan \in Scenarios
        /\ sdk = [events |-> plan.events, paywall |-> "none", logout |-> "none"]
    BY DEF SystemInit, ServerInit
  <2>2. plan.events \in Seq(SdkEvents)
    BY <2>1, ScenariosAssumption
  <2> QED
    BY <2>1, <2>2 DEF SdkFields
<1>4. <<>> \in Seq(Texts) /\ storageStatus \in 0 .. 4
  <2>1. <<>> \in Seq(Texts)
    BY EmptySeq
  <2>2. storageStatus = GREEN
    BY DEF SystemInit, ServerInit, StartedServer
  <2> QED
    BY <2>1, <2>2 DEF GREEN
<1> USE DEF SystemInit, ServerInit, StartedServer
<1>1. \A t \in Broadcasters : Free(t)
  BY DEF Free
<1>2. HandsFit
  BY <1>1 DEF HandsFit, HandFits, Broadcasters
<1>5. DOMAIN socket = Shells /\ DOMAIN seen = SeenFields /\ DOMAIN hand = Broadcasters
      /\ DOMAIN delayed = DelayedThreads
  BY DEF SeenFields
<1>6. DOMAIN debouncer = {"pc", "mSyncIssuesSize", "mLastTriggerTime"}
  OBVIOUS
<1>7. stateListenersPetitions \subseteq Shells
  OBVIOUS
<1>8. /\ delayedBroadCastMessages = <<>> /\ greetingsFirstClientMsgs = <<>>
      /\ greetingsAllClientMsgs = <<>>
  OBVIOUS
<1> HIDE DEF SystemInit, ServerInit, StartedServer
<1>9. ServerTyped
  BY <1>3, <1>4, <1>5, <1>6, <1>7, <1>8 DEF ServerTyped
<1> QED
  BY <1>2, <1>9

LEMMA SystemTyped ==
  ServerTyped /\ HandsFit /\ [SystemNext]_systemVars => ServerTyped' /\ HandsFit'
<1>1. ASSUME ServerTyped, HandsFit, UNCHANGED systemVars PROVE ServerTyped' /\ HandsFit'
  BY <1>1, HandsFitSame DEF systemVars, serverVars, ServerTyped, HandVars,
     listenerVars, wireVars, greetingVars, delayedVars, issueVars
<1> QED
  BY <1>1, ServerNextTyped, ShellStepTyped, ServerDiesTyped DEF SystemNext, ShellStep

(* -- kept messages ------------------------------------------------------- *)

(* What thread t does with its hand disturbs nobody else's. *)
LEMMA ToKeepTaken ==
  ASSUME HandsFit, NEW t \in Broadcasters, Free(t), NEW text, NEW keep \in BOOLEAN,
         Takes(t, text, keep)
  PROVE  /\ \A m : ToKeep(m) => ToKeep(m)'
         /\ keep => ToKeep(text)'
<1>2. ASSUME NEW m, ToKeep(m) PROVE ToKeep(m)'
  <2>1. PICK u \in Broadcasters : ~Free(u) /\ hand[u].text = m /\ hand[u].keep
    BY <1>2 DEF ToKeep
  <2>2. hand'[u] = hand[u]
    BY <2>1 DEF Takes
  <2>3. ~(Free(u)') /\ hand'[u].text = m /\ hand'[u].keep
    BY <2>1, <2>2 DEF Free
  <2> QED
    BY <2>3 DEF ToKeep
<1>3. ASSUME keep PROVE ToKeep(text)'
  <2>1. ~(Free(t)')
    BY DEF Takes, Free, NoMessage
  <2>2. hand'[t].text = text /\ hand'[t].keep
    BY <1>3 DEF Takes
  <2> QED
    BY <2>1, <2>2 DEF ToKeep
<1> QED
  BY <1>2, <1>3

LEMMA KeptSame ==
  ASSUME KeptInv, seen'.kept \subseteq seen.kept, Over' = Over,
         UNCHANGED <<hand, delayedBroadCastMessages, greetingsFirstClientMsgs>>
  PROVE  KeptInv'
BY DEF KeptInv, IsKept, ToKeep, Free

(* Thread t takes a message: what leaves the lists is what it takes.        *)
LEMMA KeptTaken ==
  ASSUME KeptInv, HandsFit, NEW t \in Broadcasters, Free(t), NEW text,
         NEW keep \in BOOLEAN, Takes(t, text, keep),
         \A m \in seen'.kept :
            /\ m \in seen.kept \/ (keep /\ m = text)
            /\ m \in Over => m \in Over' \/ (keep /\ m = text)
            /\ m \in ToSet(delayedBroadCastMessages) =>
                  m \in ToSet(delayedBroadCastMessages') \/ (keep /\ m = text)
            /\ m \in ToSet(greetingsFirstClientMsgs) =>
                  m \in ToSet(greetingsFirstClientMsgs')
  PROVE  KeptInv'
<1> SUFFICES ASSUME NEW m \in seen'.kept PROVE IsKept(m)'
  BY DEF KeptInv
<1>1. ToKeep(m) => ToKeep(m)'
  BY ToKeepTaken
<1>2. keep /\ m = text => ToKeep(m)'
  BY ToKeepTaken
<1>3. CASE keep /\ m = text
  BY <1>2, <1>3 DEF IsKept
<1>4. CASE ~(keep /\ m = text)
  <2>1. IsKept(m)
    BY <1>4 DEF KeptInv
  <2> QED
    BY <1>1, <1>4, <2>1 DEF IsKept
<1> QED
  BY <1>3, <1>4

LEMMA InformStepKept ==
  ASSUME ServerTyped, HandsFit, KeptInv, NEW t \in Broadcasters, InformStep(t)
  PROVE  KeptInv'
<1>1. /\ ~Free(t) /\ \A u \in Broadcasters \ {t} : hand'[u] = hand[u]
      /\ \/ /\ Listening # {} \/ ~hand[t].keep
            /\ Free(t)'
         \/ /\ Listening = {}
            /\ ~Free(t)' /\ hand'[t].text = hand[t].text
            /\ hand'[t].keep /\ hand'[t].step = "keep"
  BY InformStepTyped
<1>2. UNCHANGED <<delayedBroadCastMessages, greetingsFirstClientMsgs>>
  BY DEF InformStep, delayedVars, greetingVars
<1>3. /\ seen'.kept = seen.kept /\ Over \subseteq Over'
      /\ Listening # {} => hand[t].text \in Over'
  BY DEF InformStep, Over, ServerTyped, SeenFields
<1>4. ASSUME NEW m, ToKeep(m) PROVE ToKeep(m)' \/ m \in Over'
  <2>1. PICK u \in Broadcasters : ~Free(u) /\ hand[u].text = m /\ hand[u].keep
    BY <1>4 DEF ToKeep
  <2>2. CASE u = t /\ Listening # {}
    BY <1>3, <2>1, <2>2
  <2>3. CASE u = t /\ Listening = {}
    BY <1>1, <2>1, <2>3 DEF ToKeep
  <2>4. CASE u # t
    <3>1. ~(Free(u)') /\ hand'[u].text = m /\ hand'[u].keep
      BY <1>1, <2>1, <2>4 DEF Free
    <3> QED
      BY <3>1 DEF ToKeep
  <2> QED
    BY <2>2, <2>3, <2>4
<1> QED
  BY <1>2, <1>3, <1>4 DEF KeptInv, IsKept

LEMMA KeepStepKept ==
  ASSUME ServerTyped, HandsFit, KeptInv, NEW t \in Broadcasters, KeepStep(t)
  PROVE  KeptInv'
<1>1. /\ ~Free(t) /\ \A u \in Broadcasters \ {t} : hand'[u] = hand[u]
      /\ greetingsFirstClientMsgs' = <<hand[t].text>> \o greetingsFirstClientMsgs
  BY KeepStepTyped
<1>2. UNCHANGED <<delayedBroadCastMessages, seen>> /\ Over' = Over
  BY DEF KeepStep, delayedVars, Over
<1>3. ToSet(greetingsFirstClientMsgs')
         = ToSet(greetingsFirstClientMsgs) \cup {hand[t].text}
  <2>1. hand[t].text \in Texts /\ greetingsFirstClientMsgs \in Seq(Texts)
    <3>1. hand[t].step = "keep"
      BY KeepStepTyped
    <3> QED
      BY <1>1, <3>1 DEF HandsFit, HandFits, ServerTyped
  <2>2. ToSet(<<hand[t].text>> \o greetingsFirstClientMsgs)
           = ToSet(greetingsFirstClientMsgs) \cup {hand[t].text}
    BY <2>1, ToSetOfLists
  <2> QED
    BY <1>1, <2>2
<1>4. ASSUME NEW m, ToKeep(m)
      PROVE  ToKeep(m)' \/ m \in ToSet(greetingsFirstClientMsgs')
  <2>1. PICK u \in Broadcasters : ~Free(u) /\ hand[u].text = m /\ hand[u].keep
    BY <1>4 DEF ToKeep
  <2>2. CASE u = t
    BY <1>3, <2>1, <2>2
  <2>3. CASE u # t
    <3>1. ~(Free(u)') /\ hand'[u].text = m /\ hand'[u].keep
      BY <1>1, <2>1, <2>3 DEF Free
    <3> QED
      BY <3>1 DEF ToKeep
  <2> QED
    BY <2>2, <2>3
<1> QED
  BY <1>2, <1>3, <1>4 DEF KeptInv, IsKept

LEMMA DelayedStepKept ==
  ASSUME ServerTyped, HandsFit, KeptInv, NEW t \in DelayedThreads, DelayedStep(t)
  PROVE  KeptInv'
<1>1. Free(t) /\ t \in Broadcasters /\ UNCHANGED <<seen, greetingsFirstClientMsgs>>
  BY DEF DelayedStep, Free, Broadcasters, greetingVars
<1>2. CASE delayedBroadCastMessages # <<>>
  <2>1. /\ broadcastMessage(t, Head(delayedBroadCastMessages), TRUE)
        /\ delayedBroadCastMessages' = Tail(delayedBroadCastMessages)
    BY <1>2 DEF DelayedStep
  <2>2. Takes(t, Head(delayedBroadCastMessages), TRUE)
    BY <1>1, <2>1, Broadcasting
  <2>3. ToSet(delayedBroadCastMessages)
           = {Head(delayedBroadCastMessages)} \cup ToSet(delayedBroadCastMessages')
    <3>1. /\ delayedBroadCastMessages \in Seq(Texts)
          /\ "security" \in Texts
      BY DEF ServerTyped, Texts
    <3> QED
      BY <1>2, <2>1, <3>1, ToSetOfLists
  <2> QED
    <3> DEFINE text == Head(delayedBroadCastMessages)
    <3>1. /\ Over' = Over /\ seen'.kept = seen.kept
          /\ greetingsFirstClientMsgs' = greetingsFirstClientMsgs
          /\ Takes(t, text, TRUE)
          /\ ToSet(delayedBroadCastMessages)
                = {text} \cup ToSet(delayedBroadCastMessages')
      BY <1>1, <2>2, <2>3 DEF Over
    <3> HIDE DEF text
    <3> QED
      BY <1>1, <3>1, KeptTaken
<1>3. CASE delayedBroadCastMessages = <<>>
  <2>1. UNCHANGED <<hand, delayedBroadCastMessages>>
    BY <1>3 DEF DelayedStep
  <2> QED
    BY <1>1, <2>1, KeptSame DEF Over
<1> QED
  BY <1>2, <1>3

LEMMA MainStepKept ==
  ASSUME ServerTyped, KeptInv, MainStep
  PROVE  KeptInv'
<1>1. ASSUME NEW s \in Shells, registerStateListener(s) PROVE KeptInv'
  <2>1. seen'.kept = seen.kept /\ Over' = Over
    BY <1>1 DEF registerStateListener, Over, ServerTyped, SeenFields
  <2> QED
    BY <1>1, <2>1, KeptSame DEF registerStateListener, greetingVars, delayedVars
<1>2. CASE Greet
  <2>1. /\ seen'.kept = seen.kept /\ Over \subseteq Over'
        /\ ToSet(greetingsFirstClientMsgs) \subseteq Over'
    BY <1>2 DEF Greet, Over, ServerTyped, SeenFields
  <2>2. UNCHANGED <<hand, delayedBroadCastMessages>>
    BY <1>2 DEF Greet, delayedVars
  <2>3. \A m : ToKeep(m) => ToKeep(m)'
    BY <2>2 DEF ToKeep, Free
  <2> QED
    BY <2>1, <2>2, <2>3 DEF KeptInv, IsKept
<1>3. CASE SendPrompt
  <2>1. seen'.kept = seen.kept /\ Over' = Over
    BY <1>3 DEF SendPrompt, Over, ServerTyped, SeenFields
  <2> QED
    BY <1>3, <2>1, KeptSame DEF SendPrompt, greetingVars, delayedVars
<1>4. CASE TellClientId \/ PrepareStorageWarning \/ ReadPrompt
  BY <1>4, KeptSame
  DEF Over, TellClientId, PrepareStorageWarning, ReadPrompt, greetingVars,
      delayedVars
<1> QED
  BY <1>1, <1>2, <1>3, <1>4 DEF MainStep

LEMMA SdkStepKept ==
  ASSUME ServerTyped, HandsFit, KeptInv, SdkStep
  PROVE  KeptInv'
<1>0. "sdk" \in Broadcasters
  BY DEF Broadcasters
<1>1. ASSUME NEW text, Takes("sdk", text, FALSE), Free("sdk"),
             seen'.kept \subseteq seen.kept, Over' = Over,
             UNCHANGED <<delayedBroadCastMessages, greetingsFirstClientMsgs>>
      PROVE  KeptInv'
  BY <1>0, <1>1, KeptTaken
<1>2. \A text : broadcastMessage("sdk", text, FALSE) => Takes("sdk", text, FALSE)
  BY <1>0, Broadcasting
<1>3. \A text : changeprompt("sdk", text) => Takes("sdk", text, FALSE)
  BY <1>0, Prompting
<1>4. CASE SyncOrMountEvent
  <2>1. UNCHANGED <<hand, greetingsFirstClientMsgs>>
    BY <1>4 DEF SyncOrMountEvent, greetingVars
  <2>2. CASE Event.bad
    <3>1. /\ delayedBroadCastMessages' = Append(delayedBroadCastMessages, Event.text)
          /\ seen' = [Keeping(Event.text) EXCEPT !.queued = Append(@, Event.text)]
      BY <1>4, <2>2 DEF SyncOrMountEvent, broadcastDelayedMessage
    <3>2. seen'.kept = seen.kept \cup {Event.text} /\ Over' = Over \ {Event.text}
      BY <3>1 DEF Keeping, Over, ServerTyped, SeenFields
    <3>3. Event.text \in Texts
      <4>1. Event \in SdkEvents /\ Event.type = "syncOrMount"
        BY <1>4, EventTyped DEF SyncOrMountEvent, EventIs
      <4> QED
        BY <2>2, <4>1 DEF SdkEvents, Texts
    <3>4. ToSet(delayedBroadCastMessages')
             = ToSet(delayedBroadCastMessages) \cup {Event.text}
      <4>1. delayedBroadCastMessages \in Seq(Texts)
        BY DEF ServerTyped
      <4>2. ToSet(Append(delayedBroadCastMessages, Event.text))
               = ToSet(delayedBroadCastMessages) \cup {Event.text}
        BY <3>3, <4>1, ToSetAppend
      <4> QED
        BY <3>1, <4>2
    <3>5. \A m : ToKeep(m) => ToKeep(m)'
      BY <2>1 DEF ToKeep, Free
    <3> QED
      BY <2>1, <3>2, <3>4, <3>5 DEF KeptInv, IsKept
  <2>3. CASE ~Event.bad
    <3>1. UNCHANGED <<delayedVars, seen>>
      BY <1>4, <2>3 DEF SyncOrMountEvent
    <3> QED
      BY <2>1, <3>1, KeptSame DEF Over, delayedVars
  <2> QED
    BY <2>2, <2>3
<1>5. CASE SyncsDisabledEvent
  <2>1. /\ Free("sdk") /\ greetingsFirstClientMsgs' = greetingsFirstClientMsgs
        /\ Takes("sdk", "syncs disabled", TRUE)
    BY <1>0, <1>5, Broadcasting
    DEF SyncsDisabledEvent, EventIs, SdkIdle, Free, greetingVars
  <2>2. /\ seen'.kept = (seen.kept \ {SyncDisabled}) \cup {"syncs disabled"}
        /\ Over' = Over \ {"syncs disabled"}
    <3>1. SyncDisabled # "syncs disabled"
      BY DEF SyncDisabled
    <3> QED
      BY <1>5, <3>1 DEF SyncsDisabledEvent, Keeping, Over, ServerTyped, SeenFields
  <2>3. ToSet(delayedBroadCastMessages) \ {SyncDisabled}
           \subseteq ToSet(delayedBroadCastMessages')
    <3>1. delayedBroadCastMessages \in Seq(Texts)
      BY DEF ServerTyped
    <3> QED
      BY <1>5, <3>1, NotMatchingKeeps DEF SyncsDisabledEvent, NotDisabled
  <2> QED
    BY <1>0, <2>1, <2>2, <2>3, KeptTaken DEF SyncDisabled
<1>6. CASE StorageEvent
  <2>1. /\ Free("sdk")
        /\ UNCHANGED <<delayedBroadCastMessages, greetingsFirstClientMsgs>>
    BY <1>6 DEF StorageEvent, EventIs, SdkIdle, Free, greetingVars, delayedVars
  <2>2. seen'.kept = seen.kept /\ Over' = Over
    BY <1>6 DEF StorageEvent, Over, ServerTyped, SeenFields
  <2>3. UNCHANGED hand \/ Takes("sdk", Warning(Event.level), FALSE)
    BY <1>2, <1>6 DEF StorageEvent
  <2> QED
    BY <1>1, <2>1, <2>2, <2>3, KeptSame
<1>7. CASE PaywallAnswer
  <2>1. PICK ok \in BOOLEAN :
          /\ broadcastMessage("sdk", Warning(PAYWALL), FALSE) \/ UNCHANGED hand
          /\ seen' = [seen EXCEPT !.paywallFailed = @ \/ ~ok]
    BY <1>7, Zenon DEF PaywallAnswer
  <2>2. /\ Free("sdk")
        /\ UNCHANGED <<delayedBroadCastMessages, greetingsFirstClientMsgs>>
    BY <1>7 DEF PaywallAnswer, SdkIdle, Free, greetingVars, delayedVars
  <2>3. seen'.kept = seen.kept /\ Over' = Over
    BY <2>1 DEF Over, ServerTyped, SeenFields
  <2> QED
    BY <1>1, <1>2, <2>1, <2>2, <2>3, KeptSame
<1>8. CASE SecurityEvent \/ LogoutAnswer
  <2>1. /\ Free("sdk")
        /\ UNCHANGED <<delayedBroadCastMessages, greetingsFirstClientMsgs>>
    BY <1>8 DEF SecurityEvent, LogoutAnswer, EventIs, SdkIdle, Free, greetingVars,
       delayedVars
  <2>2. seen'.kept = seen.kept /\ Over' = Over
    BY <1>8 DEF SecurityEvent, LogoutAnswer, Over, ServerTyped, SeenFields
  <2>3. \E text : Takes("sdk", text, FALSE)
    BY <1>2, <1>8 DEF SecurityEvent, LogoutAnswer
  <2> QED
    BY <1>1, <2>1, <2>2, <2>3
<1>9. CASE FatalErrorEvent
  <2>1. /\ Free("sdk")
        /\ UNCHANGED <<delayedBroadCastMessages, greetingsFirstClientMsgs, seen>>
    BY <1>9 DEF FatalErrorEvent, EventIs, SdkIdle, Free, greetingVars, delayedVars
  <2>2. UNCHANGED hand \/ Takes("sdk", "fatal", FALSE)
    BY <1>2, <1>9 DEF FatalErrorEvent
  <2> QED
    BY <1>1, <2>1, <2>2, KeptSame DEF Over
<1>10. CASE actUponLogout
  <2>1. /\ Free("sdk") /\ delayedBroadCastMessages' = delayedBroadCastMessages
        /\ Over' = Over
    BY <1>10 DEF actUponLogout, Free, delayedVars, Over, ServerTyped, SeenFields
  <2>2. PICK text : Takes("sdk", text, FALSE)
    BY <1>3, <1>10 DEF actUponLogout
  <2>3. \/ greetingsFirstClientMsgs' = greetingsFirstClientMsgs /\ seen'.kept = seen.kept
        \/ seen'.kept = seen.kept \ ToSet(greetingsFirstClientMsgs)
    BY <1>10 DEF actUponLogout, greetingVars, Over, ServerTyped, SeenFields
  <2> QED
    BY <1>0, <2>1, <2>2, <2>3, KeptTaken
<1>11. CASE onGlobalSyncStateChanged \/ StallListAnswer
  BY <1>11, KeptSame
  DEF Over, onGlobalSyncStateChanged, StallListAnswer, greetingVars, delayedVars
<1> QED
  BY <1>4, <1>5, <1>6, <1>7, <1>8, <1>9, <1>10, <1>11 DEF SdkStep

LEMMA OtherStepsKept ==
  ASSUME ServerTyped, HandsFit, KeptInv,
         \/ SyncsStall \/ DebouncerTriggers \/ DebouncerReturns
         \/ ChangeDirectory \/ TellRestart \/ ConfirmSecurity \/ SetWarning
         \/ \E i \in Ids : verifySharedFolders(i) \/ VerificationReturns(i)
         \/ TriggerStep
  PROVE  KeptInv'
<1>0. /\ "petition" \in Broadcasters /\ "debouncer" \in Broadcasters
      /\ "verifier" \in Broadcasters
  BY DEF Broadcasters
<1>1. CASE SyncsStall \/ DebouncerReturns \/ SetWarning \/ TriggerStep
  BY <1>1, KeptSame DEF Over, SyncsStall, DebouncerReturns, SetWarning, TriggerStep,
     serverVars, greetingVars, delayedVars
<1>2. CASE DebouncerTriggers
  <2>1. /\ Free("debouncer")
        /\ UNCHANGED <<delayedBroadCastMessages, greetingsFirstClientMsgs>>
    BY <1>2 DEF DebouncerTriggers, HandsFit, greetingVars, delayedVars
  <2>2. CASE mWarningEnabled /\ debouncer.mSyncIssuesSize > 0
    <3>1. /\ seen' = [Keeping("sync issues") EXCEPT
                        !.announced = debouncer.mSyncIssuesSize]
          /\ broadcastMessage("debouncer", "sync issues", TRUE)
      BY <1>2, <2>2 DEF DebouncerTriggers
    <3>2. seen'.kept = seen.kept \cup {"sync issues"} /\ Over' = Over \ {"sync issues"}
      BY <3>1 DEF Keeping, Over, ServerTyped, SeenFields
    <3>3. Takes("debouncer", "sync issues", TRUE)
      BY <1>0, <3>1, Broadcasting
    <3> QED
      BY <1>0, <2>1, <3>2, <3>3, KeptTaken
  <2>3. CASE ~(mWarningEnabled /\ debouncer.mSyncIssuesSize > 0)
    <3>1. /\ seen' = [seen EXCEPT !.announced = debouncer.mSyncIssuesSize]
          /\ UNCHANGED hand
      BY <1>2, <2>3 DEF DebouncerTriggers
    <3>2. seen'.kept = seen.kept /\ Over' = Over
      BY <3>1 DEF Over, ServerTyped, SeenFields
    <3> QED
      BY <2>1, <3>1, <3>2, KeptSame
  <2> QED
    BY <2>2, <2>3
<1>3. CASE ChangeDirectory \/ TellRestart
  <2>1. /\ Free("petition")
        /\ UNCHANGED <<delayedBroadCastMessages, greetingsFirstClientMsgs, seen>>
    BY <1>3 DEF ChangeDirectory, TellRestart, CommandIs, Free, greetingVars,
       delayedVars
  <2>2. \E text : Takes("petition", text, FALSE)
    <3>1. CASE ChangeDirectory
      BY <1>0, <3>1, Prompting DEF ChangeDirectory
    <3>2. CASE TellRestart
      <4>1. Takes("petition", "", FALSE)
        BY <1>0, <3>2 DEF TellRestart, Takes, ServerTyped, MessageFields
      <4> QED
        BY <4>1
    <3> QED
      BY <1>3, <3>1, <3>2
  <2>3. PICK text : Takes("petition", text, FALSE)
    BY <2>2
  <2> QED
    BY <1>0, <2>1, <2>3, KeptTaken DEF Over
<1>4. CASE ConfirmSecurity
  <2>1. seen'.kept = seen.kept /\ Over' = Over
    BY <1>4 DEF ConfirmSecurity, Over, ServerTyped, SeenFields
  <2> QED
    BY <1>4, <2>1, KeptSame DEF ConfirmSecurity, delayedVars
<1>5. ASSUME NEW i \in Ids, verifySharedFolders(i) PROVE KeptInv'
  <2>1. /\ Free("verifier")
        /\ UNCHANGED <<delayedBroadCastMessages, greetingsFirstClientMsgs>>
    BY <1>5 DEF verifySharedFolders, HandsFit, greetingVars, delayedVars
  <2>2. CASE Caveats = <<>>
    <3>1. UNCHANGED <<hand, seen>>
      BY <1>5, <2>2 DEF verifySharedFolders
    <3> QED
      BY <2>1, <3>1, KeptSame DEF Over
  <2>3. CASE Caveats # <<>>
    <3>1. /\ broadcastMessage("verifier", Caveats[1], TRUE)
          /\ seen' = Keeping(Caveats[1])
      BY <1>5, <2>3 DEF verifySharedFolders
    <3>2. seen'.kept = seen.kept \cup {Caveats[1]} /\ Over' = Over \ {Caveats[1]}
      BY <3>1 DEF Keeping, Over, ServerTyped, SeenFields
    <3>3. Takes("verifier", Caveats[1], TRUE)
      BY <1>0, <3>1, Broadcasting
    <3> QED
      BY <1>0, <2>1, <3>2, <3>3, KeptTaken
  <2> QED
    BY <2>2, <2>3
<1>6. ASSUME NEW i \in Ids, VerificationReturns(i) PROVE KeptInv'
  BY <1>6, KeptSame DEF Over, VerificationReturns, greetingVars, delayedVars
<1> QED
  BY <1>1, <1>2, <1>3, <1>4, <1>5, <1>6

LEMMA SystemKept ==
  ServerTyped /\ HandsFit /\ KeptInv /\ [SystemNext]_systemVars => KeptInv'
<1> SUFFICES ASSUME ServerTyped, HandsFit, KeptInv, [SystemNext]_systemVars
             PROVE  KeptInv'
  OBVIOUS
<1>1. CASE UNCHANGED systemVars
  BY <1>1, KeptSame DEF systemVars, serverVars, greetingVars, delayedVars, Over
<1>2. ASSUME NEW s \in Shells, ShellStep(s) PROVE KeptInv'
  BY <1>2, ShellLeavesServer, KeptSame DEF Over, serverState, greetingVars, delayedVars
<1>3. CASE ServerDies
  <2>1. seen'.kept = {}
    BY <1>3 DEF ServerDies, Over, ServerTyped, SeenFields
  <2> QED
    BY <2>1 DEF KeptInv
<1>4. CASE BroadcastStep
  BY <1>4, InformStepKept, KeepStepKept DEF BroadcastStep
<1>5. CASE ServerNext
  BY <1>4, <1>5, MainStepKept, SdkStepKept, DelayedStepKept, OtherStepsKept
  DEF ServerNext
<1> QED
  BY <1>1, <1>2, <1>3, <1>5 DEF SystemNext, ShellStep

LEMMA InitKept == SystemInit => KeptInv
BY DEF SystemInit, ServerInit, KeptInv

(* A message to be kept when nobody listens is not lost, but by being taken *)
(* from the greetings for a shell that has gone, however the broadcasters,  *)
(* the registrations of shells, their ends and the server's interleave.     *)
THEOREM KeptMessageIsNotLostHolds == SystemSpec => []KeptMessageIsNotLost
<1>1. ServerTyped /\ HandsFit /\ KeptInv => KeptMessageIsNotLost
  <2>1. ASSUME HandsFit, NEW text, ToKeep(text) PROVE InHand(text)
    BY <2>1 DEF ToKeep, HandsFit, HandFits, InHand
  <2> QED
    BY <2>1 DEF KeptInv, IsKept, Over, KeptMessageIsNotLost
<1> QED
  BY <1>1, InitTyped, InitKept, SystemTyped, SystemKept, PTL DEF SystemSpec

(* -- delayed messages ---------------------------------------------------- *)

LEMMA AppendToParts ==
  ASSUME NEW S, NEW e \in S
  PROVE  \A a, b \in Seq(S) : Append(a \o b, e) = a \o Append(b, e)
OBVIOUS

(* A list in two parts: what moves between them leaves the whole alone. *)
LEMMA ListParts ==
  ASSUME NEW S, NEW a \in Seq(S), NEW b \in Seq(S), NEW e \in S
  PROVE  /\ a \o b \in Seq(S) /\ Append(a, e) \o b \in Seq(S)
         /\ SubSeq(a \o b, 1, Len(a \o b) - Len(b)) = a
         /\ IsPrefix(a, a \o b)
<1>1. a \o b \in Seq(S) /\ Append(a, e) \o b \in Seq(S)
  OBVIOUS
<1>2. Len(a \o b) = Len(a) + Len(b) /\ \A i \in 1 .. Len(a) : (a \o b)[i] = a[i]
  OBVIOUS
<1>4. SubSeq(a \o b, 1, Len(a)) = a
  BY <1>1, <1>2
<1>5. SubSeq(a, 1, Len(a)) = a
  OBVIOUS
<1> QED
  BY <1>1, <1>2, <1>4, <1>5 DEF IsPrefix

LEMMA ListMiddle ==
  ASSUME NEW S, NEW e \in S
  PROVE  \A a, b \in Seq(S) : /\ <<e>> \o b \in Seq(S)
                             /\ Append(a, e) \o b = a \o (<<e>> \o b)
<1> TAKE a, b \in Seq(S)
<1>1. <<e>> \in Seq(S) /\ Append(a, e) = a \o <<e>>
  OBVIOUS
<1>2. (a \o <<e>>) \o b = a \o (<<e>> \o b)
  BY <1>1, ConcatAssociative
<1> QED
  BY <1>1, <1>2, ConcatProperties

LEMMA ListHead ==
  ASSUME NEW S, NEW a \in Seq(S), NEW b \in Seq(S), b # <<>>
  PROVE  a \o b = Append(a, Head(b)) \o Tail(b)
<1> DEFINE h == Head(b)
           t == Tail(b)
<1>1. /\ h = b[1] /\ h \in S /\ t \in Seq(S) /\ Len(t) = Len(b) - 1
      /\ \A i \in 1 .. Len(t) : t[i] = b[i + 1]
  BY HeadTailProperties
<1> HIDE DEF h, t
<1>2. <<h>> \in Seq(S) /\ Append(a, h) = a \o <<h>>
  BY <1>1
<1>3. b = <<h>> \o t
  <2>1. /\ <<h>> \o t \in Seq(S) /\ Len(<<h>> \o t) = Len(b)
        /\ \A i \in 1 .. Len(b) : (<<h>> \o t)[i] = b[i]
    BY <1>1, <1>2
  <2> QED
    BY <2>1, SeqEqual
<1>4. a \o (<<h>> \o t) = (a \o <<h>>) \o t
  <2>1. \A x, y, z \in Seq(S) : (x \o y) \o z = x \o (y \o z)
    BY ConcatAssociative
  <2> QED
    BY <1>1, <1>2, <2>1
<1> QED
  BY <1>2, <1>3, <1>4 DEF h, t

(* Nothing that matters to delayed messages changes. *)
LEMMA DelayedSame ==
  ASSUME DelayedInv, UNCHANGED delayedVars,
         seen'.queued = seen.queued, seen'.delivered = seen.delivered,
         \A t \in DelayedThreads :
            /\ About(t)' <=> About(t)
            /\ About(t) => hand'[t].text = hand[t].text
  PROVE  DelayedInv'
<1>1. UNCHANGED <<delayedBroadCastMessages, ongoing, delayed>>
  BY DEF delayedVars
<1>2. seen'.queued \in Seq(Texts) /\ seen'.delivered \in Seq(Texts)
  BY DEF DelayedInv
<1>3. \A t, u \in DelayedThreads : delayed'[t] # "none" /\ delayed'[u] # "none" => t = u
  BY <1>1 DEF DelayedInv
<1>4. ~ongoing' => \A t \in DelayedThreads : delayed'[t] = "none"
  BY <1>1 DEF DelayedInv
<1>5. ASSUME NEW t \in DelayedThreads, About(t)'
      PROVE  seen'.queued = Append(seen'.delivered, hand'[t].text)
                               \o delayedBroadCastMessages'
  <2>1. About(t) /\ hand'[t].text = hand[t].text
    BY <1>5
  <2>2. seen.queued = Append(seen.delivered, hand[t].text) \o delayedBroadCastMessages
    BY <2>1 DEF DelayedInv
  <2> QED
    BY <1>1, <2>1, <2>2
<1>6. ASSUME \A t \in DelayedThreads : ~(About(t)')
      PROVE  seen'.queued = seen'.delivered \o delayedBroadCastMessages'
  <2>1. \A t \in DelayedThreads : ~About(t)
    BY <1>6
  <2>2. seen.queued = seen.delivered \o delayedBroadCastMessages
    BY <2>1 DEF DelayedInv
  <2> QED
    BY <1>1, <2>2
<1> QED
  BY <1>2, <1>3, <1>4, <1>5, <1>6 DEF DelayedInv

LEMMA DelayedHandsSame ==
  ASSUME DelayedInv, UNCHANGED delayedVars,
         seen'.queued = seen.queued, seen'.delivered = seen.delivered,
         \A t \in DelayedThreads : hand'[t] = hand[t]
  PROVE  DelayedInv'
BY DelayedSame DEF About, Free

(* One thread at a time has a message in its hand. *)
LEMMA OneDelayed ==
  ASSUME HandsFit, DelayedInv, NEW t \in DelayedThreads, delayed[t] # "none",
         NEW u \in DelayedThreads, u # t
  PROVE  delayed[u] = "none" /\ Free(u) /\ ~About(u)
BY DEF HandsFit, DelayedInv, About

LEMMA InformStepDelayed ==
  ASSUME ServerTyped, HandsFit, DelayedInv, NEW t \in Broadcasters, InformStep(t)
  PROVE  DelayedInv'
<1>1. /\ ~Free(t) /\ hand[t].step = "inform"
      /\ \A u \in Broadcasters \ {t} : hand'[u] = hand[u]
      /\ Free(t)' \/ hand'[t].step = "keep"
  BY InformStepTyped
<1>2. UNCHANGED delayedVars /\ DelayedThreads \subseteq Broadcasters
  BY DEF InformStep, Broadcasters
<1>3. CASE t \notin DelayedThreads
  <2>1. seen'.queued = seen.queued /\ seen'.delivered = seen.delivered
    BY <1>3 DEF InformStep, ServerTyped, SeenFields
  <2>2. \A u \in DelayedThreads : hand'[u] = hand[u]
    BY <1>1, <1>2, <1>3
  <2> QED
    BY <1>2, <2>1, <2>2, DelayedHandsSame
<1>4. CASE t \in DelayedThreads
  <2>1. /\ seen'.queued = seen.queued
        /\ seen'.delivered = Append(seen.delivered, hand[t].text)
    BY <1>4 DEF InformStep, ServerTyped, SeenFields
  <2>2. About(t) /\ hand[t].text \in Texts /\ delayed[t] # "none"
    BY <1>1, <1>2, <1>4 DEF About, HandsFit, HandFits
  <2>3. seen.queued = seen'.delivered \o delayedBroadCastMessages
    BY <1>4, <2>1, <2>2 DEF DelayedInv
  <2>4. ASSUME NEW u \in DelayedThreads PROVE ~(About(u)')
    <3>1. CASE u = t
      BY <1>1, <3>1 DEF About
    <3>2. CASE u # t
      <4>1. Free(u) /\ hand'[u] = hand[u]
        BY <1>1, <1>2, <1>4, <2>2, <3>2, OneDelayed
      <4> QED
        BY <4>1 DEF About, Free
    <3> QED
      BY <3>1, <3>2
  <2>5. UNCHANGED <<delayedBroadCastMessages, ongoing, delayed>>
    BY <1>2 DEF delayedVars
  <2>6. seen'.delivered \in Seq(Texts) /\ seen'.queued \in Seq(Texts)
    BY <2>1, <2>2 DEF DelayedInv
  <2>7. \A u, v \in DelayedThreads : delayed'[u] # "none" /\ delayed'[v] # "none" => u = v
    BY <2>5 DEF DelayedInv
  <2>8. ~ongoing' => \A u \in DelayedThreads : delayed'[u] = "none"
    BY <2>5 DEF DelayedInv
  <2>9. seen'.queued = seen'.delivered \o delayedBroadCastMessages'
    BY <2>1, <2>3, <2>5
  <2> QED
    BY <2>4, <2>6, <2>7, <2>8, <2>9 DEF DelayedInv
<1> QED
  BY <1>3, <1>4

LEMMA KeepStepDelayed ==
  ASSUME ServerTyped, HandsFit, DelayedInv, NEW t \in Broadcasters, KeepStep(t)
  PROVE  DelayedInv'
<1>1. /\ hand[t].step = "keep" /\ Free(t)'
      /\ \A u \in Broadcasters \ {t} : hand'[u] = hand[u]
  BY KeepStepTyped
<1>2. /\ UNCHANGED <<delayedVars, seen>>
      /\ DelayedThreads \subseteq Broadcasters
  BY DEF KeepStep, Broadcasters
<1>3. ASSUME NEW u \in DelayedThreads
      PROVE  /\ About(u)' <=> About(u)
             /\ About(u) => hand'[u].text = hand[u].text
  <2>1. CASE u = t
    <3>1. ~About(t) /\ ~(About(t)')
      BY <1>1 DEF About
    <3> QED
      BY <2>1, <3>1
  <2>2. CASE u # t
    <3>1. hand'[u] = hand[u]
      BY <1>1, <1>2, <2>2
    <3> QED
      BY <3>1 DEF About, Free
  <2> QED
    BY <2>1, <2>2
<1> QED
  BY <1>2, <1>3, DelayedSame

LEMMA DelayedStepDelayed ==
  ASSUME ServerTyped, HandsFit, DelayedInv, NEW t \in DelayedThreads, DelayedStep(t)
  PROVE  DelayedInv'
<1>1. /\ Free(t) /\ delayed[t] # "none" /\ t \in Broadcasters /\ seen' = seen
      /\ DelayedThreads \subseteq Broadcasters
  BY DEF DelayedStep, Free, Broadcasters
<1>2. \A u \in DelayedThreads : ~About(u) /\ (u # t => delayed[u] = "none")
  BY <1>1, OneDelayed DEF About
<1>3. seen.queued = seen.delivered \o delayedBroadCastMessages
  BY <1>2 DEF DelayedInv
<1>4. seen.queued \in Seq(Texts) /\ seen.delivered \in Seq(Texts)
  BY DEF DelayedInv
<1>5. CASE delayedBroadCastMessages # <<>>
  <2>1. /\ broadcastMessage(t, Head(delayedBroadCastMessages), TRUE)
        /\ delayedBroadCastMessages' = Tail(delayedBroadCastMessages)
        /\ delayed' = [delayed EXCEPT ![t] = "telling"]
        /\ ongoing' = ongoing
    BY <1>5 DEF DelayedStep
  <2>2. Takes(t, Head(delayedBroadCastMessages), TRUE)
    BY <1>1, <2>1, Broadcasting
  <2>3. \A u \in DelayedThreads : delayed'[u] # "none" => u = t
    BY <1>2, <2>1 DEF ServerTyped
  <2>4. ongoing'
    BY <1>1, <2>1 DEF DelayedInv
  <2>5. About(t)' /\ hand'[t].text = Head(delayedBroadCastMessages)
    BY <2>2 DEF Takes, About, Free, NoMessage
  <2>6. ASSUME NEW u \in DelayedThreads, u # t PROVE ~(About(u)')
    <3>1. hand'[u] = hand[u]
      BY <1>1, <2>2, <2>6 DEF Takes
    <3> QED
      BY <1>2, <3>1 DEF About, Free
  <2>7. seen'.queued = Append(seen'.delivered, hand'[t].text)
                          \o delayedBroadCastMessages'
    <3>1. /\ delayedBroadCastMessages \in Seq(Texts)
      BY DEF ServerTyped
    <3>2. seen.delivered \o delayedBroadCastMessages
             = Append(seen.delivered, Head(delayedBroadCastMessages))
                  \o Tail(delayedBroadCastMessages)
      BY <1>4, <1>5, <3>1, ListHead
    <3> QED
      BY <1>1, <1>3, <2>1, <2>5, <3>2
  <2> QED
    BY <1>1, <1>4, <2>3, <2>4, <2>5, <2>6, <2>7 DEF DelayedInv
<1>6. CASE delayedBroadCastMessages = <<>>
  <2>1. /\ delayed' = [delayed EXCEPT ![t] = "none"]
        /\ UNCHANGED <<hand, delayedBroadCastMessages>>
    BY <1>6 DEF DelayedStep
  <2>2. \A u \in DelayedThreads : delayed'[u] = "none"
    BY <1>2, <2>1 DEF ServerTyped
  <2>3. \A u \in DelayedThreads : ~(About(u)')
    BY <1>2, <2>1 DEF About, Free
  <2>4. seen'.queued = seen'.delivered \o delayedBroadCastMessages'
    BY <1>1, <1>3, <2>1
  <2> QED
    BY <1>1, <1>4, <2>2, <2>3, <2>4 DEF DelayedInv
<1> QED
  BY <1>5, <1>6

(* The hands of the threads of delayed broadcasts are theirs. *)
LEMMA TakesDelayed ==
  ASSUME DelayedInv, UNCHANGED delayedVars, NEW t \in Broadcasters \ DelayedThreads,
         NEW text, NEW keep, Takes(t, text, keep),
         seen'.queued = seen.queued, seen'.delivered = seen.delivered
  PROVE  DelayedInv'
<1>1. \A u \in DelayedThreads : hand'[u] = hand[u]
  BY DEF Takes, Broadcasters
<1> QED
  BY <1>1, DelayedHandsSame

LEMMA MainStepDelayed ==
  ASSUME ServerTyped, DelayedInv, MainStep
  PROVE  DelayedInv'
<1>1. UNCHANGED <<hand, delayedVars>>
  BY DEF MainStep, registerStateListener, TellClientId, PrepareStorageWarning,
     Greet, ReadPrompt, SendPrompt
<1>2. seen'.queued = seen.queued /\ seen'.delivered = seen.delivered
  <2>1. ASSUME NEW s \in Shells, registerStateListener(s)
        PROVE  seen'.queued = seen.queued /\ seen'.delivered = seen.delivered
    BY <2>1 DEF registerStateListener, ServerTyped, SeenFields
  <2>2. CASE Greet
    BY <2>2 DEF Greet, ServerTyped, SeenFields
  <2>3. CASE SendPrompt
    BY <2>3 DEF SendPrompt, ServerTyped, SeenFields
  <2>4. CASE TellClientId \/ PrepareStorageWarning \/ ReadPrompt
    BY <2>4 DEF TellClientId, PrepareStorageWarning, ReadPrompt
  <2> QED
    BY <2>1, <2>2, <2>3, <2>4 DEF MainStep
<1> QED
  BY <1>1, <1>2, DelayedHandsSame

LEMMA QueuedDelayed ==
  ASSUME ServerTyped, HandsFit, DelayedInv, NEW text \in Texts,
         broadcastDelayedMessage(text), UNCHANGED hand
  PROVE  DelayedInv'
<1>1. /\ delayedBroadCastMessages' = Append(delayedBroadCastMessages, text)
      /\ seen'.queued = Append(seen.queued, text)
      /\ seen'.delivered = seen.delivered
  BY DEF broadcastDelayedMessage, ServerTyped, SeenFields, Keeping
<1>2. /\ delayedBroadCastMessages \in Seq(Texts) /\ seen.queued \in Seq(Texts)
      /\ seen.delivered \in Seq(Texts)
  BY DEF ServerTyped, DelayedInv
<1>3. \A t \in DelayedThreads : About(t)' <=> About(t)
  BY DEF About, Free
<1>4. ASSUME NEW t \in DelayedThreads, About(t)
      PROVE  seen'.queued = Append(seen'.delivered, hand'[t].text)
                               \o delayedBroadCastMessages'
  <2>1. seen.queued = Append(seen.delivered, hand[t].text) \o delayedBroadCastMessages
    BY <1>4 DEF DelayedInv
  <2>2. hand[t].text \in Texts
    BY <1>4 DEF About, HandsFit, HandFits, Broadcasters
  <2>3. \A a, b \in Seq(Texts) : Append(a \o b, text) = a \o Append(b, text)
    BY AppendToParts
  <2>4. Append(seen.delivered, hand[t].text) \in Seq(Texts)
    BY <1>2, <2>2
  <2> QED
    BY <1>1, <1>2, <2>1, <2>3, <2>4
<1>5. ASSUME \A t \in DelayedThreads : ~About(t)
      PROVE  seen'.queued = seen'.delivered \o delayedBroadCastMessages'
  <2>1. seen.queued = seen.delivered \o delayedBroadCastMessages
    BY <1>5 DEF DelayedInv
  <2>2. \A a, b \in Seq(Texts) : Append(a \o b, text) = a \o Append(b, text)
    BY AppendToParts
  <2> QED
    BY <1>1, <1>2, <2>1, <2>2
<1>6. /\ \A t, u \in DelayedThreads : delayed'[t] # "none" /\ delayed'[u] # "none" => t = u
      /\ ongoing'
  <2>1. CASE ongoing
    BY <2>1 DEF broadcastDelayedMessage, DelayedInv
  <2>2. CASE ~ongoing
    <3>1. PICK t \in DelayedThreads : delayed' = [delayed EXCEPT ![t] = "sleeping"]
                                      /\ ongoing' = TRUE
      BY <2>2 DEF broadcastDelayedMessage
    <3>2. \A u \in DelayedThreads : delayed[u] = "none"
      BY <2>2 DEF DelayedInv
    <3> QED
      BY <3>1, <3>2 DEF ServerTyped
  <2> QED
    BY <2>1, <2>2
<1>7. seen'.queued \in Seq(Texts) /\ seen'.delivered \in Seq(Texts)
  BY <1>1, <1>2
<1> QED
  BY <1>3, <1>4, <1>5, <1>6, <1>7 DEF DelayedInv

LEMMA DisabledDelayed ==
  ASSUME ServerTyped, HandsFit, DelayedInv, SyncsDisabledEvent
  PROVE  DelayedInv'
<1>1. /\ delayedBroadCastMessages' = NotDisabled
      /\ seen'.queued = Taken \o NotDisabled
      /\ seen'.delivered = seen.delivered
      /\ UNCHANGED <<ongoing, delayed>>
  BY DEF SyncsDisabledEvent, ServerTyped, SeenFields, Keeping
<1>2. /\ delayedBroadCastMessages \in Seq(Texts) /\ NotDisabled \in Seq(Texts)
      /\ seen.queued \in Seq(Texts) /\ seen.delivered \in Seq(Texts)
  BY NotMatchingKeeps DEF ServerTyped, DelayedInv, NotDisabled
<1>3. \A t \in DelayedThreads : hand'[t] = hand[t]
  <2>1. Takes("sdk", "syncs disabled", TRUE)
    BY Broadcasting DEF SyncsDisabledEvent, Broadcasters
  <2> QED
    BY <2>1 DEF Takes, Broadcasters, DelayedThreads
<1>4. \A t \in DelayedThreads : About(t)' <=> About(t)
  BY <1>3 DEF About, Free
<1>5. \A a, b \in Seq(Texts) : SubSeq(a \o b, 1, Len(a \o b) - Len(b)) = a
  <2>1. "security" \in Texts
    BY DEF Texts
  <2> QED
    BY <2>1, ListParts
<1>6. ASSUME NEW t \in DelayedThreads, About(t)
      PROVE  Taken = Append(seen.delivered, hand[t].text)
  <2>1. seen.queued = Append(seen.delivered, hand[t].text) \o delayedBroadCastMessages
    BY <1>6 DEF DelayedInv
  <2>2. hand[t].text \in Texts
    BY <1>6 DEF About, HandsFit, HandFits, Broadcasters
  <2>3. Append(seen.delivered, hand[t].text) \in Seq(Texts)
    BY <1>2, <2>2
  <2> QED
    BY <1>2, <1>5, <2>1, <2>3 DEF Taken
<1>7. ASSUME \A t \in DelayedThreads : ~About(t)
      PROVE  Taken = seen.delivered
  <2>1. seen.queued = seen.delivered \o delayedBroadCastMessages
    BY <1>7 DEF DelayedInv
  <2> QED
    BY <1>2, <1>5, <2>1 DEF Taken
<1>8. Taken \in Seq(Texts)
  <2>1. ASSUME NEW t \in DelayedThreads, About(t) PROVE Taken \in Seq(Texts)
    <3>1. hand[t].text \in Texts
      BY <2>1 DEF About, HandsFit, HandFits, Broadcasters
    <3>2. Taken = Append(seen.delivered, hand[t].text)
      BY <1>6, <2>1
    <3>3. Append(seen.delivered, hand[t].text) \in Seq(Texts)
      BY <1>2, <3>1
    <3> QED
      BY <3>2, <3>3
  <2> QED
    BY <1>2, <1>7, <2>1
<1>9. seen'.queued \in Seq(Texts) /\ seen'.delivered \in Seq(Texts)
  BY <1>1, <1>2, <1>8, ConcatProperties
<1>10. ASSUME NEW t \in DelayedThreads, About(t)
       PROVE  seen'.queued = Append(seen'.delivered, hand'[t].text)
                                \o delayedBroadCastMessages'
  BY <1>1, <1>3, <1>6, <1>10
<1>11. ASSUME \A t \in DelayedThreads : ~About(t)
       PROVE  seen'.queued = seen'.delivered \o delayedBroadCastMessages'
  BY <1>1, <1>7, <1>11
<1>12. /\ \A t, u \in DelayedThreads : delayed'[t] # "none" /\ delayed'[u] # "none" => t = u
       /\ ~ongoing' => \A t \in DelayedThreads : delayed'[t] = "none"
  BY <1>1 DEF DelayedInv
<1> QED
  BY <1>4, <1>9, <1>10, <1>11, <1>12 DEF DelayedInv

LEMMA SdkStepDelayed ==
  ASSUME ServerTyped, HandsFit, DelayedInv, SdkStep
  PROVE  DelayedInv'
<1>0. "sdk" \in Broadcasters \ DelayedThreads
  BY DEF Broadcasters, DelayedThreads
<1>1. ASSUME UNCHANGED <<hand, delayedVars>>,
             seen'.queued = seen.queued, seen'.delivered = seen.delivered
      PROVE  DelayedInv'
  BY <1>1, DelayedHandsSame
<1>2. \A text : broadcastMessage("sdk", text, FALSE) => Takes("sdk", text, FALSE)
  BY <1>0, Broadcasting
<1>3. \A text : changeprompt("sdk", text) => Takes("sdk", text, FALSE)
  BY <1>0, Prompting
<1>4. CASE SyncOrMountEvent
  <2>1. CASE Event.bad
    <3>1. Event.text \in Texts
      <4>1. Event \in SdkEvents /\ Event.type = "syncOrMount"
        BY <1>4, EventTyped DEF SyncOrMountEvent, EventIs
      <4> QED
        BY <2>1, <4>1 DEF SdkEvents, Texts
    <3>2. broadcastDelayedMessage(Event.text) /\ UNCHANGED hand
      BY <1>4, <2>1 DEF SyncOrMountEvent
    <3> QED
      BY <3>1, <3>2, QueuedDelayed
  <2>2. CASE ~Event.bad
    BY <1>1, <1>4, <2>2 DEF SyncOrMountEvent
  <2> QED
    BY <2>1, <2>2
<1>5. CASE StorageEvent \/ SecurityEvent \/ LogoutAnswer \/ actUponLogout
  <2>1. UNCHANGED delayedVars
    BY <1>5 DEF StorageEvent, SecurityEvent, LogoutAnswer, actUponLogout
  <2>2. seen'.queued = seen.queued /\ seen'.delivered = seen.delivered
    <3>1. CASE StorageEvent
      BY <3>1 DEF StorageEvent, ServerTyped, SeenFields
    <3>2. CASE SecurityEvent
      BY <3>2 DEF SecurityEvent, ServerTyped, SeenFields
    <3>3. CASE LogoutAnswer
      BY <3>3 DEF LogoutAnswer, ServerTyped, SeenFields
    <3>4. CASE actUponLogout
      BY <3>4 DEF actUponLogout, ServerTyped, SeenFields
    <3> QED
      BY <1>5, <3>1, <3>2, <3>3, <3>4
  <2>3. UNCHANGED hand \/ \E text : Takes("sdk", text, FALSE)
    BY <1>2, <1>3, <1>5 DEF StorageEvent, SecurityEvent, LogoutAnswer, actUponLogout
  <2> QED
    BY <1>0, <1>1, <2>1, <2>2, <2>3, TakesDelayed
<1>6. CASE PaywallAnswer
  <2>1. PICK ok \in BOOLEAN :
          /\ broadcastMessage("sdk", Warning(PAYWALL), FALSE) \/ UNCHANGED hand
          /\ seen' = [seen EXCEPT !.paywallFailed = @ \/ ~ok]
    BY <1>6, Zenon DEF PaywallAnswer
  <2>2. seen'.queued = seen.queued /\ seen'.delivered = seen.delivered
    BY <2>1 DEF ServerTyped, SeenFields
  <2>3. UNCHANGED delayedVars
    BY <1>6 DEF PaywallAnswer
  <2> QED
    BY <1>0, <1>1, <1>2, <2>1, <2>2, <2>3, TakesDelayed
<1>7. CASE FatalErrorEvent
  <2>1. UNCHANGED <<delayedVars, seen>>
    BY <1>7 DEF FatalErrorEvent
  <2>2. UNCHANGED hand \/ Takes("sdk", "fatal", FALSE)
    BY <1>2, <1>7 DEF FatalErrorEvent
  <2> QED
    BY <1>0, <1>1, <2>1, <2>2, TakesDelayed
<1>8. CASE onGlobalSyncStateChanged \/ StallListAnswer
  BY <1>1, <1>8 DEF onGlobalSyncStateChanged, StallListAnswer
<1> QED
  BY <1>4, <1>5, <1>6, <1>7, <1>8, DisabledDelayed DEF SdkStep

LEMMA OtherStepsDelayed ==
  ASSUME ServerTyped, HandsFit, DelayedInv,
         \/ SyncsStall \/ DebouncerTriggers \/ DebouncerReturns
         \/ ChangeDirectory \/ TellRestart \/ ConfirmSecurity \/ SetWarning
         \/ \E i \in Ids : verifySharedFolders(i) \/ VerificationReturns(i)
         \/ TriggerStep
  PROVE  DelayedInv'
<1>0. /\ "petition" \in Broadcasters \ DelayedThreads
      /\ "debouncer" \in Broadcasters \ DelayedThreads
      /\ "verifier" \in Broadcasters \ DelayedThreads
  BY DEF Broadcasters, DelayedThreads
<1>1. ASSUME UNCHANGED <<hand, delayedVars>>,
             seen'.queued = seen.queued, seen'.delivered = seen.delivered
      PROVE  DelayedInv'
  BY <1>1, DelayedHandsSame
<1>2. CASE SyncsStall \/ DebouncerReturns \/ SetWarning \/ TriggerStep
  BY <1>1, <1>2 DEF SyncsStall, DebouncerReturns, SetWarning, TriggerStep, serverVars
<1>3. CASE DebouncerTriggers
  <2>1. UNCHANGED delayedVars
    BY <1>3 DEF DebouncerTriggers
  <2>2. seen'.queued = seen.queued /\ seen'.delivered = seen.delivered
    BY <1>3 DEF DebouncerTriggers, ServerTyped, SeenFields, Keeping
  <2>3. UNCHANGED hand \/ Takes("debouncer", "sync issues", TRUE)
    BY <1>0, <1>3, Broadcasting DEF DebouncerTriggers
  <2> QED
    BY <1>0, <1>1, <2>1, <2>2, <2>3, TakesDelayed
<1>4. CASE ChangeDirectory \/ TellRestart
  <2>1. UNCHANGED <<delayedVars, seen>>
    BY <1>4 DEF ChangeDirectory, TellRestart
  <2>2. \A u \in DelayedThreads : hand'[u] = hand[u]
    <3>1. hand' = [hand EXCEPT !["petition"] = hand'["petition"]]
      BY <1>4 DEF ChangeDirectory, TellRestart, changeprompt, ServerTyped
    <3> QED
      BY <1>0, <3>1 DEF ServerTyped, Broadcasters
  <2> QED
    BY <2>1, <2>2, DelayedHandsSame
<1>5. CASE ConfirmSecurity
  <2>1. seen'.queued = seen.queued /\ seen'.delivered = seen.delivered
    BY <1>5 DEF ConfirmSecurity, ServerTyped, SeenFields
  <2> QED
    BY <1>1, <1>5, <2>1 DEF ConfirmSecurity
<1>6. ASSUME NEW i \in Ids, verifySharedFolders(i) PROVE DelayedInv'
  <2>1. UNCHANGED delayedVars
    BY <1>6 DEF verifySharedFolders
  <2>2. seen'.queued = seen.queued /\ seen'.delivered = seen.delivered
    BY <1>6 DEF verifySharedFolders, ServerTyped, SeenFields, Keeping
  <2>3. UNCHANGED hand \/ Takes("verifier", Caveats[1], TRUE)
    <3>1. UNCHANGED hand \/ broadcastMessage("verifier", Caveats[1], TRUE)
      BY <1>6 DEF verifySharedFolders
    <3> QED
      BY <1>0, <3>1, Broadcasting
  <2> QED
    BY <1>0, <1>1, <2>1, <2>2, <2>3, TakesDelayed
<1>7. ASSUME NEW i \in Ids, VerificationReturns(i) PROVE DelayedInv'
  BY <1>1, <1>7 DEF VerificationReturns
<1> QED
  BY <1>2, <1>3, <1>4, <1>5, <1>6, <1>7

LEMMA NothingQueued ==
  /\ <<>> \in Seq(Texts)
  /\ <<>> = <<>> \o <<>>
BY EmptySeq

LEMMA ServerDiesDelayed ==
  ASSUME ServerTyped, ServerDies
  PROVE  DelayedInv'
<1>1. /\ delayed' = [t \in DelayedThreads |-> "none"]
      /\ hand' = [t \in Broadcasters |-> NoMessage]
      /\ delayedBroadCastMessages' = <<>>
  BY DEF ServerDies, ForgetEverything
<1>2. seen'.queued = <<>> /\ seen'.delivered = <<>>
  BY DEF ServerDies, ServerTyped, SeenFields
<1>3. \A t \in DelayedThreads : delayed'[t] = "none" /\ ~(About(t)')
  BY <1>1 DEF About, Free, Broadcasters
<1>4. seen'.queued = seen'.delivered \o delayedBroadCastMessages'
  BY <1>1, <1>2, NothingQueued
<1>5. seen'.queued \in Seq(Texts) /\ seen'.delivered \in Seq(Texts)
  BY <1>2, NothingQueued
<1> QED
  BY <1>3, <1>4, <1>5 DEF DelayedInv

LEMMA InitDelayed == SystemInit => DelayedInv
<1> SUFFICES ASSUME SystemInit PROVE DelayedInv
  OBVIOUS
<1>1. /\ delayed = [t \in DelayedThreads |-> "none"]
      /\ hand = [t \in Broadcasters |-> NoMessage]
      /\ delayedBroadCastMessages = <<>>
      /\ seen.queued = <<>> /\ seen.delivered = <<>>
  BY DEF SystemInit, ServerInit, StartedServer
<1>2. \A t \in DelayedThreads : delayed[t] = "none" /\ ~About(t)
  BY <1>1 DEF About, Free, Broadcasters
<1>3. seen.queued = seen.delivered \o delayedBroadCastMessages
  BY <1>1, NothingQueued
<1>4. seen.queued \in Seq(Texts) /\ seen.delivered \in Seq(Texts)
  BY <1>1, NothingQueued
<1> QED
  BY <1>2, <1>3, <1>4 DEF DelayedInv

LEMMA SystemDelayed ==
  ServerTyped /\ HandsFit /\ DelayedInv /\ [SystemNext]_systemVars => DelayedInv'
<1> SUFFICES ASSUME ServerTyped, HandsFit, DelayedInv, [SystemNext]_systemVars
             PROVE  DelayedInv'
  OBVIOUS
<1>1. ASSUME UNCHANGED <<hand, delayedVars, seen>> PROVE DelayedInv'
  BY <1>1, DelayedHandsSame
<1>2. ASSUME UNCHANGED systemVars PROVE UNCHANGED <<hand, delayedVars, seen>>
  BY <1>2 DEF systemVars, serverVars
<1>3. ASSUME NEW s \in Shells, ShellStep(s) PROVE UNCHANGED <<hand, delayedVars, seen>>
  BY <1>3, ShellLeavesServer DEF serverState
<1>4. CASE BroadcastStep
  BY <1>4, InformStepDelayed, KeepStepDelayed DEF BroadcastStep
<1>5. CASE ServerNext
  BY <1>4, <1>5, MainStepDelayed, SdkStepDelayed, DelayedStepDelayed,
     OtherStepsDelayed
  DEF ServerNext
<1> QED
  BY <1>1, <1>2, <1>3, <1>5, ServerDiesDelayed DEF SystemNext, ShellStep

(* Delayed messages are told one after the other, in the order they were    *)
(* queued in, also when one of them is superseded while it waits.           *)
THEOREM DelayedInOrderHolds == SystemSpec => []DelayedInOrder
<1>1. ServerTyped /\ HandsFit /\ DelayedInv => DelayedInOrder
  <2> SUFFICES ASSUME ServerTyped, HandsFit, DelayedInv PROVE DelayedInOrder
    OBVIOUS
  <2>1. /\ delayedBroadCastMessages \in Seq(Texts) /\ seen.delivered \in Seq(Texts)
        /\ "security" \in Texts
    BY DEF ServerTyped, DelayedInv, Texts
  <2>2. CASE \A t \in DelayedThreads : ~About(t)
    <3>1. seen.queued = seen.delivered \o delayedBroadCastMessages
      BY <2>2 DEF DelayedInv
    <3>2. IsPrefix(seen.delivered, seen.delivered \o delayedBroadCastMessages)
      BY <2>1, ListParts
    <3> QED
      BY <3>1, <3>2 DEF DelayedInOrder
  <2>3. ASSUME NEW t \in DelayedThreads, About(t) PROVE DelayedInOrder
    <3> DEFINE text == hand[t].text
    <3>1. text \in Texts
      BY <2>3 DEF About, HandsFit, HandFits, Broadcasters
    <3>2. seen.queued = Append(seen.delivered, text) \o delayedBroadCastMessages
      BY <2>3 DEF DelayedInv
    <3> HIDE DEF text
    <3>4. /\ <<text>> \o delayedBroadCastMessages \in Seq(Texts)
          /\ seen.queued = seen.delivered \o (<<text>> \o delayedBroadCastMessages)
      <4>1. \A a, b \in Seq(Texts) : /\ <<text>> \o b \in Seq(Texts)
                                    /\ Append(a, text) \o b = a \o (<<text>> \o b)
        BY <3>1, ListMiddle
      <4> QED
        BY <2>1, <3>2, <4>1
    <3>6. \A b \in Seq(Texts) : IsPrefix(seen.delivered, seen.delivered \o b)
      BY <2>1, ListParts
    <3> QED
      BY <3>4, <3>6 DEF DelayedInOrder
  <2> QED
    BY <2>2, <2>3
<1> QED
  BY <1>1, InitTyped, InitDelayed, SystemTyped, SystemDelayed, PTL DEF SystemSpec

(* -- what every shell is told -------------------------------------------- *)

LEMMA Levels ==
  /\ \A l \in {ORANGE, RED, PAYWALL} : LevelOf(Warning(l)) = l
  /\ \A text : LevelOf(text) \in 0 .. 4
<1>1. /\ GREEN = 0 /\ ORANGE = 1 /\ RED = 2 /\ PAYWALL = 4
  BY DEF GREEN, ORANGE, RED, PAYWALL
<1>2. \A k, l \in {ORANGE, RED, PAYWALL} : Warning(k) = Warning(l) => k = l
  BY <1>1 DEF Warning
<1>3. ASSUME NEW l \in {ORANGE, RED, PAYWALL} PROVE LevelOf(Warning(l)) = l
  BY <1>2 DEF LevelOf
<1>4. ASSUME NEW text PROVE LevelOf(text) \in {GREEN, ORANGE, RED, PAYWALL}
  BY DEF LevelOf
<1> QED
  BY <1>1, <1>3, <1>4

LEMMA LevelTyped ==
  ASSUME ToldInv, NEW s \in Shells
  PROVE  /\ \A places : Before(s, places) => registration.level \in 0 .. 4
         /\ Level(s) \in 0 .. 4 /\ Level(s) >= seen.warned[s]
<1>1. \A places : Before(s, places) => registration.level \in 0 .. 4
  <2>1. registration.pc # "idle" => registration # Idle
    BY DEF Idle
  <2>2. registration # Idle => registration.level \in 0 .. 4
    BY DEF ToldInv, RegistrationFits
  <2> QED
    BY <2>1, <2>2 DEF Before, Registering
<1>2. seen.warned[s] \in 0 .. 4
  BY DEF ToldInv
<1> QED
  BY <1>1, <1>2 DEF Level

(* Nothing happens but that threads with free hands take messages, and      *)
(* shells leave.                                                            *)
LEMMA ToldStays ==
  ASSUME ToldInv, UNCHANGED <<registration, storageStatus>>,
         Listening' \subseteq Listening,
         sdk'.paywall = sdk.paywall, seen'.paywallFailed = seen.paywallFailed,
         seen'.told = seen.told, seen'.warned = seen.warned,
         seen'.security => seen.security,
         UNCHANGED greetingsAllClientMsgs \/ ~seen'.security,
         \A t \in Broadcasters :
            About(t) => About(t)' /\ hand'[t].text = hand[t].text
  PROVE  ToldInv'
<1>1. "sdk" \in Broadcasters
  BY DEF Broadcasters
<1>2. RegistrationFits' /\ \A s, places : Before(s, places)' <=> Before(s, places)
  BY DEF ToldInv, RegistrationFits, Before, Registering
<1>3. seen'.security => "security" \in ToSet(greetingsAllClientMsgs')
  BY DEF ToldInv
<1>4. ASSUME NEW s \in Listening', seen'.security PROVE Secured(s)'
  <2>1. Secured(s)
    BY <1>4 DEF ToldInv
  <2>2. CASE "security" \in seen.told[s] \/ Before(s, {"id", "storage", "greet"})
    BY <1>2, <2>2 DEF Secured
  <2>3. ASSUME NEW t \in Broadcasters, About(t), hand[t].text = "security"
        PROVE  Secured(s)'
    <3>1. About(t)' /\ hand'[t].text = "security"
      BY <2>3
    <3> QED
      BY <3>1 DEF Secured
  <2> QED
    BY <2>1, <2>2, <2>3 DEF Secured
<1>5. ASSUME NEW s \in Listening' PROVE WarnedInTime(s)'
  <2>1. WarnedInTime(s)
    BY <1>5 DEF ToldInv
  <2>2. Level(s)' = Level(s)
    BY <1>2 DEF Level
  <2>3. CASE \/ Level(s) >= storageStatus \/ sdk.paywall # "none"
             \/ seen.paywallFailed \/ Before(s, {"id", "storage"})
    BY <1>2, <2>2, <2>3 DEF WarnedInTime
  <2>4. ASSUME NEW l \in {ORANGE, RED, PAYWALL}, About("sdk"),
               hand["sdk"].text = Warning(l), l >= storageStatus
        PROVE  WarnedInTime(s)'
    <3>1. About("sdk")' /\ hand'["sdk"].text = Warning(l)
      BY <1>1, <2>4
    <3> QED
      BY <2>4, <3>1 DEF WarnedInTime
  <2> QED
    BY <2>1, <2>3, <2>4 DEF WarnedInTime
<1> QED
  BY <1>2, <1>3, <1>4, <1>5 DEF ToldInv

LEMMA InformStepTold ==
  ASSUME ServerTyped, HandsFit, ToldInv, NEW t \in Broadcasters, InformStep(t)
  PROVE  ToldInv'
<1>1. /\ ~Free(t) /\ \A u \in Broadcasters \ {t} : hand'[u] = hand[u]
      /\ hand[t].step = "inform"
  BY InformStepTyped
<1>2. /\ UNCHANGED <<registration, storageStatus, sdk, greetingsAllClientMsgs>>
      /\ Listening' = Listening
  BY DEF InformStep, informStateListeners, mainVars, greetingVars, Listening
<1>3. /\ seen'.security = seen.security /\ seen'.paywallFailed = seen.paywallFailed
      /\ seen'.told = Told(Listening, {hand[t].text})
      /\ seen'.warned = Warned(Listening, LevelOf(hand[t].text))
  BY DEF InformStep, ServerTyped, SeenFields
<1>4. /\ \A s \in Listening : seen'.told[s] = seen.told[s] \cup {hand[t].text}
      /\ DOMAIN seen'.told = Shells
  BY <1>3 DEF Told, Listening, ServerTyped
<1>5. /\ seen'.warned \in [Shells -> 0 .. 4]
      /\ \A s \in Listening : /\ seen'.warned[s] >= seen.warned[s]
                              /\ seen'.warned[s] >= LevelOf(hand[t].text)
  <2>1. LevelOf(hand[t].text) \in 0 .. 4
    BY Levels
  <2>2. seen.warned \in [Shells -> 0 .. 4]
    BY DEF ToldInv
  <2>3. Listening \subseteq Shells
    BY DEF Listening, ServerTyped
  <2> HIDE DEF Listening
  <2> QED
    BY <1>3, <2>1, <2>2, <2>3 DEF Warned
<1>6. RegistrationFits' /\ \A s, places : Before(s, places)' <=> Before(s, places)
  BY <1>2 DEF ToldInv, RegistrationFits, Before, Registering
<1>7. ASSUME NEW s \in Listening', seen'.security PROVE Secured(s)'
  <2>1. Secured(s)
    BY <1>2, <1>3, <1>7 DEF ToldInv
  <2>2. CASE "security" \in seen.told[s] \/ Before(s, {"id", "storage", "greet"})
    BY <1>2, <1>4, <1>6, <1>7, <2>2 DEF Secured
  <2>3. ASSUME NEW u \in Broadcasters, About(u), hand[u].text = "security"
        PROVE  Secured(s)'
    <3>1. CASE u = t
      BY <1>2, <1>4, <1>7, <2>3, <3>1 DEF Secured
    <3>2. CASE u # t
      <4>1. About(u)' /\ hand'[u].text = "security"
        BY <1>1, <2>3, <3>2 DEF About, Free
      <4> QED
        BY <4>1 DEF Secured
    <3> QED
      BY <3>1, <3>2
  <2> QED
    BY <2>1, <2>2, <2>3 DEF Secured
<1>8. ASSUME NEW s \in Listening' PROVE WarnedInTime(s)'
  <2>1. WarnedInTime(s) /\ s \in Listening /\ s \in Shells
    BY <1>2, <1>8 DEF ToldInv, Listening, ServerTyped
  <2>2. /\ Level(s) \in 0 .. 4 /\ storageStatus \in 0 .. 4 /\ seen.warned[s] \in 0 .. 4
        /\ seen'.warned[s] \in 0 .. 4 /\ LevelOf(hand[t].text) \in 0 .. 4
        /\ Before(s, {"greet", "prompt", "send"}) => registration.level \in 0 .. 4
    BY <1>5, <2>1, LevelTyped, Levels DEF ServerTyped, ToldInv
  <2>3. /\ Level(s)' >= Level(s) /\ Level(s)' >= LevelOf(hand[t].text)
        /\ Level(s)' \in 0 .. 4
    BY <1>2, <1>5, <1>6, <2>1, <2>2 DEF Level
  <2>4. CASE Level(s) >= storageStatus
    BY <1>2, <2>2, <2>3, <2>4 DEF WarnedInTime
  <2>5. CASE sdk.paywall # "none" \/ seen.paywallFailed \/ Before(s, {"id", "storage"})
    BY <1>2, <1>3, <1>6, <2>5 DEF WarnedInTime
  <2>6. ASSUME NEW l \in {ORANGE, RED, PAYWALL}, About("sdk"),
               hand["sdk"].text = Warning(l), l >= storageStatus
        PROVE  WarnedInTime(s)'
    <3>1. CASE t = "sdk"
      <4>1. LevelOf(hand[t].text) = l
        BY <2>6, <3>1, Levels
      <4>2. l \in Int
        BY DEF ORANGE, RED, PAYWALL
      <4>3. Level(s)' >= storageStatus'
        BY <1>2, <2>2, <2>3, <2>6, <4>1, <4>2
      <4> QED
        BY <4>3 DEF WarnedInTime
    <3>2. CASE t # "sdk"
      <4>1. About("sdk")' /\ hand'["sdk"].text = Warning(l)
        BY <1>1, <2>6, <3>2 DEF About, Free, Broadcasters
      <4> QED
        BY <1>2, <2>6, <4>1 DEF WarnedInTime
    <3> QED
      BY <3>1, <3>2
  <2> QED
    BY <2>1, <2>4, <2>5, <2>6 DEF WarnedInTime
<1> QED
  BY <1>2, <1>3, <1>4, <1>5, <1>6, <1>7, <1>8 DEF ToldInv

(* The registration of a shell goes on. *)
LEMMA ToldGoesOn ==
  ASSUME ServerTyped, ToldInv, RegistrationFits',
         UNCHANGED <<hand, storageStatus, sdk, greetingsAllClientMsgs>>,
         Listening' = Listening,
         seen'.security = seen.security, seen'.paywallFailed = seen.paywallFailed,
         seen'.warned \in [Shells -> 0 .. 4], DOMAIN seen'.told = Shells,
         \A s \in Listening :
            /\ seen.told[s] \subseteq seen'.told[s]
            /\ seen.security /\ Before(s, {"id", "storage", "greet"}) =>
                  \/ Before(s, {"id", "storage", "greet"})'
                  \/ "security" \in seen'.told[s]
            /\ Level(s)' >= Level(s)
            /\ Before(s, {"id", "storage"}) =>
                  Before(s, {"id", "storage"})' \/ Level(s)' >= storageStatus
  PROVE  ToldInv'
<1>1. \A t \in Broadcasters : About(t)' <=> About(t)
  BY DEF About, Free
<1>2. ASSUME NEW s \in Listening, seen.security PROVE Secured(s)'
  <2>1. Secured(s)
    BY <1>2 DEF ToldInv
  <2>2. CASE "security" \in seen.told[s] \/ Before(s, {"id", "storage", "greet"})
    BY <1>2, <2>2 DEF Secured
  <2>3. ASSUME NEW t \in Broadcasters, About(t), hand[t].text = "security"
        PROVE  Secured(s)'
    BY <1>1, <2>3 DEF Secured
  <2> QED
    BY <2>1, <2>2, <2>3 DEF Secured
<1>3. ASSUME NEW s \in Listening, Level(s)' \in Int PROVE WarnedInTime(s)'
  <2>1. WarnedInTime(s) /\ s \in Shells
    BY <1>3 DEF ToldInv, Listening, ServerTyped
  <2>2. CASE Level(s) >= storageStatus
    <3>1. Level(s) \in 0 .. 4 /\ storageStatus \in 0 .. 4
      BY <2>1, LevelTyped DEF ServerTyped
    <3>2. Level(s)' >= Level(s)
      BY <1>3
    <3>3. Level(s)' >= storageStatus'
      BY <1>3, <2>2, <3>1, <3>2
    <3> QED
      BY <3>3 DEF WarnedInTime
  <2>3. CASE Before(s, {"id", "storage"})
    <3>1. Before(s, {"id", "storage"})' \/ Level(s)' >= storageStatus'
      BY <1>3, <2>3
    <3> QED
      BY <3>1 DEF WarnedInTime
  <2>4. CASE sdk.paywall # "none" \/ seen.paywallFailed
    BY <2>4 DEF WarnedInTime
  <2>5. ASSUME NEW l \in {ORANGE, RED, PAYWALL}, About("sdk"),
               hand["sdk"].text = Warning(l), l >= storageStatus
        PROVE  WarnedInTime(s)'
    <3>1. About("sdk")'
      BY <1>1, <2>5 DEF Broadcasters
    <3> QED
      BY <2>5, <3>1 DEF WarnedInTime
  <2> QED
    BY <2>1, <2>2, <2>3, <2>4, <2>5 DEF WarnedInTime
<1>4. ASSUME NEW s \in Shells PROVE Level(s)' \in 0 .. 4
  <2>1. registration'.pc # "idle" => registration'.level \in 0 .. 4
    BY DEF RegistrationFits, Idle
  <2>2. seen'.warned[s] \in 0 .. 4
    OBVIOUS
  <2> QED
    BY <2>1, <2>2 DEF Level, Before, Registering
<1>5. Listening \subseteq Shells
  BY DEF Listening, ServerTyped
<1>6. \A s \in Listening : WarnedInTime(s)'
  BY <1>3, <1>4, <1>5
<1> QED
  BY <1>2, <1>6 DEF ToldInv

(* A shell that is registered is about to be told everything. *)
LEMMA RegisterTold ==
  ASSUME ServerTyped, ToldInv, NEW s \in Shells, registerStateListener(s)
  PROVE  ToldInv'
<1>1. /\ UNCHANGED <<hand, storageStatus, sdk, greetingsAllClientMsgs>>
      /\ registration.pc = "idle" /\ socket[s] = "pending"
  BY DEF registerStateListener, greetingVars, At
<1>2. \A u, places : ~Before(u, places)
  BY <1>1 DEF Before, Registering
<1>3. /\ seen'.security = seen.security /\ seen'.paywallFailed = seen.paywallFailed
      /\ seen'.told = [seen.told EXCEPT ![s] = {}]
      /\ seen'.warned = [seen.warned EXCEPT ![s] = GREEN]
  BY DEF registerStateListener, ServerTyped, SeenFields
<1>4. seen'.warned \in [Shells -> 0 .. 4] /\ DOMAIN seen'.told = Shells
  <2>1. GREEN \in 0 .. 4
    BY DEF GREEN
  <2> QED
    BY <1>3, <2>1 DEF ToldInv
<1>5. /\ RegistrationFits'
      /\ \A u \in Shells \ {s} : \A places : ~(Before(u, places)')
      /\ Listening' \subseteq Listening \cup {s}
      /\ s \in Listening' => Before(s, {"id"})'
  <2>1. CASE Cardinality(Listening) >= plan.maxStateListeners
    <3>1. /\ stateListenersPetitions' = Listening
          /\ socket' = [socket EXCEPT ![s] = "dropped"]
          /\ registration' = registration
      BY <2>1 DEF registerStateListener
    <3>2. RegistrationFits'
      BY <3>1 DEF ToldInv, RegistrationFits
    <3>3. \A u, places : ~(Before(u, places)')
      BY <1>1, <3>1 DEF Before, Registering
    <3>4. Listening' \subseteq Listening /\ s \notin Listening'
      BY <1>1, <3>1 DEF Listening, ServerTyped
    <3> QED
      BY <3>2, <3>3, <3>4
  <2>2. CASE ~(Cardinality(Listening) >= plan.maxStateListeners)
    <3>1. /\ stateListenersPetitions' = Listening \cup {s}
          /\ socket' = [socket EXCEPT ![s] = "open"]
          /\ registration' = [pc |-> "id", shell |-> s, level |-> GREEN, prompt |-> ""]
      BY <2>2 DEF registerStateListener
    <3>2. RegistrationFits'
      <4>1. DOMAIN registration' = {"pc", "shell", "level", "prompt"}
        BY <3>1
      <4>2. /\ registration'.pc = "id" /\ registration'.shell = s
            /\ registration'.level = 0
        BY <3>1 DEF GREEN
      <4> QED
        BY <4>1, <4>2 DEF RegistrationFits, RegistrationPlaces
    <3>3. /\ \A u \in Shells \ {s} : \A places : ~(Before(u, places)')
          /\ Before(s, {"id"})'
      BY <3>1 DEF Before, Registering
    <3>4. Listening' \subseteq Listening \cup {s}
      BY <3>1 DEF Listening, ServerTyped
    <3> QED
      BY <3>2, <3>3, <3>4
  <2> QED
    BY <2>1, <2>2
<1>6. \A t \in Broadcasters : About(t)' <=> About(t)
  BY <1>1 DEF About, Free
<1>7. \A u \in Listening' : u \in Shells /\ (u # s => u \in Listening)
  BY <1>5 DEF Listening, ServerTyped
<1>8. ASSUME NEW u \in Listening', u # s, seen'.security PROVE Secured(u)'
  <2>1. /\ Secured(u) /\ u \in Shells /\ ~Before(u, {"id", "storage", "greet"})
        /\ seen'.told[u] = seen.told[u]
    BY <1>2, <1>3, <1>7, <1>8 DEF ToldInv
  <2>2. CASE "security" \in seen.told[u]
    BY <2>1, <2>2 DEF Secured
  <2>3. ASSUME NEW t \in Broadcasters, About(t), hand[t].text = "security"
        PROVE  Secured(u)'
    BY <1>1, <1>6, <2>3 DEF Secured
  <2> QED
    BY <2>1, <2>2, <2>3 DEF Secured
<1>9. ASSUME NEW u \in Listening', u # s PROVE WarnedInTime(u)'
  <2>1. /\ WarnedInTime(u) /\ u \in Shells /\ ~Before(u, {"id", "storage"})
        /\ seen'.warned[u] = seen.warned[u]
    BY <1>2, <1>3, <1>7, <1>9 DEF ToldInv
  <2>2. Level(u)' = Level(u)
    BY <1>2, <1>5, <1>9, <2>1 DEF Level
  <2>3. CASE Level(u) >= storageStatus \/ sdk.paywall # "none" \/ seen.paywallFailed
    BY <1>1, <1>3, <2>2, <2>3 DEF WarnedInTime
  <2>4. ASSUME NEW l \in {ORANGE, RED, PAYWALL}, About("sdk"),
               hand["sdk"].text = Warning(l), l >= storageStatus
        PROVE  WarnedInTime(u)'
    <3>1. About("sdk")'
      BY <1>6, <2>4 DEF Broadcasters
    <3> QED
      BY <1>1, <2>4, <3>1 DEF WarnedInTime
  <2> QED
    BY <2>1, <2>3, <2>4 DEF WarnedInTime
<1>10. s \in Listening' => Secured(s)' /\ WarnedInTime(s)'
  BY <1>5 DEF Secured, WarnedInTime, Before
<1>11. seen'.security => "security" \in ToSet(greetingsAllClientMsgs')
  BY <1>1, <1>3 DEF ToldInv
<1>12. sdk'.paywall \in {"none", "user data", "details"}
  BY <1>1 DEF ToldInv
<1>13. \A u \in Listening' : (seen'.security => Secured(u)') /\ WarnedInTime(u)'
  BY <1>8, <1>9, <1>10
<1> QED
  BY <1>4, <1>5, <1>11, <1>12, <1>13 DEF ToldInv

(* What is known of the shell that is being registered. *)
LEMMA GoesOn ==
  ASSUME ServerTyped, ToldInv, registration.pc # "idle"
  PROVE  /\ DOMAIN registration = {"pc", "shell", "level", "prompt"}
         /\ registration.shell \in Shells /\ registration.level \in 0 .. 4
         /\ \A s : \A places : Before(s, places) <=>
               (s = registration.shell /\ registration.pc \in places)
<1>1. registration # Idle
  BY DEF Idle
<1> QED
  BY <1>1 DEF ToldInv, RegistrationFits, Before, Registering

LEMMA WentOn ==
  ASSUME DOMAIN registration' = {"pc", "shell", "level", "prompt"},
         registration'.pc \in RegistrationPlaces, registration'.shell \in Shells,
         registration'.level \in 0 .. 4
  PROVE  /\ RegistrationFits'
         /\ \A s : \A places : Before(s, places)' <=>
               (s = registration'.shell /\ registration'.pc \in places)
BY DEF RegistrationFits, Before, Registering, RegistrationPlaces

LEMMA MainStepTold ==
  ASSUME ServerTyped, ToldInv, MainStep
  PROVE  ToldInv'
<1> DEFINE r == registration.shell
<1>1. ASSUME TellClientId \/ PrepareStorageWarning \/ Greet \/ ReadPrompt \/ SendPrompt
      PROVE  /\ registration.pc # "idle"
             /\ UNCHANGED <<hand, storageStatus, sdk, greetingsAllClientMsgs>>
             /\ Listening' = Listening /\ Listening \subseteq Shells
             /\ storageStatus \in 0 .. 4
             /\ seen.warned \in [Shells -> 0 .. 4] /\ DOMAIN seen.told = Shells
  <2>1. /\ registration.pc # "idle"
        /\ UNCHANGED <<hand, storageStatus, sdk, greetingsAllClientMsgs,
                       stateListenersPetitions, socket>>
    BY <1>1 DEF TellClientId, PrepareStorageWarning, Greet, ReadPrompt, SendPrompt,
       At, listenerVars, greetingVars, wireVars
  <2> QED
    BY <2>1 DEF Listening, ServerTyped, ToldInv
<1>2. CASE TellClientId
  <2>1. /\ registration' = [registration EXCEPT !.pc = "storage"] /\ seen' = seen
        /\ registration.pc = "id"
    BY <1>2 DEF TellClientId, To, At
  <2>2. /\ registration'.pc = "storage" /\ registration'.shell = r
        /\ registration'.level \in 0 .. 4 /\ r \in Shells
        /\ DOMAIN registration' = {"pc", "shell", "level", "prompt"}
    BY <1>1, <1>2, <2>1, GoesOn
  <2>3. /\ RegistrationFits'
        /\ \A s : \A places : Before(s, places)' <=> s = r /\ "storage" \in places
    BY <2>2, WentOn DEF RegistrationPlaces
  <2>4. \A s : \A places : Before(s, places) <=> s = r /\ "id" \in places
    BY <1>1, <1>2, <2>1, GoesOn
  <2>5. \A s \in Shells : Level(s) = seen.warned[s] /\ Level(s)' = seen.warned[s]
    BY <2>1, <2>3, <2>4 DEF Level
  <2>6. \A s \in Listening :
           /\ Level(s)' >= Level(s)
           /\ Before(s, {"id", "storage"}) => Before(s, {"id", "storage"})'
           /\ Before(s, {"id", "storage", "greet"}) =>
                 Before(s, {"id", "storage", "greet"})'
    BY <1>1, <1>2, <2>3, <2>4, <2>5
  <2> QED
    BY <1>1, <1>2, <2>1, <2>3, <2>6, ToldGoesOn
<1>3. CASE PrepareStorageWarning
  <2>1. /\ registration' = [registration EXCEPT !.pc = "greet", !.level = storageStatus]
        /\ seen' = seen /\ registration.pc = "storage"
    BY <1>3 DEF PrepareStorageWarning, At
  <2>2. /\ registration'.pc = "greet" /\ registration'.shell = r
        /\ registration'.level = storageStatus /\ r \in Shells
        /\ DOMAIN registration' = {"pc", "shell", "level", "prompt"}
    BY <1>1, <1>3, <2>1, GoesOn
  <2>3. /\ RegistrationFits'
        /\ \A s : \A places : Before(s, places)' <=> s = r /\ "greet" \in places
    BY <1>1, <1>3, <2>2, WentOn DEF RegistrationPlaces
  <2>4. \A s : \A places : Before(s, places) <=> s = r /\ "storage" \in places
    BY <1>1, <1>3, <2>1, GoesOn
  <2>5. \A s \in Shells : /\ Level(s) = seen.warned[s]
                          /\ Level(s)' >= seen.warned[s]
                          /\ s = r => Level(s)' >= storageStatus
    <3>1. \A s \in Shells : Level(s) = seen.warned[s]
      BY <2>4 DEF Level
    <3>2. \A s \in Shells : Level(s)' = IF s = r /\ storageStatus > seen.warned[s]
                                        THEN storageStatus ELSE seen.warned[s]
      BY <2>1, <2>2, <2>3 DEF Level
    <3> QED
      BY <1>1, <1>3, <3>1, <3>2
  <2>6. \A s \in Listening :
           /\ Level(s)' >= Level(s)
           /\ Before(s, {"id", "storage"}) => Level(s)' >= storageStatus
           /\ Before(s, {"id", "storage", "greet"}) =>
                 Before(s, {"id", "storage", "greet"})'
    BY <1>1, <1>3, <2>3, <2>4, <2>5
  <2> QED
    BY <1>1, <1>3, <2>1, <2>3, <2>6, ToldGoesOn
<1>4. CASE Greet
  <2> DEFINE texts == greetingsFirstClientMsgs \o greetingsAllClientMsgs
  <2>1. /\ registration' = [registration EXCEPT !.pc = "prompt"]
        /\ registration.pc = "greet"
        /\ seen'.security = seen.security /\ seen'.paywallFailed = seen.paywallFailed
        /\ seen'.told = Told(Reachable, ToSet(texts)) /\ seen'.warned = seen.warned
    BY <1>4 DEF Greet, To, At, ServerTyped, SeenFields
  <2>2. /\ registration'.pc = "prompt" /\ registration'.shell = r /\ r \in Shells
        /\ registration'.level = registration.level /\ registration.level \in 0 .. 4
        /\ DOMAIN registration' = {"pc", "shell", "level", "prompt"}
    BY <1>1, <1>4, <2>1, GoesOn
  <2>3. /\ RegistrationFits'
        /\ \A s : \A places : Before(s, places)' <=> s = r /\ "prompt" \in places
    BY <2>2, WentOn DEF RegistrationPlaces
  <2>4. \A s : \A places : Before(s, places) <=> s = r /\ "greet" \in places
    BY <1>1, <1>4, <2>1, GoesOn
  <2>5. \A s \in Shells : Level(s)' = Level(s)
    BY <2>1, <2>2, <2>3, <2>4 DEF Level
  <2>6. seen.security => "security" \in ToSet(texts)
    <3>1. /\ greetingsFirstClientMsgs \in Seq(Texts)
          /\ greetingsAllClientMsgs \in Seq(Texts)
      BY DEF ServerTyped
    <3>2. ToSet(greetingsAllClientMsgs) \subseteq ToSet(texts)
      BY <3>1, ToSetOfParts
    <3> QED
      BY <3>2 DEF ToldInv
  <2>7. /\ DOMAIN seen'.told = Shells
        /\ \A s \in Shells : seen.told[s] \subseteq seen'.told[s]
        /\ r \in Listening /\ seen.security => "security" \in seen'.told[r]
    <3> HIDE DEF texts
    <3> QED
      BY <2>1, <2>2, <2>6 DEF Told, Reachable
  <2>8. \A s \in Listening :
           /\ Level(s)' >= Level(s)
           /\ ~Before(s, {"id", "storage"})
           /\ seen.security /\ Before(s, {"id", "storage", "greet"}) =>
                 "security" \in seen'.told[s]
    BY <1>1, <1>4, <2>4, <2>5, <2>7, LevelTyped
  <2> QED
    BY <1>1, <1>4, <2>1, <2>3, <2>7, <2>8, ToldGoesOn
<1>5. CASE ReadPrompt
  <2>1. /\ registration' = [registration EXCEPT !.pc = "send", !.prompt = dynamicprompt]
        /\ seen' = seen /\ registration.pc = "prompt"
    BY <1>5 DEF ReadPrompt, At
  <2>2. /\ registration'.pc = "send" /\ registration'.shell = r /\ r \in Shells
        /\ registration'.level = registration.level /\ registration.level \in 0 .. 4
        /\ DOMAIN registration' = {"pc", "shell", "level", "prompt"}
    BY <1>1, <1>5, <2>1, GoesOn
  <2>3. /\ RegistrationFits'
        /\ \A s : \A places : Before(s, places)' <=> s = r /\ "send" \in places
    BY <2>2, WentOn DEF RegistrationPlaces
  <2>4. \A s : \A places : Before(s, places) <=> s = r /\ "prompt" \in places
    BY <1>1, <1>5, <2>1, GoesOn
  <2>5. \A s \in Shells : Level(s)' = Level(s)
    BY <2>1, <2>2, <2>3, <2>4 DEF Level
  <2>6. \A s \in Listening :
           /\ Level(s)' >= Level(s)
           /\ ~Before(s, {"id", "storage"}) /\ ~Before(s, {"id", "storage", "greet"})
    BY <1>1, <1>5, <2>4, <2>5, LevelTyped
  <2> QED
    BY <1>1, <1>5, <2>1, <2>3, <2>6, ToldGoesOn
<1>6. CASE SendPrompt
  <2>1. /\ registration' = Idle /\ registration.pc = "send"
        /\ seen'.security = seen.security /\ seen'.paywallFailed = seen.paywallFailed
        /\ seen'.told = seen.told
        /\ seen'.warned = Warned(Reachable, registration.level)
    BY <1>6 DEF SendPrompt, At, ServerTyped, SeenFields
  <2>2. r \in Shells /\ registration.level \in 0 .. 4
    BY <1>1, <1>6, GoesOn
  <2>3. /\ RegistrationFits'
        /\ \A s : \A places : ~(Before(s, places)')
    BY <2>1 DEF RegistrationFits, Before, Registering, Idle
  <2>4. \A s : \A places : Before(s, places) <=> s = r /\ "send" \in places
    BY <1>1, <1>6, <2>1, GoesOn
  <2>5. /\ seen'.warned \in [Shells -> 0 .. 4]
        /\ \A s \in Listening : seen'.warned[s] =
              IF s = r /\ registration.level > seen.warned[s]
              THEN registration.level ELSE seen.warned[s]
    BY <1>1, <1>6, <2>1, <2>2 DEF Warned, Reachable
  <2>6. \A s \in Listening : Level(s)' = Level(s)
    BY <1>1, <1>6, <2>3, <2>4, <2>5 DEF Level
  <2>7. \A s \in Listening :
           /\ Level(s)' >= Level(s)
           /\ ~Before(s, {"id", "storage"}) /\ ~Before(s, {"id", "storage", "greet"})
    BY <1>1, <1>6, <2>4, <2>6, LevelTyped
  <2> QED
    BY <1>1, <1>6, <2>1, <2>3, <2>5, <2>7, ToldGoesOn
<1> QED
  BY <1>2, <1>3, <1>4, <1>5, <1>6, RegisterTold DEF MainStep

LEMMA TakesAbout ==
  ASSUME NEW t \in Broadcasters, Free(t), NEW text, NEW keep, Takes(t, text, keep)
  PROVE  /\ \A u \in Broadcasters :
               About(u) => About(u)' /\ hand'[u].text = hand[u].text
         /\ About(t)' /\ hand'[t].text = text
<1>1. About(t)' /\ hand'[t].text = text
  BY DEF Takes, About, Free, NoMessage
<1>2. ASSUME NEW u \in Broadcasters, About(u)
      PROVE  About(u)' /\ hand'[u].text = hand[u].text
  <2>1. u # t
    BY <1>2 DEF About
  <2>2. hand'[u] = hand[u]
    BY <2>1 DEF Takes
  <2> QED
    BY <1>2, <2>2 DEF About, Free
<1> QED
  BY <1>1, <1>2

LEMMA HandAbout ==
  ASSUME UNCHANGED hand
  PROVE  \A u \in Broadcasters : About(u) => About(u)' /\ hand'[u].text = hand[u].text
BY DEF About, Free

LEMMA SecuredStays ==
  ASSUME NEW s \in Listening, Secured(s), UNCHANGED registration,
         seen'.told = seen.told,
         \A u \in Broadcasters : About(u) => About(u)' /\ hand'[u].text = hand[u].text
  PROVE  Secured(s)'
<1>1. CASE "security" \in seen.told[s]
  BY <1>1 DEF Secured
<1>2. CASE Before(s, {"id", "storage", "greet"})
  BY <1>2 DEF Secured, Before, Registering
<1>3. ASSUME NEW t \in Broadcasters, About(t), hand[t].text = "security"
      PROVE  Secured(s)'
  <2>1. About(t)' /\ hand'[t].text = "security"
    BY <1>3
  <2> QED
    BY <2>1 DEF Secured
<1> QED
  BY <1>1, <1>2, <1>3 DEF Secured

LEMMA StorageTold ==
  ASSUME ServerTyped, HandsFit, ToldInv, StorageEvent
  PROVE  ToldInv'
<1>1. /\ Free("sdk") /\ "sdk" \in Broadcasters /\ Listening' = Listening
      /\ Listening \subseteq Shells
      /\ UNCHANGED <<registration, greetingsAllClientMsgs>>
      /\ sdk.events # <<>> /\ Event.type = "storage"
  BY DEF StorageEvent, EventIs, SdkIdle, Free, Broadcasters, Listening, listenerVars,
     wireVars, mainVars, greetingVars, ServerTyped
<1> DEFINE level == Event.level
<1>2. level \in {GREEN, ORANGE, RED, PAYWALL} /\ storageStatus' = level
  BY <1>1, StorageLevel DEF StorageEvent
<1>3. /\ seen'.told = seen.told /\ seen'.security = seen.security
      /\ seen'.paywallFailed = seen.paywallFailed
      /\ seen'.warned = [s \in Shells |-> IF level = GREEN THEN GREEN
                                                         ELSE seen.warned[s]]
  BY DEF StorageEvent, ServerTyped, SeenFields
<1>4. sdk'.paywall = IF storageStatus < PAYWALL /\ level = PAYWALL
                     THEN "user data" ELSE sdk.paywall
  BY DEF StorageEvent, Take, Rises, ServerTyped, SdkFields
<1>5. /\ storageStatus < level /\ level # PAYWALL => Takes("sdk", Warning(level), FALSE)
      /\ ~(storageStatus < level /\ level # PAYWALL) => UNCHANGED hand
  BY <1>1, Broadcasting DEF StorageEvent, Rises
<1> HIDE DEF level
<1>6. \A u \in Broadcasters : About(u) => About(u)' /\ hand'[u].text = hand[u].text
  BY <1>1, <1>5, TakesAbout, HandAbout
<1>7. /\ GREEN = 0 /\ ORANGE = 1 /\ RED = 2 /\ PAYWALL = 4
      /\ storageStatus \in 0 .. 4 /\ level \in 0 .. 4
  BY <1>2 DEF GREEN, ORANGE, RED, PAYWALL, ServerTyped
<1>8. RegistrationFits' /\ \A s : \A places : Before(s, places)' <=> Before(s, places)
  BY <1>1 DEF ToldInv, RegistrationFits, Before, Registering
<1>9. ASSUME NEW s \in Listening PROVE WarnedInTime(s)'
  <2>1. /\ WarnedInTime(s) /\ s \in Shells /\ ~About("sdk")
        /\ Level(s) \in 0 .. 4 /\ seen.warned[s] \in 0 .. 4
        /\ \A places : Before(s, places) => registration.level \in 0 .. 4
    BY <1>1, <1>9, LevelTyped DEF ToldInv, About
  <2>2. CASE level = GREEN
    <3>1. seen'.warned[s] = 0
      BY <1>3, <1>7, <2>1, <2>2
    <3>2. Level(s)' >= 0
      BY <1>1, <1>8, <2>1, <3>1 DEF Level
    <3> QED
      BY <1>2, <1>7, <2>2, <3>2 DEF WarnedInTime
  <2>3. CASE level # GREEN
    <3>1. Level(s)' = Level(s)
      BY <1>1, <1>3, <1>8, <2>1, <2>3 DEF Level
    <3>2. CASE storageStatus < level /\ level # PAYWALL
      <4>1. About("sdk")' /\ hand'["sdk"].text = Warning(level)
        BY <1>1, <1>5, <3>2, TakesAbout
      <4>2. level >= storageStatus' /\ level \in {ORANGE, RED, PAYWALL}
        BY <1>2, <1>7, <2>3
      <4> QED
        BY <4>1, <4>2 DEF WarnedInTime
    <3>3. CASE storageStatus < level /\ level = PAYWALL
      <4>1. sdk'.paywall # "none"
        BY <1>4, <3>3
      <4> QED
        BY <4>1 DEF WarnedInTime
    <3>4. CASE ~(storageStatus < level)
      <4>1. CASE Level(s) >= storageStatus
        <5>1. Level(s)' >= storageStatus'
          BY <1>2, <1>7, <2>1, <3>1, <3>4, <4>1
        <5> QED
          BY <5>1 DEF WarnedInTime
      <4>2. CASE sdk.paywall # "none" \/ seen.paywallFailed \/ Before(s, {"id", "storage"})
        BY <1>3, <1>4, <1>8, <4>2 DEF WarnedInTime
      <4> QED
        BY <2>1, <4>1, <4>2 DEF WarnedInTime
    <3> QED
      BY <3>2, <3>3, <3>4
  <2> QED
    BY <2>2, <2>3
<1>10. ASSUME NEW s \in Listening, seen.security PROVE Secured(s)'
  BY <1>1, <1>3, <1>6, <1>10, SecuredStays DEF ToldInv
<1>11. seen'.warned \in [Shells -> 0 .. 4]
  BY <1>3, <1>7 DEF ToldInv
<1>12. sdk'.paywall \in {"none", "user data", "details"}
  BY <1>4 DEF ToldInv
<1> QED
  BY <1>1, <1>3, <1>8, <1>9, <1>10, <1>11, <1>12 DEF ToldInv

LEMMA PaywallTold ==
  ASSUME ServerTyped, HandsFit, ToldInv, PaywallAnswer
  PROVE  ToldInv'
<1>1. /\ Free("sdk") /\ "sdk" \in Broadcasters /\ Listening' = Listening
      /\ UNCHANGED <<registration, greetingsAllClientMsgs, storageStatus>>
      /\ storageStatus \in 0 .. 4 /\ sdk.paywall # "none"
  BY DEF PaywallAnswer, SdkIdle, Free, Broadcasters, Listening, listenerVars,
     wireVars, mainVars, greetingVars, ServerTyped
<1>2. PICK ok \in BOOLEAN :
        /\ sdk' = [sdk EXCEPT !.paywall =
                      IF ok /\ @ = "user data" THEN "details" ELSE "none"]
        /\ IF ok /\ sdk.paywall = "details"
           THEN broadcastMessage("sdk", Warning(PAYWALL), FALSE)
           ELSE UNCHANGED hand
        /\ seen' = [seen EXCEPT !.paywallFailed = @ \/ ~ok]
  BY DEF PaywallAnswer
<1>3. /\ seen'.told = seen.told /\ seen'.security = seen.security
      /\ seen'.warned = seen.warned
      /\ ~ok => seen'.paywallFailed
  BY <1>2 DEF ServerTyped, SeenFields
<1>4. sdk'.paywall = IF ok /\ sdk.paywall = "user data" THEN "details" ELSE "none"
  BY <1>2 DEF ServerTyped, SdkFields
<1>5. /\ ok /\ sdk.paywall = "details" => Takes("sdk", Warning(PAYWALL), FALSE)
      /\ ~(ok /\ sdk.paywall = "details") => UNCHANGED hand
  BY <1>1, <1>2, Broadcasting
<1>6. \A u \in Broadcasters : About(u) => About(u)' /\ hand'[u].text = hand[u].text
  BY <1>1, <1>5, TakesAbout, HandAbout
<1>7. RegistrationFits'
  BY <1>1 DEF ToldInv, RegistrationFits
<1>8. ASSUME NEW s \in Listening PROVE WarnedInTime(s)'
  <2>1. CASE ~ok
    BY <1>3, <2>1 DEF WarnedInTime
  <2>2. CASE ok /\ sdk.paywall = "user data"
    BY <1>4, <2>2 DEF WarnedInTime
  <2>3. CASE ok /\ sdk.paywall = "details"
    <3>1. About("sdk")' /\ hand'["sdk"].text = Warning(PAYWALL)
      BY <1>1, <1>5, <2>3, TakesAbout
    <3>2. PAYWALL >= storageStatus'
      BY <1>1 DEF PAYWALL
    <3> QED
      BY <3>1, <3>2 DEF WarnedInTime
  <2> QED
    BY <1>1, <2>1, <2>2, <2>3 DEF ToldInv
<1>9. ASSUME NEW s \in Listening, seen.security PROVE Secured(s)'
  BY <1>1, <1>3, <1>6, <1>9, SecuredStays DEF ToldInv
<1>10. sdk'.paywall \in {"none", "user data", "details"}
  BY <1>4
<1> QED
  BY <1>1, <1>3, <1>7, <1>8, <1>9, <1>10 DEF ToldInv

LEMMA SecurityTold ==
  ASSUME ServerTyped, HandsFit, ToldInv, SecurityEvent
  PROVE  ToldInv'
<1>1. /\ Free("sdk") /\ "sdk" \in Broadcasters /\ Listening' = Listening
      /\ UNCHANGED <<registration, storageStatus>>
      /\ sdk' = Take
      /\ greetingsAllClientMsgs' = <<"security">> \o greetingsAllClientMsgs
  BY DEF SecurityEvent, EventIs, SdkIdle, Free, Broadcasters, Listening,
     listenerVars, wireVars, mainVars
<1>2. /\ seen'.told = seen.told /\ seen'.warned = seen.warned
      /\ seen'.paywallFailed = seen.paywallFailed
  BY DEF SecurityEvent, ServerTyped, SeenFields
<1>3. sdk'.paywall = sdk.paywall
  BY <1>1 DEF Take, ServerTyped, SdkFields
<1>4. About("sdk")' /\ hand'["sdk"].text = "security"
  <2>1. Takes("sdk", "security", FALSE)
    BY <1>1, Broadcasting DEF SecurityEvent
  <2> QED
    BY <1>1, <2>1, TakesAbout
<1>5. RegistrationFits' /\ \A s : \A places : Before(s, places)' <=> Before(s, places)
  BY <1>1 DEF ToldInv, RegistrationFits, Before, Registering
<1>6. "security" \in ToSet(greetingsAllClientMsgs')
  <2>1. greetingsAllClientMsgs \in Seq(Texts) /\ "security" \in Texts
    BY DEF ServerTyped, Texts
  <2>2. ToSet(<<"security">> \o greetingsAllClientMsgs)
           = ToSet(greetingsAllClientMsgs) \cup {"security"}
    BY <2>1, ToSetOfLists
  <2> QED
    BY <1>1, <2>2
<1>7. \A s : Secured(s)'
  BY <1>1, <1>4 DEF Secured
<1>8. ASSUME NEW s \in Listening PROVE WarnedInTime(s)'
  <2>1. WarnedInTime(s) /\ ~About("sdk")
    BY <1>1, <1>8 DEF ToldInv, About
  <2>2. Level(s)' = Level(s)
    BY <1>1, <1>2, <1>5 DEF Level
  <2> QED
    BY <1>1, <1>2, <1>3, <1>5, <2>1, <2>2 DEF WarnedInTime
<1> QED
  BY <1>1, <1>2, <1>3, <1>5, <1>6, <1>7, <1>8 DEF ToldInv

LEMMA LogoutTold ==
  ASSUME ServerTyped, HandsFit, ToldInv, LogoutAnswer
  PROVE  ToldInv'
<1>1. /\ Free("sdk") /\ "sdk" \in Broadcasters /\ Listening' = Listening
      /\ Listening \subseteq Shells
      /\ UNCHANGED <<registration, greetingsAllClientMsgs>>
      /\ storageStatus' = 0
  BY DEF LogoutAnswer, SdkIdle, Free, Broadcasters, Listening, listenerVars,
     wireVars, mainVars, greetingVars, ServerTyped, GREEN
<1>2. /\ seen'.told = seen.told /\ seen'.security = seen.security
      /\ seen'.warned = [s \in Shells |-> 0]
  BY DEF LogoutAnswer, ServerTyped, SeenFields, GREEN
<1>3. sdk'.paywall = sdk.paywall
  BY DEF LogoutAnswer, ServerTyped, SdkFields
<1>4. \A u \in Broadcasters : About(u) => About(u)' /\ hand'[u].text = hand[u].text
  <2>1. Takes("sdk", "fatal", FALSE)
    BY <1>1, Broadcasting DEF LogoutAnswer
  <2> QED
    BY <1>1, <2>1, TakesAbout
<1>5. RegistrationFits' /\ \A s : \A places : Before(s, places)' <=> Before(s, places)
  BY <1>1 DEF ToldInv, RegistrationFits, Before, Registering
<1>6. ASSUME NEW s \in Listening PROVE WarnedInTime(s)'
  <2>1. /\ s \in Shells
        /\ \A places : Before(s, places) => registration.level \in 0 .. 4
    BY <1>1, <1>6, LevelTyped
  <2>2. Level(s)' >= 0
    BY <1>1, <1>2, <1>5, <2>1 DEF Level
  <2> QED
    BY <1>1, <2>2 DEF WarnedInTime
<1>7. ASSUME NEW s \in Listening, seen.security PROVE Secured(s)'
  BY <1>1, <1>2, <1>4, <1>7, SecuredStays DEF ToldInv
<1>8. seen'.warned \in [Shells -> 0 .. 4]
  BY <1>2
<1> QED
  BY <1>1, <1>2, <1>3, <1>5, <1>6, <1>7, <1>8 DEF ToldInv

LEMMA SdkStepTold ==
  ASSUME ServerTyped, HandsFit, ToldInv, SdkStep
  PROVE  ToldInv'
<1>0. "sdk" \in Broadcasters
  BY DEF Broadcasters
<1>1. \A text, keep : broadcastMessage("sdk", text, keep) => Takes("sdk", text, keep)
  BY <1>0, Broadcasting
<1>2. \A text : changeprompt("sdk", text) => Takes("sdk", text, FALSE)
  BY <1>0, Prompting
<1>3. ASSUME Free("sdk"), UNCHANGED hand \/ \E text, keep : Takes("sdk", text, keep)
      PROVE  \A u \in Broadcasters :
                About(u) => About(u)' /\ hand'[u].text = hand[u].text
  BY <1>0, <1>3, TakesAbout, HandAbout
<1>4. CASE SyncOrMountEvent
  <2>1. /\ seen'.told = seen.told /\ seen'.warned = seen.warned
        /\ seen'.security = seen.security
        /\ seen'.paywallFailed = seen.paywallFailed
    BY <1>4 DEF SyncOrMountEvent, broadcastDelayedMessage, ServerTyped, SeenFields, Keeping
  <2>2. /\ UNCHANGED <<registration, storageStatus, greetingsAllClientMsgs, hand>>
        /\ Listening' = Listening
    BY <1>4 DEF SyncOrMountEvent, mainVars, greetingVars, listenerVars, wireVars,
       Listening
  <2>3. sdk'.paywall = sdk.paywall
    BY <1>4 DEF SyncOrMountEvent, Take, ServerTyped, SdkFields
  <2> QED
    BY <2>1, <2>2, <2>3, HandAbout, ToldStays
<1>5. CASE SyncsDisabledEvent
  <2>1. /\ seen'.told = seen.told /\ seen'.warned = seen.warned
        /\ seen'.security = seen.security
        /\ seen'.paywallFailed = seen.paywallFailed
    BY <1>5 DEF SyncsDisabledEvent, ServerTyped, SeenFields, Keeping
  <2>2. /\ UNCHANGED <<registration, storageStatus, greetingsAllClientMsgs>>
        /\ Listening' = Listening /\ Free("sdk")
    BY <1>5 DEF SyncsDisabledEvent, EventIs, SdkIdle, Free, mainVars, greetingVars,
       listenerVars, wireVars, Listening
  <2>3. sdk'.paywall = sdk.paywall
    BY <1>5 DEF SyncsDisabledEvent, Take, ServerTyped, SdkFields
  <2>4. Takes("sdk", "syncs disabled", TRUE)
    BY <1>1, <1>5 DEF SyncsDisabledEvent
  <2> QED
    BY <1>3, <2>1, <2>2, <2>3, <2>4, ToldStays
<1>6. CASE FatalErrorEvent
  <2>1. /\ UNCHANGED <<registration, storageStatus, greetingsAllClientMsgs, seen>>
        /\ Listening' = Listening /\ Free("sdk")
    BY <1>6 DEF FatalErrorEvent, EventIs, SdkIdle, Free, mainVars, greetingVars,
       listenerVars, wireVars, Listening
  <2>2. sdk'.paywall = sdk.paywall
    BY <1>6 DEF FatalErrorEvent, Take, ServerTyped, SdkFields
  <2>3. UNCHANGED hand \/ Takes("sdk", "fatal", FALSE)
    BY <1>1, <1>6 DEF FatalErrorEvent
  <2> QED
    BY <1>3, <2>1, <2>2, <2>3, ToldStays
<1>7. CASE actUponLogout
  <2>1. /\ seen'.told = seen.told /\ seen'.warned = seen.warned
        /\ seen'.security => seen.security
        /\ seen'.paywallFailed = seen.paywallFailed
        /\ UNCHANGED greetingsAllClientMsgs \/ ~seen'.security
    BY <1>7 DEF actUponLogout, ServerTyped, SeenFields, greetingVars
  <2>2. /\ UNCHANGED <<registration, storageStatus>>
        /\ Listening' = Listening /\ Free("sdk")
    BY <1>7 DEF actUponLogout, Free, listenerVars, wireVars, Listening
  <2>3. sdk'.paywall = sdk.paywall
    BY <1>7 DEF actUponLogout, ServerTyped, SdkFields
  <2>4. \E text : Takes("sdk", text, FALSE)
    BY <1>2, <1>7 DEF actUponLogout
  <2> QED
    BY <1>3, <2>1, <2>2, <2>3, <2>4, ToldStays
<1>8. CASE onGlobalSyncStateChanged \/ StallListAnswer
  <2>1. /\ UNCHANGED <<registration, storageStatus, greetingsAllClientMsgs, hand,
                       seen, sdk>>
        /\ Listening' = Listening
    BY <1>8 DEF onGlobalSyncStateChanged, StallListAnswer, mainVars, greetingVars,
       listenerVars, wireVars, Listening
  <2> QED
    BY <2>1, HandAbout, ToldStays
<1> QED
  BY <1>4, <1>5, <1>6, <1>7, <1>8, StorageTold, PaywallTold, SecurityTold, LogoutTold
  DEF SdkStep

LEMMA KeepStepTold ==
  ASSUME ServerTyped, HandsFit, ToldInv, NEW t \in Broadcasters, KeepStep(t)
  PROVE  ToldInv'
<1>1. /\ hand[t].step = "keep" /\ \A u \in Broadcasters \ {t} : hand'[u] = hand[u]
  BY KeepStepTyped
<1>2. /\ UNCHANGED <<registration, storageStatus, greetingsAllClientMsgs, seen, sdk>>
      /\ Listening' = Listening
  BY DEF KeepStep, mainVars, listenerVars, wireVars, Listening
<1>3. ASSUME NEW u \in Broadcasters, About(u)
      PROVE  About(u)' /\ hand'[u].text = hand[u].text
  <2>1. hand'[u] = hand[u]
    BY <1>1, <1>3 DEF About
  <2> QED
    BY <1>3, <2>1 DEF About, Free
<1> QED
  BY <1>2, <1>3, ToldStays

LEMMA DelayedStepTold ==
  ASSUME ServerTyped, HandsFit, ToldInv, NEW t \in DelayedThreads, DelayedStep(t)
  PROVE  ToldInv'
<1>1. /\ UNCHANGED <<registration, storageStatus, greetingsAllClientMsgs, seen, sdk>>
      /\ Listening' = Listening /\ Free(t) /\ t \in Broadcasters
  BY DEF DelayedStep, mainVars, greetingVars, listenerVars, wireVars, Listening, Free,
     Broadcasters
<1>2. UNCHANGED hand \/ Takes(t, Head(delayedBroadCastMessages), TRUE)
  BY <1>1, Broadcasting DEF DelayedStep
<1>3. \A u \in Broadcasters : About(u) => About(u)' /\ hand'[u].text = hand[u].text
  BY <1>1, <1>2, TakesAbout, HandAbout
<1> QED
  BY <1>1, <1>3, ToldStays

LEMMA OtherStepsTold ==
  ASSUME ServerTyped, HandsFit, ToldInv,
         \/ SyncsStall \/ DebouncerTriggers \/ DebouncerReturns
         \/ ChangeDirectory \/ TellRestart \/ ConfirmSecurity \/ SetWarning
         \/ \E i \in Ids : verifySharedFolders(i) \/ VerificationReturns(i)
         \/ TriggerStep
  PROVE  ToldInv'
<1>0. /\ "petition" \in Broadcasters /\ "debouncer" \in Broadcasters
      /\ "verifier" \in Broadcasters
  BY DEF Broadcasters
<1>1. /\ UNCHANGED <<registration, storageStatus, sdk>>
      /\ Listening' = Listening
  BY DEF SyncsStall, DebouncerTriggers, DebouncerReturns, ChangeDirectory,
     TellRestart, ConfirmSecurity, SetWarning, verifySharedFolders,
     VerificationReturns, TriggerStep, serverVars, mainVars, listenerVars, wireVars,
     Listening
<1>2. CASE ConfirmSecurity
  <2>1. /\ seen'.told = seen.told /\ seen'.warned = seen.warned
        /\ ~seen'.security /\ seen'.paywallFailed = seen.paywallFailed
    BY <1>2 DEF ConfirmSecurity, ServerTyped, SeenFields
  <2>2. UNCHANGED hand
    BY <1>2 DEF ConfirmSecurity
  <2> QED
    BY <1>1, <2>1, <2>2, HandAbout, ToldStays
<1>3. ASSUME NEW t \in Broadcasters, Free(t), NEW text, NEW keep, Takes(t, text, keep),
             greetingsAllClientMsgs' = greetingsAllClientMsgs,
             seen'.told = seen.told, seen'.warned = seen.warned,
             seen'.security = seen.security,
             seen'.paywallFailed = seen.paywallFailed
      PROVE  ToldInv'
  BY <1>1, <1>3, TakesAbout, ToldStays
<1>4. ASSUME UNCHANGED <<hand, greetingsAllClientMsgs>>,
             seen'.told = seen.told, seen'.warned = seen.warned,
             seen'.security = seen.security,
             seen'.paywallFailed = seen.paywallFailed
      PROVE  ToldInv'
  BY <1>1, <1>4, HandAbout, ToldStays
<1>5. CASE SyncsStall \/ DebouncerReturns \/ SetWarning \/ TriggerStep
  BY <1>4, <1>5 DEF SyncsStall, DebouncerReturns, SetWarning, TriggerStep,
     serverVars, greetingVars
<1>6. CASE DebouncerTriggers
  <2>1. /\ seen'.told = seen.told /\ seen'.warned = seen.warned
        /\ seen'.security = seen.security /\ seen'.paywallFailed = seen.paywallFailed
    BY <1>6 DEF DebouncerTriggers, ServerTyped, SeenFields, Keeping
  <2>2. Free("debouncer") /\ greetingsAllClientMsgs' = greetingsAllClientMsgs
    BY <1>6 DEF DebouncerTriggers, HandsFit, greetingVars
  <2>3. UNCHANGED hand \/ Takes("debouncer", "sync issues", TRUE)
    BY <1>0, <1>6, Broadcasting DEF DebouncerTriggers
  <2> QED
    BY <1>0, <1>3, <1>4, <2>1, <2>2, <2>3
<1>7. CASE ChangeDirectory
  <2>1. /\ Free("petition") /\ UNCHANGED <<greetingsAllClientMsgs, seen>>
        /\ Takes("petition", Command.prompt, FALSE)
    BY <1>0, <1>7, Prompting DEF ChangeDirectory, CommandIs, Free, greetingVars
  <2> QED
    BY <1>0, <1>3, <2>1
<1>8. CASE TellRestart
  <2>1. Free("petition") /\ UNCHANGED <<greetingsAllClientMsgs, seen>>
    BY <1>8 DEF TellRestart, CommandIs, Free, greetingVars
  <2>2. Takes("petition", "", FALSE)
    BY <1>0, <1>8 DEF TellRestart, Takes, ServerTyped, MessageFields
  <2> QED
    BY <1>0, <1>3, <2>1, <2>2
<1>9. ASSUME NEW i \in Ids, verifySharedFolders(i) PROVE ToldInv'
  <2>1. /\ seen'.told = seen.told /\ seen'.warned = seen.warned
        /\ seen'.security = seen.security /\ seen'.paywallFailed = seen.paywallFailed
    BY <1>9 DEF verifySharedFolders, ServerTyped, SeenFields, Keeping
  <2>2. Free("verifier") /\ greetingsAllClientMsgs' = greetingsAllClientMsgs
    BY <1>9 DEF verifySharedFolders, HandsFit, greetingVars
  <2>3. UNCHANGED hand \/ Takes("verifier", Caveats[1], TRUE)
    <3>1. UNCHANGED hand \/ broadcastMessage("verifier", Caveats[1], TRUE)
      BY <1>9 DEF verifySharedFolders
    <3> QED
      BY <1>0, <3>1, Broadcasting
  <2> QED
    BY <1>0, <1>3, <1>4, <2>1, <2>2, <2>3
<1>10. ASSUME NEW i \in Ids, VerificationReturns(i) PROVE ToldInv'
  BY <1>4, <1>10 DEF VerificationReturns, greetingVars
<1> QED
  BY <1>2, <1>5, <1>6, <1>7, <1>8, <1>9, <1>10

LEMMA ServerDiesTold ==
  ASSUME ServerTyped, ToldInv, ServerDies
  PROVE  ToldInv'
<1>1. /\ Listening' = {} /\ registration' = Idle
  BY DEF ServerDies, ForgetEverything, Listening
<1>2. /\ ~seen'.security /\ seen'.warned = seen.warned /\ seen'.told = seen.told
  BY DEF ServerDies, ServerTyped, SeenFields
<1>3. sdk'.paywall = "none"
  BY DEF ServerDies, ServerTyped, SdkFields
<1> QED
  BY <1>1, <1>2, <1>3 DEF ToldInv, RegistrationFits

LEMMA InitTold == SystemInit => ToldInv
<1> SUFFICES ASSUME SystemInit PROVE ToldInv
  OBVIOUS
<1>1. /\ Listening = {} /\ registration = Idle
  BY DEF SystemInit, ServerInit, StartedServer, Listening
<1>2. /\ ~seen.security /\ seen.warned = [s \in Shells |-> 0]
      /\ DOMAIN seen.told = Shells /\ sdk.paywall = "none"
  BY DEF SystemInit, ServerInit, GREEN
<1>3. seen.warned \in [Shells -> 0 .. 4]
  BY <1>2
<1> QED
  BY <1>1, <1>2, <1>3 DEF ToldInv, RegistrationFits

LEMMA SystemTold ==
  ServerTyped /\ HandsFit /\ ToldInv /\ [SystemNext]_systemVars => ToldInv'
<1> SUFFICES ASSUME ServerTyped, HandsFit, ToldInv, [SystemNext]_systemVars
             PROVE  ToldInv'
  OBVIOUS
<1>1. ASSUME UNCHANGED <<registration, storageStatus, greetingsAllClientMsgs, hand,
                         seen, sdk>>, Listening' \subseteq Listening
      PROVE  ToldInv'
  BY <1>1, HandAbout, ToldStays
<1>2. CASE UNCHANGED systemVars
  BY <1>1, <1>2
  DEF systemVars, serverVars, mainVars, greetingVars, listenerVars, wireVars, Listening
<1>3. ASSUME NEW s \in Shells, ShellStep(s) PROVE ToldInv'
  BY <1>1, <1>3, ShellLeavesServer DEF serverState, mainVars, greetingVars
<1>4. CASE BroadcastStep
  BY <1>4, InformStepTold, KeepStepTold DEF BroadcastStep
<1>5. CASE ServerNext
  BY <1>4, <1>5, MainStepTold, SdkStepTold, DelayedStepTold, OtherStepsTold
  DEF ServerNext
<1> QED
  BY <1>2, <1>3, <1>5, ServerDiesTold DEF SystemNext, ShellStep

(* Whenever a shell came, once it has been registered it has been told of   *)
(* the security upgrade and warned about the storage, or somebody is about  *)
(* to: no event falls between its greeting and the broadcasts.              *)
THEOREM EveryShellIsToldHolds == SystemSpec => []EveryShellIsTold
<1>1. ServerTyped /\ HandsFit /\ ToldInv => EveryShellIsTold
  <2> SUFFICES ASSUME ServerTyped, HandsFit, ToldInv, NEW s \in Listening,
                      ~Registering(s)
               PROVE  /\ seen.security /\ ~InHand("security") =>
                            "security" \in seen.told[s]
                      /\ \/ seen.warned[s] >= storageStatus
                         \/ \E l \in {ORANGE, RED, PAYWALL} : InHand(Warning(l))
                         \/ sdk.paywall # "none" \/ seen.paywallFailed
    BY DEF EveryShellIsTold
  <2>1. \A t \in Broadcasters : About(t) => InHand(hand[t].text)
    BY DEF About, InHand, HandsFit, HandFits
  <2>2. \A places : ~Before(s, places)
    BY DEF Before
  <2>3. Level(s) = seen.warned[s]
    BY <2>2 DEF Level
  <2>4. "sdk" \in Broadcasters
    BY DEF Broadcasters
  <2>5. WarnedInTime(s) /\ (seen.security => Secured(s))
    BY DEF ToldInv
  <2>6. seen.security /\ ~InHand("security") => "security" \in seen.told[s]
    BY <2>1, <2>2, <2>5 DEF Secured
  <2>7. \/ seen.warned[s] >= storageStatus
        \/ \E l \in {ORANGE, RED, PAYWALL} : InHand(Warning(l))
        \/ sdk.paywall # "none" \/ seen.paywallFailed
    BY <2>1, <2>2, <2>3, <2>4, <2>5 DEF WarnedInTime
  <2> QED
    BY <2>6, <2>7
<1> QED
  BY <1>1, InitTyped, InitTold, SystemTyped, SystemTold, PTL DEF SystemSpec

=============================================================================
