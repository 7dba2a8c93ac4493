---------------------------- MODULE PetitionServer ----------------------------
(***************************************************************************)
(* The command server of megacmd.cpp: the main loop megacmd() accepts       *)
(* petitions from clients, gives each one a thread that runs doProcessLine, *)
(* and leaves through finalize() once the flag doExit is seen.              *)
(*                                                                          *)
(* Actors: the clients, the main thread, one petition thread per accepted   *)
(* petition, the retryConnections thread, and the signal handlers that set  *)
(* doExit.  One action is one access to the state they share (doExit, the   *)
(* listening socket, semaphoreClients, the two vectors of threads).         *)
(*                                                                          *)
(* What a command does is abstracted to its end; what a state listener is   *)
(* told is in StateListeners.  The socket follows Linux: a listening socket *)
(* that has been shut down is always readable, refuses new connections and  *)
(* still hands out the queued ones.                                         *)
(***************************************************************************)
EXTENDS Naturals, FiniteSets

CONSTANTS
    Petitions,      \* connections that clients may make
    NoPetition,     \* "main is not handling a petition"
    Failed,         \* getPetition returned the petition "ERROR"
    StartupLogin,   \* the petition the server gives itself to resume a session
    MaxClients,     \* initial value of semaphoreClients (100 in executeServer)
    MaxWaits,       \* attempts of quit --wait-for-ongoing-petitions (20)
    MaxSignals,     \* bound on the number of SIGINT/SIGUSR1 received
    Kinds           \* the kinds of petition that clients send

ASSUME PetitionsAssumption ==
    /\ IsFiniteSet(Petitions)
    /\ StartupLogin \in Petitions
    /\ NoPetition \notin Petitions
    /\ Failed \notin Petitions \cup {NoPetition}
ASSUME BoundsAssumption ==
    /\ MaxClients \in Nat \ {0}
    /\ MaxWaits \in Nat
    /\ MaxSignals \in Nat
ASSUME KindsAssumption ==
    Kinds \subseteq {"command", "quit", "quitwait", "listener", "broken"}

VARIABLES
    doExit,                   \* the exit flag, shared by every thread
    stopCheckingforUpdaters,
    socket,                   \* the listening socket
    backlog,                  \* connected clients that were not accepted yet
    kind,                     \* what each petition asks for
    main,                     \* control state of the main thread
    current,                  \* petition the main thread holds
    semaphoreClients,
    petitionThreads,          \* thread objects owned by the server
    endedPetitionThreads,     \* threads that may be joined
    thread,                   \* control state of each petition thread
    result,                   \* what process_line returned
    waits,                    \* attempts left in quit --wait-for-...
    retry,                    \* control state of retryConnections
    answered,                 \* petitions whose client got its answer
    signals                   \* signals received so far

vars == <<doExit, stopCheckingforUpdaters, socket, backlog, kind, main, current,
          semaphoreClients, petitionThreads, endedPetitionThreads, thread,
          result, waits, retry, answered, signals>>

exitVars == <<doExit, stopCheckingforUpdaters>>
clientVars == <<backlog, kind, answered>>
mainVars == <<main, current>>
poolVars == <<semaphoreClients, petitionThreads, endedPetitionThreads>>
threadVars == <<thread, result, waits>>

Init ==
    /\ doExit = FALSE
    /\ stopCheckingforUpdaters = FALSE
    /\ socket = "listening"
    /\ backlog = {}
    /\ kind = [p \in Petitions |-> IF p = StartupLogin THEN "command" ELSE "none"]
    /\ main = "startup"
    /\ current = NoPetition
    /\ semaphoreClients = MaxClients
    /\ petitionThreads = {}
    /\ endedPetitionThreads = {}
    /\ thread = [p \in Petitions |-> "none"]
    /\ result = [p \in Petitions |-> FALSE]
    /\ waits = [p \in Petitions |-> MaxWaits]
    /\ retry = "none"
    /\ answered = {}
    /\ signals = 0

-----------------------------------------------------------------------------
(* Clients and signals *)

Connect(p) ==
    /\ kind[p] = "none"
    /\ socket = "listening"
    /\ main # "ended"
    /\ \E k \in Kinds : kind' = [kind EXCEPT ![p] = k]
    /\ backlog' = backlog \cup {p}
    /\ UNCHANGED <<exitVars, socket, mainVars, poolVars, threadVars, retry,
                   answered, signals>>

(* sigint_handler, and LinuxSignalHandler for SIGUSR1.  The signal          *)
(* interrupts select only if the main thread is blocked in it.              *)
ExitSignal ==
    /\ signals < MaxSignals
    /\ main # "ended"
    /\ signals' = signals + 1
    /\ doExit' = TRUE
    /\ stopCheckingforUpdaters' = TRUE
    /\ main' = IF main = "wait" THEN "test" ELSE main
    /\ UNCHANGED <<socket, clientVars, current, poolVars, threadVars, retry>>

-----------------------------------------------------------------------------
(* The pool of petition threads *)

(* delete_finished_threads: join and drop the threads that announced their  *)
(* end.  It runs under mutexEndedPetitionThreads, and a thread on the list  *)
(* needs that mutex no more, so the joins return and the call is atomic.    *)
delete_finished_threads ==
    /\ petitionThreads' = petitionThreads \ endedPetitionThreads
    /\ endedPetitionThreads' = {}

(* processCommandInPetitionQueues after the semaphore: own a thread object  *)
(* and start doProcessLine in it.                                           *)
StartThread(p) ==
    /\ petitionThreads' = petitionThreads \cup {p}
    /\ thread' = [thread EXCEPT ![p] = "process"]
    /\ UNCHANGED <<endedPetitionThreads, result, waits>>

-----------------------------------------------------------------------------
(* The main thread *)

(* executeServer resumes the saved session with a petition of its own, then *)
(* megacmd() starts retryConnections and enters its loop.  The semaphore    *)
(* has just been filled, so the wait for it returns.                        *)
StartServer ==
    /\ main = "startup"
    /\ semaphoreClients' = semaphoreClients - 1
    /\ StartThread(StartupLogin)
    /\ retry' = "running"
    /\ main' = "wait"
    /\ UNCHANGED <<exitVars, socket, clientVars, current, signals>>

(* waitForPetition: select returns once the socket is readable. *)
SocketReadable == backlog # {} \/ socket = "shutdown"

waitForPetition ==
    /\ main = "wait"
    /\ SocketReadable
    /\ main' = "test"
    /\ UNCHANGED <<exitVars, socket, clientVars, current, poolVars, threadVars,
                   retry, signals>>

TestExit ==
    /\ main = "test"
    /\ main' = IF doExit THEN "finalize" ELSE "get"
    /\ UNCHANGED <<exitVars, socket, clientVars, current, poolVars, threadVars,
                   retry, signals>>

(* getPetition and the delete_finished_threads that follows it: accept a    *)
(* queued client, or fail when the socket is shut down; a client that is    *)
(* gone before it sent its line is a failure too.                           *)
getPetition ==
    /\ main = "get"
    /\ \/ \E p \in backlog :
             /\ backlog' = backlog \ {p}
             /\ current' = IF kind[p] = "broken" THEN Failed ELSE p
       \/ /\ backlog = {}
          /\ socket = "shutdown"
          /\ current' = Failed
          /\ UNCHANGED backlog
    /\ delete_finished_threads
    /\ main' = "dispatch"
    /\ UNCHANGED <<exitVars, socket, kind, answered, semaphoreClients,
                   threadVars, retry, signals>>

(* "ERROR" petitions are dismissed and listeners are registered in the main *)
(* thread; every other petition goes to processCommandInPetitionQueues.     *)
Dispatch ==
    /\ main = "dispatch"
    /\ \/ /\ current = Failed
          /\ main' = "wait"
          /\ current' = NoPetition
          /\ UNCHANGED answered
       \/ /\ current # Failed
          /\ kind[current] = "listener"
          /\ answered' = answered \cup {current}
          /\ main' = "wait"
          /\ current' = NoPetition
       \/ /\ current # Failed
          /\ kind[current] # "listener"
          /\ main' = "acquire"
          /\ UNCHANGED <<current, answered>>
    /\ UNCHANGED <<exitVars, socket, backlog, kind, poolVars, threadVars, retry,
                   signals>>

(* semaphoreClients.wait() blocks the main loop while MaxClients petitions  *)
(* are being processed.                                                     *)
processCommandInPetitionQueues ==
    /\ main = "acquire"
    /\ semaphoreClients > 0
    /\ semaphoreClients' = semaphoreClients - 1
    /\ StartThread(current)
    /\ main' = "wait"
    /\ current' = NoPetition
    /\ UNCHANGED <<exitVars, socket, clientVars, retry, signals>>

(* finalize, up to the join of the retryConnections thread. *)
FinalizeReap ==
    /\ main = "finalize"
    /\ delete_finished_threads
    /\ main' = "joinRetry"
    /\ UNCHANGED <<exitVars, socket, clientVars, current, semaphoreClients,
                   threadVars, retry, signals>>

(* The rest of finalize deletes api, cmdexecuter and cm, and the process    *)
(* ends whatever the remaining petition threads are doing.                  *)
FinalizeDelete ==
    /\ main = "joinRetry"
    /\ retry = "ended"
    /\ main' = "ended"
    /\ backlog' = {}
    /\ UNCHANGED <<exitVars, socket, kind, answered, current, poolVars,
                   threadVars, retry, signals>>

MainStep ==
    \/ StartServer \/ waitForPetition \/ TestExit \/ getPetition \/ Dispatch
    \/ processCommandInPetitionQueues \/ FinalizeReap \/ FinalizeDelete

-----------------------------------------------------------------------------
(* retryConnections: loops until it reads doExit. *)

retryConnections ==
    /\ retry = "running"
    /\ doExit
    /\ retry' = "ended"
    /\ UNCHANGED <<exitVars, socket, clientVars, mainVars, poolVars, threadVars,
                   signals>>

-----------------------------------------------------------------------------
(* A petition thread, doProcessLine.  It runs while the process does. *)

ThreadAt(p, state) == thread[p] = state /\ main # "ended"

Goto(p, state) == thread' = [thread EXCEPT ![p] = state]

(* process_line of an ordinary command returns FALSE; of a quit, TRUE, or   *)
(* FALSE when the user of a shell does not confirm.                         *)
process_line(p) ==
    /\ ThreadAt(p, "process")
    /\ kind[p] # "quitwait"
    /\ \E r \in IF kind[p] = "quit" THEN BOOLEAN ELSE {FALSE} :
          result' = [result EXCEPT ![p] = r]
    /\ Goto(p, "store")
    /\ UNCHANGED <<exitVars, socket, clientVars, mainVars, poolVars, waits,
                   retry, signals>>

(* Mutant of StillOngoing: the quit does not count itself. *)
MutOneMoreIsFine(p) == Cardinality(petitionThreads \ endedPetitionThreads) > 2

(* quit --wait-for-ongoing-petitions: reap, then give the other petitions a *)
(* while, up to MaxWaits times.                                             *)
StillOngoing(p) == Cardinality(petitionThreads \ endedPetitionThreads) > 1

WaitForOngoingPetitions(p) ==
    /\ ThreadAt(p, "process")
    /\ kind[p] = "quitwait"
    /\ delete_finished_threads
    /\ IF StillOngoing(p) /\ waits[p] > 0
       THEN /\ waits' = [waits EXCEPT ![p] = @ - 1]
            /\ UNCHANGED <<thread, result>>
       ELSE /\ Goto(p, "store")
            /\ result' = [result EXCEPT ![p] = TRUE]
            /\ UNCHANGED waits
    /\ UNCHANGED <<exitVars, socket, clientVars, mainVars, semaphoreClients,
                   retry, signals>>

(* "doExit = process_line(...)": every petition overwrites the flag. *)
StoreResult(p) ==
    /\ ThreadAt(p, "store")
    /\ doExit' = result[p]
    /\ Goto(p, "answer")
    /\ UNCHANGED <<stopCheckingforUpdaters, socket, clientVars, mainVars,
                   poolVars, result, waits, retry, signals>>

(* The first read of doExit stops the updates thread; then                  *)
(* returnAndClosePetition, except for the startup login, which has no       *)
(* client.                                                                  *)
returnAndClosePetition(p) ==
    /\ ThreadAt(p, "answer")
    /\ stopCheckingforUpdaters' = (stopCheckingforUpdaters \/ doExit)
    /\ answered' = IF p = StartupLogin THEN answered ELSE answered \cup {p}
    /\ Goto(p, "release")
    /\ UNCHANGED <<doExit, socket, backlog, kind, mainVars, poolVars, result,
                   waits, retry, signals>>

(* Mutants of ReleaseSemaphore: the slot is not given back; only petitions  *)
(* with a client give theirs back; it is given back on two paths.           *)
MutNoRelease(p) ==
    /\ ThreadAt(p, "release")
    /\ Goto(p, "wake")
    /\ UNCHANGED <<exitVars, socket, clientVars, mainVars, poolVars, result,
                   waits, retry, signals>>

MutReleaseOnlyWithClient(p) ==
    /\ ThreadAt(p, "release")
    /\ semaphoreClients' = semaphoreClients + (IF p = StartupLogin THEN 0 ELSE 1)
    /\ Goto(p, "wake")
    /\ UNCHANGED <<exitVars, socket, clientVars, mainVars, petitionThreads,
                   endedPetitionThreads, result, waits, retry, signals>>

ReleaseSemaphore(p) ==
    /\ ThreadAt(p, "release")
    /\ semaphoreClients' = semaphoreClients + 1
    /\ Goto(p, "wake")
    /\ UNCHANGED <<exitVars, socket, clientVars, mainVars, petitionThreads,
                   endedPetitionThreads, result, waits, retry, signals>>

(* The second read of doExit; stopWaiting shuts the socket down. *)
WakeMain(p) ==
    /\ ThreadAt(p, "wake")
    /\ socket' = IF doExit THEN "shutdown" ELSE socket
    /\ Goto(p, "announce")
    /\ UNCHANGED <<exitVars, clientVars, mainVars, poolVars, result, waits,
                   retry, signals>>

AnnounceEnd(p) ==
    /\ ThreadAt(p, "announce")
    /\ endedPetitionThreads' = endedPetitionThreads \cup {p}
    /\ Goto(p, "returned")
    /\ UNCHANGED <<exitVars, socket, clientVars, mainVars, semaphoreClients,
                   petitionThreads, result, waits, retry, signals>>

ThreadStep(p) ==
    \/ process_line(p) \/ WaitForOngoingPetitions(p) \/ StoreResult(p)
    \/ returnAndClosePetition(p) \/ ReleaseSemaphore(p)
    \/ WakeMain(p) \/ AnnounceEnd(p)

-----------------------------------------------------------------------------
Next ==
    \/ \E p \in Petitions : Connect(p)
    \/ ExitSignal
    \/ MainStep
    \/ retryConnections
    \/ \E p \in Petitions : ThreadStep(p)

Spec == Init /\ [][Next]_vars

(* Every thread of the server that can run runs, and every command ends.    *)
(* Clients and signals owe nothing.                                         *)
Fairness ==
    /\ WF_vars(MainStep)
    /\ WF_vars(retryConnections)
    /\ \A p \in Petitions : WF_vars(ThreadStep(p))

FairSpec == Spec /\ Fairness

-----------------------------------------------------------------------------
(* Properties *)

MainStates == {"startup", "wait", "test", "get", "dispatch", "acquire",
               "finalize", "joinRetry", "ended"}
ThreadStates == {"none", "process", "store", "answer", "release",
                 "wake", "announce", "returned"}

TypeOK ==
    /\ doExit \in BOOLEAN
    /\ stopCheckingforUpdaters \in BOOLEAN
    /\ socket \in {"listening", "shutdown"}
    /\ backlog \subseteq Petitions
    /\ kind \in [Petitions -> Kinds \cup {"none", "command"}]
    /\ main \in MainStates
    /\ current \in Petitions \cup {NoPetition, Failed}
    /\ semaphoreClients \in 0 .. MaxClients
    /\ petitionThreads \subseteq Petitions
    /\ endedPetitionThreads \subseteq Petitions
    /\ thread \in [Petitions -> ThreadStates]
    /\ result \in [Petitions -> BOOLEAN]
    /\ waits \in [Petitions -> 0 .. MaxWaits]
    /\ retry \in {"none", "running", "ended"}
    /\ answered \subseteq Petitions
    /\ signals \in 0 .. MaxSignals

HoldsSlot(p) == thread[p] \in {"process", "store", "answer", "release"}

(* semaphoreClients counts exactly the petitions that have not been         *)
(* answered: no interleaving of releases and waits leaks or forges a slot.  *)
SlotsAccountedFor ==
    semaphoreClients + Cardinality({p \in Petitions : HoldsSlot(p)}) = MaxClients

Running(p) == thread[p] \notin {"none", "returned"}

(* The object of a thread is owned until the thread has announced its end:  *)
(* neither the main loop nor a waiting quit destroys or joins a thread that *)
(* is still processing, whoever of them reaps first.                        *)
RunningThreadsAreOwned ==
    \A p \in Petitions :
        /\ Running(p) => p \in petitionThreads
        /\ p \in endedPetitionThreads => thread[p] = "returned"

(* A quit --wait-for-ongoing-petitions that had attempts left when it went  *)
(* on has really outlived every other petition that was accepted.           *)
QuietQuit ==
    [][\A p \in Petitions :
          /\ kind[p] = "quitwait" /\ thread[p] = "process" /\ waits[p] > 0
          /\ thread'[p] = "store"
          => \A q \in Petitions \ {p} : ~Running(q)]_vars

(* Every client that connects is answered or finds the server leaving: a    *)
(* full pool delays it but never starves it.                                *)
ClientsAreServed ==
    \A p \in Petitions :
        (p \in backlog /\ kind[p] # "broken") ~>
            (p \in answered \/ main \in {"finalize", "joinRetry", "ended"})

=============================================================================
