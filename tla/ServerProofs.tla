----------------------------- MODULE ServerProofs -----------------------------
(***************************************************************************)
(* Proofs about the main loop of the server, PetitionServer, for any number *)
(* of petitions, slots, waits and signals; and about the commands that its  *)
(* petition threads run: in the second part on syncs, mounts and            *)
(* .megaignore files, LocalFolders, for any clients, requests and folders;  *)
(* in the third on the remote tree, RemoteTree, for any threads, scripts    *)
(* and trees.                                                               *)
(*                                                                          *)
(* SlotsAccountedFor and RunningThreadsAreOwned are not inductive: a thread *)
(* must only be started for a petition that has none yet.  That is          *)
(* WaitingPetitions: a petition that is queued, or in the hands of the main *)
(* thread, has no thread, and is in one of these places only.               *)
(*                                                                          *)
(* Neither are the three properties of LocalFolders.  What a command has    *)
(* done only counts at its end, so CommandsInv follows it there: DoneSoFar  *)
(* says at each point what the command is and what it has done by then, and *)
(* FoundAsNamed that the sync it is to change is still the one it named.    *)
(* What is told of a .megaignore file is not true of it while a command is  *)
(* rewriting it: IgnoreInv says then of the lines that the command has kept *)
(* what it says of the file at all other times, and that the mutex of the   *)
(* file keeps every other command away meanwhile.                           *)
(*                                                                          *)
(* The three of RemoteTree are about what a command takes away, with what   *)
(* it learned of the tree some requests before.  TreeInv says what of that  *)
(* is still true: a node that it has in hand is what it was or is gone, and *)
(* agreed to where it is to be removed (Settled); before the old file is    *)
(* removed the new one is beside it (Arrived); what deleteversions has read *)
(* are older versions (OldVersions).  All but the first only until somebody *)
(* else moves things about, which the model notes.  Of the tree itself it   *)
(* says that below a file there are versions, in a line (VersionsBelow):    *)
(* else a file could go with a folder, or with a version of its own.        *)
(***************************************************************************)
EXTENDS PetitionServer, LocalFolders, RemoteTree, Integers,
        FiniteSetTheorems, SequenceTheorems, TLAPS

-----------------------------------------------------------------------------
(* The inductive invariant *)

WaitingPetitions ==
    /\ \A p \in Petitions :
          kind[p] = "none" \/ p \in backlog \/ p = current => thread[p] = "none"
    /\ \A p \in Petitions : p \in backlog \/ p = current => kind[p] # "none"
    /\ current \notin backlog
    /\ kind[StartupLogin] # "none"
    /\ StartupLogin \notin backlog
    /\ StartupLogin # current

MainHolds ==
    /\ main = "startup" =>
          /\ semaphoreClients = MaxClients
          /\ \A p \in Petitions : thread[p] = "none"
    /\ main = "acquire" => current \in Petitions
    /\ main = "dispatch" => current \in Petitions \cup {Failed}

IInv ==
    /\ TypeOK
    /\ WaitingPetitions
    /\ MainHolds
    /\ RunningThreadsAreOwned
    /\ SlotsAccountedFor

-----------------------------------------------------------------------------
(* Lemmas about the petitions that hold a slot *)

Holders == {p \in Petitions : HoldsSlot(p)}

(* What the holders do with their slots keeps the count right. *)
LEMMA HoldersAreFinite == IsFiniteSet(Holders) /\ Cardinality(Holders) \in Nat
BY PetitionsAssumption, FS_Subset, FS_CardinalityType DEF Holders

LEMMA SameHolders ==
    ASSUME SlotsAccountedFor, UNCHANGED semaphoreClients,
           \A p \in Petitions : HoldsSlot(p)' <=> HoldsSlot(p)
    PROVE  SlotsAccountedFor'
<1>1. {p \in Petitions : HoldsSlot(p)}' = {p \in Petitions : HoldsSlot(p)}
  OBVIOUS
<1> QED
  BY <1>1 DEF SlotsAccountedFor

LEMMA OneMoreHolder ==
    ASSUME NEW q \in Petitions, IInv, semaphoreClients > 0,
           thread[q] = "none", thread' = [thread EXCEPT ![q] = "process"],
           semaphoreClients' = semaphoreClients - 1
    PROVE  SlotsAccountedFor' /\ semaphoreClients' \in 0 .. MaxClients
<1>1. Holders' = Holders \cup {q} /\ q \notin Holders
  BY DEF Holders, HoldsSlot, IInv, TypeOK
<1>2. Cardinality(Holders') = Cardinality(Holders) + 1
  BY <1>1, HoldersAreFinite, FS_AddElement
<1>3. semaphoreClients \in 0 .. MaxClients
  BY DEF IInv, TypeOK
<1>4. semaphoreClients + Cardinality(Holders) = MaxClients
  BY DEF IInv, SlotsAccountedFor, Holders
<1>5. semaphoreClients' + Cardinality(Holders') = MaxClients
  BY <1>2, <1>3, <1>4, HoldersAreFinite, BoundsAssumption
<1> QED
  BY <1>3, <1>5, BoundsAssumption DEF SlotsAccountedFor, Holders

LEMMA OneHolderLess ==
    ASSUME NEW q \in Petitions, IInv,
           thread[q] = "release", thread' = [thread EXCEPT ![q] = "wake"],
           semaphoreClients' = semaphoreClients + 1
    PROVE  SlotsAccountedFor' /\ semaphoreClients' \in 0 .. MaxClients
<1>1. Holders' = Holders \ {q} /\ q \in Holders
  BY DEF Holders, HoldsSlot, IInv, TypeOK
<1>2. Cardinality(Holders') = Cardinality(Holders) - 1
  BY <1>1, HoldersAreFinite, FS_RemoveElement
<1>3. Cardinality(Holders) # 0
  BY <1>1, HoldersAreFinite, FS_EmptySet
<1>4. semaphoreClients \in 0 .. MaxClients
  BY DEF IInv, TypeOK
<1>5. semaphoreClients + Cardinality(Holders) = MaxClients
  BY DEF IInv, SlotsAccountedFor, Holders
<1>6. semaphoreClients' + Cardinality(Holders') = MaxClients
  BY <1>2, <1>4, <1>5, HoldersAreFinite, BoundsAssumption
<1>7. semaphoreClients' \in 0 .. MaxClients
  BY <1>3, <1>4, <1>5, HoldersAreFinite, BoundsAssumption
<1> QED
  BY <1>6, <1>7 DEF SlotsAccountedFor, Holders

-----------------------------------------------------------------------------
(* The initial states satisfy the inductive invariant. *)
LEMMA InitIInv == Init => IInv
<1> SUFFICES ASSUME Init PROVE IInv
  OBVIOUS
<1> USE PetitionsAssumption, BoundsAssumption, KindsAssumption DEF Init
<1>1. doExit \in BOOLEAN /\ stopCheckingforUpdaters \in BOOLEAN
  BY Zenon
<1>2. result \in [Petitions -> BOOLEAN]
  BY Zenon
<1>3. kind \in [Petitions -> Kinds \cup {"none", "command"}]
  OBVIOUS
<1>4. TypeOK
  BY <1>1, <1>2, <1>3 DEF TypeOK, MainStates, ThreadStates
<1>5. WaitingPetitions /\ MainHolds /\ RunningThreadsAreOwned
  BY DEF WaitingPetitions, MainHolds, RunningThreadsAreOwned, Running
<1>6. {p \in Petitions : HoldsSlot(p)} = {}
  BY DEF HoldsSlot
<1>7. SlotsAccountedFor
  BY <1>6, FS_EmptySet DEF SlotsAccountedFor
<1> QED
  BY <1>4, <1>5, <1>7 DEF IInv

-----------------------------------------------------------------------------
(* Reaping joins only threads that have returned. *)
LEMMA ReapingIsSafe ==
    ASSUME IInv, delete_finished_threads, UNCHANGED thread
    PROVE  /\ petitionThreads' \subseteq Petitions
           /\ endedPetitionThreads' \subseteq Petitions
           /\ RunningThreadsAreOwned'
<1>1. petitionThreads \subseteq Petitions
  BY DEF IInv, TypeOK
<1>2. RunningThreadsAreOwned
  BY DEF IInv
<1> QED
  BY <1>1, <1>2 DEF delete_finished_threads, RunningThreadsAreOwned, Running

(* Every step of the main thread preserves the inductive invariant. *)
LEMMA MainStepIInv == IInv /\ MainStep => IInv'
<1> SUFFICES ASSUME IInv, MainStep PROVE IInv'
  OBVIOUS
<1> USE PetitionsAssumption, BoundsAssumption DEF IInv
<1> USE DEF mainVars, exitVars, clientVars, poolVars, threadVars, MainStates
<1>1. CASE StartServer
  <2> USE <1>1 DEF StartServer, StartThread
  <2>1. thread[StartupLogin] = "none" /\ semaphoreClients > 0
    BY DEF MainHolds
  <2>2. SlotsAccountedFor' /\ semaphoreClients' \in 0 .. MaxClients
    BY <2>1, OneMoreHolder
  <2>3. TypeOK'
    BY <2>2 DEF TypeOK, ThreadStates
  <2>4. WaitingPetitions' /\ MainHolds'
    BY DEF TypeOK, WaitingPetitions, MainHolds
  <2>5. RunningThreadsAreOwned'
    BY <2>1 DEF TypeOK, RunningThreadsAreOwned, Running
  <2> QED
    BY <2>2, <2>3, <2>4, <2>5
<1>2. CASE waitForPetition \/ TestExit
  <2> USE <1>2 DEF waitForPetition, TestExit
  <2>1. TypeOK'
    BY DEF TypeOK
  <2>2. WaitingPetitions' /\ MainHolds'
    BY DEF WaitingPetitions, MainHolds
  <2>3. RunningThreadsAreOwned'
    BY DEF RunningThreadsAreOwned, Running
  <2>4. SlotsAccountedFor'
    BY SameHolders DEF HoldsSlot
  <2> QED
    BY <2>1, <2>2, <2>3, <2>4
<1>3. CASE getPetition
  <2> USE <1>3 DEF getPetition
  <2>1. RunningThreadsAreOwned' /\ petitionThreads' \subseteq Petitions
            /\ endedPetitionThreads' \subseteq Petitions
    BY ReapingIsSafe
  <2>2. TypeOK'
    BY <2>1 DEF TypeOK
  <2>3. WaitingPetitions'
    BY DEF TypeOK, WaitingPetitions
  <2>4. MainHolds'
    BY DEF TypeOK, MainHolds
  <2>5. SlotsAccountedFor'
    BY SameHolders DEF HoldsSlot
  <2> QED
    BY <2>1, <2>2, <2>3, <2>4, <2>5
<1>4. CASE Dispatch
  <2> USE <1>4 DEF Dispatch
  <2>1. TypeOK'
    BY DEF TypeOK, MainHolds
  <2>2. WaitingPetitions'
    BY DEF TypeOK, WaitingPetitions
  <2>3. MainHolds'
    BY DEF MainHolds
  <2>4. RunningThreadsAreOwned'
    BY DEF RunningThreadsAreOwned, Running
  <2>5. SlotsAccountedFor'
    BY SameHolders DEF HoldsSlot
  <2> QED
    BY <2>1, <2>2, <2>3, <2>4, <2>5
<1>5. CASE processCommandInPetitionQueues
  <2> USE <1>5 DEF processCommandInPetitionQueues, StartThread
  <2>1. current \in Petitions /\ thread[current] = "none"
    BY DEF MainHolds, WaitingPetitions
  <2>2. SlotsAccountedFor' /\ semaphoreClients' \in 0 .. MaxClients
    BY <2>1, OneMoreHolder
  <2>3. TypeOK'
    BY <2>1, <2>2 DEF TypeOK, ThreadStates
  <2>4. WaitingPetitions' /\ MainHolds'
    BY <2>1 DEF TypeOK, WaitingPetitions, MainHolds
  <2>5. RunningThreadsAreOwned'
    BY <2>1 DEF TypeOK, RunningThreadsAreOwned, Running
  <2> QED
    BY <2>2, <2>3, <2>4, <2>5
<1>6. CASE FinalizeReap
  <2> USE <1>6 DEF FinalizeReap
  <2>1. RunningThreadsAreOwned' /\ petitionThreads' \subseteq Petitions
            /\ endedPetitionThreads' \subseteq Petitions
    BY ReapingIsSafe
  <2>2. TypeOK'
    BY <2>1 DEF TypeOK
  <2>3. WaitingPetitions' /\ MainHolds'
    BY DEF WaitingPetitions, MainHolds
  <2>4. SlotsAccountedFor'
    BY SameHolders DEF HoldsSlot
  <2> QED
    BY <2>1, <2>2, <2>3, <2>4
<1>7. CASE FinalizeDelete
  <2> USE <1>7 DEF FinalizeDelete
  <2>1. TypeOK'
    BY DEF TypeOK
  <2>2. WaitingPetitions' /\ MainHolds'
    BY DEF WaitingPetitions, MainHolds
  <2>3. RunningThreadsAreOwned'
    BY DEF RunningThreadsAreOwned, Running
  <2>4. SlotsAccountedFor'
    BY SameHolders DEF HoldsSlot
  <2> QED
    BY <2>1, <2>2, <2>3, <2>4
<1> QED
  BY <1>1, <1>2, <1>3, <1>4, <1>5, <1>6, <1>7 DEF MainStep

(* Every step of a petition thread preserves the inductive invariant. *)
LEMMA ThreadStepIInv ==
    ASSUME NEW p \in Petitions, IInv, ThreadStep(p)
    PROVE  IInv'
<1> USE PetitionsAssumption, BoundsAssumption DEF IInv
<1> USE DEF mainVars, exitVars, clientVars, poolVars, threadVars, ThreadAt, Goto
<1>1. CASE process_line(p)
  <2> USE <1>1 DEF process_line
  <2>1. thread[p] # "none" /\ thread[p] # "returned"
    OBVIOUS
  <2>2. result' \in [Petitions -> BOOLEAN]
    <3>1. result \in [Petitions -> BOOLEAN]
      BY DEF TypeOK
    <3> QED
      BY <3>1, Zenon
  <2>3. TypeOK'
    BY <2>2 DEF TypeOK, ThreadStates
  <2>4. WaitingPetitions' /\ MainHolds'
    BY <2>1 DEF TypeOK, WaitingPetitions, MainHolds
  <2>5. RunningThreadsAreOwned'
    BY <2>1 DEF TypeOK, RunningThreadsAreOwned, Running
  <2>6. SlotsAccountedFor'
    BY SameHolders DEF TypeOK, HoldsSlot
  <2> QED
    BY <2>3, <2>4, <2>5, <2>6
<1>2. CASE WaitForOngoingPetitions(p)
  <2> USE <1>2 DEF WaitForOngoingPetitions
  <2>1. /\ petitionThreads' \subseteq Petitions
        /\ endedPetitionThreads' \subseteq Petitions
    BY DEF TypeOK, delete_finished_threads
  <2>2. result' \in [Petitions -> BOOLEAN]
    <3>1. result \in [Petitions -> BOOLEAN]
      BY DEF TypeOK
    <3> QED
      BY <3>1, Zenon
  <2>3. waits' \in [Petitions -> 0 .. MaxWaits] /\ thread' \in [Petitions -> ThreadStates]
    BY DEF TypeOK, ThreadStates
  <2>4. TypeOK'
    BY <2>1, <2>2, <2>3 DEF TypeOK
  <2>5. WaitingPetitions' /\ MainHolds'
    BY DEF TypeOK, WaitingPetitions, MainHolds
  <2>6. RunningThreadsAreOwned'
    BY DEF TypeOK, RunningThreadsAreOwned, Running, delete_finished_threads
  <2>7. SlotsAccountedFor'
    BY SameHolders DEF TypeOK, HoldsSlot
  <2> QED
    BY <2>4, <2>5, <2>6, <2>7
<1>3. CASE StoreResult(p)
  <2> USE <1>3 DEF StoreResult
  <2>1. thread[p] # "none" /\ thread[p] # "returned"
    OBVIOUS
  <2>2. doExit' \in BOOLEAN
    <3>1. result \in [Petitions -> BOOLEAN]
      BY DEF TypeOK
    <3> QED
      BY <3>1, Zenon
  <2>3. TypeOK'
    BY <2>2 DEF TypeOK, ThreadStates
  <2>4. WaitingPetitions' /\ MainHolds'
    BY <2>1 DEF TypeOK, WaitingPetitions, MainHolds
  <2>5. RunningThreadsAreOwned'
    BY <2>1 DEF TypeOK, RunningThreadsAreOwned, Running
  <2>6. SlotsAccountedFor'
    BY SameHolders DEF TypeOK, HoldsSlot
  <2> QED
    BY <2>3, <2>4, <2>5, <2>6
<1>4. CASE returnAndClosePetition(p)
  <2> USE <1>4 DEF returnAndClosePetition
  <2>1. thread[p] # "none" /\ thread[p] # "returned"
    OBVIOUS
  <2>2. stopCheckingforUpdaters' \in BOOLEAN
    BY Zenon DEF TypeOK
  <2>3. TypeOK'
    BY <2>2 DEF TypeOK, ThreadStates
  <2>4. WaitingPetitions' /\ MainHolds'
    BY <2>1 DEF TypeOK, WaitingPetitions, MainHolds
  <2>5. RunningThreadsAreOwned'
    BY <2>1 DEF TypeOK, RunningThreadsAreOwned, Running
  <2>6. SlotsAccountedFor'
    BY SameHolders DEF TypeOK, HoldsSlot
  <2> QED
    BY <2>3, <2>4, <2>5, <2>6
<1>5. CASE ReleaseSemaphore(p)
  <2> USE <1>5 DEF ReleaseSemaphore
  <2>1. SlotsAccountedFor' /\ semaphoreClients' \in 0 .. MaxClients
    BY OneHolderLess
  <2>2. TypeOK'
    BY <2>1 DEF TypeOK, ThreadStates
  <2>3. WaitingPetitions' /\ MainHolds'
    BY DEF TypeOK, WaitingPetitions, MainHolds
  <2>4. RunningThreadsAreOwned'
    BY DEF TypeOK, RunningThreadsAreOwned, Running
  <2> QED
    BY <2>1, <2>2, <2>3, <2>4
<1>6. CASE WakeMain(p)
  <2> USE <1>6 DEF WakeMain
  <2>1. thread[p] # "none" /\ thread[p] # "returned"
    OBVIOUS
  <2>3. TypeOK'
    BY DEF TypeOK, ThreadStates
  <2>4. WaitingPetitions' /\ MainHolds'
    BY <2>1 DEF TypeOK, WaitingPetitions, MainHolds
  <2>5. RunningThreadsAreOwned'
    BY <2>1 DEF TypeOK, RunningThreadsAreOwned, Running
  <2>6. SlotsAccountedFor'
    BY SameHolders DEF TypeOK, HoldsSlot
  <2> QED
    BY <2>3, <2>4, <2>5, <2>6
<1>7. CASE AnnounceEnd(p)
  <2> USE <1>7 DEF AnnounceEnd
  <2>1. thread[p] # "none" /\ thread[p] # "returned"
    OBVIOUS
  <2>3. TypeOK'
    BY DEF TypeOK, ThreadStates
  <2>4. WaitingPetitions' /\ MainHolds'
    BY <2>1 DEF TypeOK, WaitingPetitions, MainHolds
  <2>5. RunningThreadsAreOwned'
    BY <2>1 DEF TypeOK, RunningThreadsAreOwned, Running
  <2>6. SlotsAccountedFor'
    BY SameHolders DEF TypeOK, HoldsSlot
  <2> QED
    BY <2>3, <2>4, <2>5, <2>6
<1> QED
  BY <1>1, <1>2, <1>3, <1>4, <1>5, <1>6, <1>7 DEF ThreadStep

(* Every step of the specification preserves the inductive invariant. *)
LEMMA NextIInv == IInv /\ [Next]_vars => IInv'
<1> SUFFICES ASSUME IInv, [Next]_vars PROVE IInv'
  OBVIOUS
<1> USE DEF mainVars, exitVars, clientVars, poolVars, threadVars
<1>1. ASSUME NEW p \in Petitions, Connect(p) PROVE IInv'
  <2> USE <1>1, PetitionsAssumption, BoundsAssumption DEF Connect, IInv
  <2>1. TypeOK'
    BY DEF TypeOK
  <2>2. WaitingPetitions'
    BY KindsAssumption DEF TypeOK, WaitingPetitions
  <2>3. MainHolds' /\ RunningThreadsAreOwned'
    BY DEF MainHolds, RunningThreadsAreOwned, Running
  <2>4. SlotsAccountedFor'
    BY SameHolders DEF HoldsSlot
  <2> QED
    BY <2>1, <2>2, <2>3, <2>4
<1>2. CASE ExitSignal
  <2> USE <1>2, BoundsAssumption DEF ExitSignal, IInv
  <2>1. doExit' \in BOOLEAN /\ stopCheckingforUpdaters' \in BOOLEAN
    BY Zenon
  <2>2. TypeOK'
    BY <2>1 DEF TypeOK, MainStates
  <2>3. WaitingPetitions' /\ MainHolds' /\ RunningThreadsAreOwned'
    BY DEF WaitingPetitions, MainHolds, RunningThreadsAreOwned, Running
  <2>4. SlotsAccountedFor'
    BY SameHolders DEF HoldsSlot
  <2> QED
    BY <2>2, <2>3, <2>4
<1>3. CASE MainStep
  BY <1>3, MainStepIInv
<1>4. CASE retryConnections
  <2> USE <1>4 DEF retryConnections, IInv
  <2>1. TypeOK'
    BY DEF TypeOK
  <2>2. WaitingPetitions' /\ MainHolds' /\ RunningThreadsAreOwned'
    BY DEF WaitingPetitions, MainHolds, RunningThreadsAreOwned, Running
  <2>3. SlotsAccountedFor'
    BY SameHolders DEF HoldsSlot
  <2> QED
    BY <2>1, <2>2, <2>3
<1>5. ASSUME NEW p \in Petitions, ThreadStep(p) PROVE IInv'
  BY <1>5, ThreadStepIInv
<1>6. CASE UNCHANGED vars
  <2> USE <1>6 DEF vars, IInv
  <2>1. TypeOK'
    BY DEF TypeOK
  <2>2. WaitingPetitions' /\ MainHolds' /\ RunningThreadsAreOwned'
    BY DEF WaitingPetitions, MainHolds, RunningThreadsAreOwned, Running
  <2>3. SlotsAccountedFor'
    BY SameHolders DEF HoldsSlot
  <2> QED
    BY <2>1, <2>2, <2>3
<1> QED
  BY <1>1, <1>2, <1>3, <1>4, <1>5, <1>6 DEF Next

LEMMA InvariantHolds == Spec => []IInv
BY InitIInv, NextIInv, PTL DEF Spec

(* Only the wait for the ongoing petitions takes a waiting quit from its    *)
(* processing to the end of process_line.                                   *)
LEMMA QuitLeavesByWaiting ==
    ASSUME IInv, Next, NEW p \in Petitions,
           kind[p] = "quitwait", thread[p] = "process", thread'[p] = "store"
    PROVE  WaitForOngoingPetitions(p)
<1>1. thread \in [Petitions -> ThreadStates]
  BY DEF IInv, TypeOK
<1>2. ~ (thread' = thread)
  OBVIOUS
<1>3. ~ \E q \in Petitions : Connect(q)
  BY <1>2 DEF Connect, threadVars
<1>4. ~ ExitSignal /\ ~ retryConnections
  BY <1>2 DEF ExitSignal, retryConnections, threadVars
<1>5. ~ MainStep
  <2>1. ~ StartServer /\ ~ processCommandInPetitionQueues
    BY <1>1 DEF StartServer, processCommandInPetitionQueues, StartThread
  <2>2. ~ (\/ waitForPetition \/ TestExit \/ getPetition \/ Dispatch
           \/ FinalizeReap \/ FinalizeDelete)
    BY <1>2 DEF waitForPetition, TestExit, getPetition, Dispatch, FinalizeReap,
                FinalizeDelete, threadVars
  <2> QED
    BY <2>1, <2>2 DEF MainStep
<1>6. PICK q \in Petitions : ThreadStep(q)
  BY <1>3, <1>4, <1>5 DEF Next
<1>7. q = p
  BY <1>1, <1>6 DEF ThreadStep, process_line, WaitForOngoingPetitions, StoreResult,
                    returnAndClosePetition, ReleaseSemaphore, WakeMain, AnnounceEnd,
                    Goto
<1> QED
  BY <1>1, <1>6, <1>7 DEF ThreadStep, process_line, StoreResult,
                    returnAndClosePetition, ReleaseSemaphore, WakeMain, AnnounceEnd,
                    ThreadAt

(* When at most one thread is ongoing, no other petition runs beside one    *)
(* that is being processed.                                                 *)
LEMMA OnlyOngoing ==
    ASSUME IInv, NEW p \in Petitions, thread[p] = "process", ~StillOngoing(p),
           NEW q \in Petitions, q # p
    PROVE  ~Running(q)
<1> SUFFICES ASSUME Running(q) PROVE FALSE
  OBVIOUS
<1> DEFINE Ongoing == petitionThreads \ endedPetitionThreads
<1>1. p \in Ongoing /\ q \in Ongoing
  BY DEF IInv, RunningThreadsAreOwned, Running
<1>2. IsFiniteSet(Ongoing) /\ Cardinality(Ongoing) \in Nat
  <2>1. Ongoing \in SUBSET Petitions
    BY DEF IInv, TypeOK
  <2> QED
    BY <2>1, PetitionsAssumption, FS_Subset, FS_CardinalityType
<1>3. Cardinality({p, q}) = 2
  <2>1. IsFiniteSet({p}) /\ Cardinality({p}) = 1
    BY FS_Singleton
  <2>2. {p, q} = {p} \cup {q} /\ q \notin {p}
    OBVIOUS
  <2> QED
    BY <2>1, <2>2, FS_AddElement
<1>4. Cardinality({p, q}) <= Cardinality(Ongoing)
  <2>1. {p, q} \in SUBSET Ongoing
    BY <1>1
  <2> QED
    BY <1>2, <2>1, FS_Subset
<1> QED
  BY <1>2, <1>3, <1>4 DEF StillOngoing

-----------------------------------------------------------------------------
(* Theorems *)

(* The state stays in its domains; in particular the semaphore never has    *)
(* more slots than it was created with.                                     *)
THEOREM TypeCorrect == Spec => []TypeOK
<1>1. IInv => TypeOK
  BY DEF IInv
<1> QED
  BY <1>1, InvariantHolds, PTL

(* Slots are neither leaked nor forged, for any number of petitions and any *)
(* size of the pool.                                                        *)
THEOREM SlotsAccountedForHolds == Spec => []SlotsAccountedFor
<1>1. IInv => SlotsAccountedFor
  BY DEF IInv
<1> QED
  BY <1>1, InvariantHolds, PTL

(* A thread that is still processing is neither joined nor destroyed,       *)
(* whoever reaps the threads.                                               *)
THEOREM RunningThreadsAreOwnedHolds == Spec => []RunningThreadsAreOwned
<1>1. IInv => RunningThreadsAreOwned
  BY DEF IInv
<1> QED
  BY <1>1, InvariantHolds, PTL

(* A quit --wait-for-ongoing-petitions that had attempts left when it went  *)
(* on has outlived every other petition, however many there were.           *)
THEOREM QuietQuitHolds == Spec => QuietQuit
<1> DEFINE Quiet ==
      \A p \in Petitions :
          /\ kind[p] = "quitwait" /\ thread[p] = "process" /\ waits[p] > 0
          /\ thread'[p] = "store"
          => \A q \in Petitions \ {p} : ~Running(q)
<1>1. IInv /\ [Next]_vars => [Quiet]_vars
  <2> SUFFICES ASSUME IInv, Next,
                      NEW p \in Petitions, kind[p] = "quitwait",
                      thread[p] = "process", waits[p] > 0, thread'[p] = "store",
                      NEW q \in Petitions \ {p}
               PROVE  ~Running(q)
    OBVIOUS
  <2>1. WaitForOngoingPetitions(p)
    BY QuitLeavesByWaiting
  <2>2. ~StillOngoing(p)
    BY <2>1 DEF WaitForOngoingPetitions
  <2> QED
    BY <2>2, OnlyOngoing
<1> QED
  BY <1>1, InvariantHolds, PTL DEF Spec, QuietQuit

-----------------------------------------------------------------------------
(* The inductive invariant of LocalFolders *)

FolderFields ==
    /\ DOMAIN run = Clients /\ DOMAIN script = Clients /\ DOMAIN syncs = SyncIds
    /\ \A c \in Clients : DOMAIN run[c] = DOMAIN IdleRun /\ script[c] \in Seq(Requests)
    /\ \A i \in SyncIds : DOMAIN syncs[i] = DOMAIN NoSync

(* The points at which a command works on its .megaignore file. *)
OnFile == {"ignoreFile", "open", "executeAdd", "addFilters", "executeRemove", "removeFilters",
           "truncate", "rewrite"}
Rewriting(c) == run[c].pc \in {"truncate", "rewrite"}

FiltersKnown(req) ==
    /\ {"op", "flags", "filters"} \subseteq DOMAIN req
    /\ IsFiniteSet(req.filters)
    /\ \A f \in req.filters : f.word \in STRING /\ (f.valid => f.word # "#" /\ ~f.space)

(* A command is only where its kind may be. *)
FolderPlaces ==
    \A c \in Clients :
        /\ run[c].pc \in Operations => Req(c) \in Requests /\ Req(c).op = run[c].pc
        /\ run[c].pc \in OnFile => Req(c).op \in {"sync-ignore", "exclude"} /\ FiltersKnown(Req(c))
        /\ run[c].pc = "addFilters" => \A f \in Req(c).filters : f.valid

(* The sync that a command is about to change is the one it was asked to    *)
(* change, even if it has been deleted since.                               *)
FoundAsNamed(c) ==
    run[c].pc = "modifySync" =>
        /\ run[c].id \in SyncIds
        /\ syncs[run[c].id].state # "none"
        /\ \/ Req(c).args[1].id = run[c].id
           \/ Req(c).args[1].path = syncs[run[c].id].local

(* The points from which a command only has something to show. *)
Closing == {"idle", "reloadSync", "getSyncIssues", "printSync", "printIssues", "recheck"}

(* What is left of a command, and what it has done by then. *)
DoneSoFar(c) ==
    /\ run[c].pc = "syncFolder" => Req(c).op = "sync" /\ Len(Req(c).args) = 2
    /\ run[c].pc = "modifySync" => Req(c).op = "sync" /\ Len(Req(c).args) = 1
    /\ run[c].pc \in Closing /\ run[c].out = "OK" =>
          \/ Promise(Req(c)) \subseteq run[c].done
          \/ Req(c).op = "sync-ignore" /\ run[c].missed = {"filters"}
    /\ run[c].pc = "addMount" => Req(c).op = "fuse" /\ Req(c).cmd = "add"
    /\ run[c].pc = "enableMount" =>
          /\ Req(c).op = "fuse"
          /\ \/ Req(c).cmd = "enable"
             \/ Req(c).cmd = "add" /\ "mounted" \in run[c].done
    /\ run[c].pc = "disableMount" => Req(c).op = "fuse" /\ Req(c).cmd = "disable"
    /\ run[c].pc \in {"disableFirst", "removeMount"} => Req(c).op = "fuse" /\ Req(c).cmd = "remove"
    /\ run[c].pc = "changeConfig" => Req(c).op = "fuse" /\ Req(c).cmd = "config"

CommandsInv ==
    /\ FolderFields
    /\ FolderPlaces
    /\ \A c \in Clients : FoundAsNamed(c) /\ DoneSoFar(c)

(* The .megaignore files: what is in one, ... *)
FileKnown(file) ==
    /\ file \in IgnoreFile
    /\ file.open => file.lines # <<>> /\ Last(file.lines) # <<>>
    /\ ~file.exists => file.lines = <<>>

Short(lines) == \A l \in ToSet(lines) : Len(l) = 1
FiltersIn(lines) == {l \in ToSet(lines) : l # <<>> /\ l[1] # "#"}

(* ... who may change it, and how it was left, ... *)
LockHeld(c) ==
    run[c].dir \in DOMAIN files /\ Rewriting(c) =>
        /\ lock[run[c].dir] = c
        /\ run[c].pc = "rewrite" => files[run[c].dir].exists /\ ~files[run[c].dir].open

(* ... and what was told of it.  While a command rewrites it, the lines it  *)
(* has kept are as told but for those that it is removing and the unsettled. *)
Agrees(known, except, lines) ==
    \A t \in DOMAIN known \ except : (known[t] = "added") <=> t \in FiltersIn(lines)

KeptAsTold(c) ==
    run[c].dir \in DOMAIN files /\ Rewriting(c) =>
        /\ run[c].kept \in Seq(Line)
        /\ ToSet(run[c].kept) \cap Doomed(c) = {}
        /\ Short(run[c].kept) => Agrees(told[run[c].dir], unsettled[run[c].dir] \cup Doomed(c), run[c].kept)

FileAsTold(d) ==
    (\A c \in Clients : run[c].dir = d => run[c].pc # "rewrite") =>
        (Short(files[d].lines) => Agrees(told[d], unsettled[d], files[d].lines))

IgnoreInv ==
    /\ DOMAIN lock = DOMAIN files /\ DOMAIN told = DOMAIN files /\ DOMAIN unsettled = DOMAIN files
    /\ \A d \in DOMAIN files : FileKnown(files[d]) /\ FileAsTold(d)
    /\ \A c \in Clients : LockHeld(c) /\ KeptAsTold(c)
-----------------------------------------------------------------------------
(* What the steps of a command do to what the invariant is about *)

LEMMA FieldsOfRun ==
    ASSUME FolderFields PROVE
    /\ DOMAIN run = Clients
    /\ \A c \in Clients : DOMAIN run[c] = DOMAIN IdleRun
    /\ DOMAIN IdleRun = {"pc", "req", "out", "done", "missed", "id", "sync", "mount", "dir",
                         "loaded", "kept", "issues", "list", "shown"}
BY DEF FolderFields, IdleRun

OnlyRuns(c) ==
    /\ DOMAIN run' = Clients /\ DOMAIN run'[c] = DOMAIN IdleRun
    /\ \A u \in Clients \ {c} : run'[u] = run[u]

PlaceOf(c) ==
    /\ run[c].pc \in Operations => Req(c) \in Requests /\ Req(c).op = run[c].pc
    /\ run[c].pc \in OnFile => Req(c).op \in {"sync-ignore", "exclude"} /\ FiltersKnown(Req(c))
    /\ run[c].pc = "addFilters" => \A f \in Req(c).filters : f.valid

(* What a step of its thread does to a command: it refuses it, goes on with *)
(* it, or goes on after a request has been carried out.                     *)
Fails(c) ==
    /\ OnlyRuns(c)
    /\ run'[c].pc = "idle" /\ run'[c].out # "OK"

Keeps(c, next) ==
    /\ OnlyRuns(c)
    /\ run'[c].pc = next
    /\ run'[c].req = run[c].req /\ run'[c].out = run[c].out /\ run'[c].done = run[c].done
    /\ run'[c].missed = run[c].missed

Adds(c, next, what) ==
    /\ OnlyRuns(c)
    /\ run'[c].pc = next
    /\ run'[c].req = run[c].req /\ run'[c].done = run[c].done \cup {what}
    /\ run'[c].missed = run[c].missed

(* exclude shows the file after what it does. *)
ShowsAfterwards(c) ==
    /\ OnlyRuns(c)
    /\ run'[c].pc = "ignoreFile"
    /\ Req(c).op = "exclude"
    /\ run'[c].req = [Req(c) EXCEPT !.flags = {"show"}]

LEMMA RefuseEffect ==
    ASSUME FolderFields, NEW c \in Clients, NEW code, code # "OK", Refuse(c, code)
    PROVE  Fails(c)
BY FieldsOfRun DEF Refuse, Return, OnlyRuns, Fails

LEMMA GoEffect ==
    ASSUME FolderFields, NEW c \in Clients, NEW next, Go(c, next)
    PROVE  Keeps(c, next)
BY FieldsOfRun DEF Go, OnlyRuns, Keeps

LEMMA ReturnEffect ==
    ASSUME FolderFields, NEW c \in Clients, Return(c, run[c])
    PROVE  Keeps(c, "idle")
BY FieldsOfRun DEF Return, OnlyRuns, Keeps

LEMMA ShownEffect ==
    ASSUME FolderFields, NEW c \in Clients, NEW rows,
           Return(c, [run[c] EXCEPT !.shown = rows])
    PROVE  Keeps(c, "idle")
BY FieldsOfRun DEF Return, OnlyRuns, Keeps

LEMMA EndEffect ==
    ASSUME FolderFields, NEW c \in Clients, NEW code, code # "OK",
           EndOfCommand(c, [run[c] EXCEPT !.out = code])
    PROVE  Fails(c) \/ ShowsAfterwards(c)
<1>1. CASE Req(c).op = "exclude" /\ ~Shows(c)
  <2>1. run' = [run EXCEPT ![c] = [[run[c] EXCEPT !.out = code]
                                      EXCEPT !.pc = "ignoreFile", !.req.flags = {"show"}]]
    BY <1>1 DEF EndOfCommand
  <2> QED
    BY <1>1, <2>1, FieldsOfRun DEF OnlyRuns, ShowsAfterwards, Req
<1>2. CASE ~(Req(c).op = "exclude" /\ ~Shows(c))
  <2>1. Return(c, [run[c] EXCEPT !.out = code])
    BY <1>2 DEF EndOfCommand
  <2> QED
    BY <2>1, FieldsOfRun DEF Return, OnlyRuns, Fails
<1> QED
  BY <1>1, <1>2

LEMMA RequestEffect ==
    ASSUME FolderFields, NEW c \in Clients, NEW new, NEW next, NEW what,
           Request(c, new, next, what)
    PROVE  /\ UNCHANGED <<script, syncs, files, lock, told, unsettled>>
           /\ Fails(c) \/ Adds(c, next, what)
<1>1. /\ UNCHANGED <<script, syncs, files, lock, told, unsettled>>
      /\ \/ run' = [run EXCEPT ![c].pc = next, ![c].done = @ \cup {what}]
         \/ Refuse(c, "ERROR")
  BY DEF Request, syncWorld, fileWorld
<1>2. CASE run' = [run EXCEPT ![c].pc = next, ![c].done = @ \cup {what}]
  BY <1>1, <1>2, FieldsOfRun DEF OnlyRuns, Adds
<1>3. CASE Refuse(c, "ERROR")
  BY <1>1, <1>3, RefuseEffect
<1> QED
  BY <1>1, <1>2, <1>3

(* The steps that change nothing but what their thread does, and mounts.    *)
QuietActions(c) ==
    \/ Refused(c) \/ addSync(c) \/ reloadSync(c) \/ ListSyncs(c)
    \/ getSyncIssues(c) \/ printSync(c) \/ isAnySyncUploadDelayed(c) \/ SyncIssues(c)
    \/ printIssues(c) \/ getCurrentConfig(c) \/ FindIgnoreFile(c) \/ IgnoreFileExists(c)
    \/ FuseAdd(c) \/ MountAdded(c) \/ FindMount(c) \/ enableMount(c)
    \/ MountEnabled(c) \/ disableMount(c) \/ removeMount(c) \/ changeConfig(c)
    \/ printAllMounts(c)

Frame(c) ==
    /\ OnlyRuns(c)
    /\ UNCHANGED <<script, syncs, files, lock, told, unsettled>>
    /\ run[c].pc \notin {"truncate", "rewrite"}
    /\ run'[c].pc \notin {"truncate", "rewrite", "modifySync"}

LEMMA QuietActionsAreQuiet ==
    ASSUME CommandsInv, NEW c \in Clients, QuietActions(c)
    PROVE  Frame(c) /\ PlaceOf(c)' /\ DoneSoFar(c)'
<1>0. FolderFields /\ PlaceOf(c) /\ DoneSoFar(c)
  BY DEF CommandsInv, FolderPlaces, PlaceOf
<1> DEFINE Result == Frame(c) /\ PlaceOf(c)' /\ DoneSoFar(c)'
<1>1. ASSUME Refused(c) PROVE Result
  <2>1. Fails(c)
    <3>1. Refuse(c, "EARGS") \/ Refuse(c, "NOTLOGGEDIN")
      BY <1>1 DEF Refused
    <3> QED
      BY <1>0, <3>1, RefuseEffect
  <2>2. UNCHANGED <<script, syncs, files, lock, told, unsettled>>
    BY <1>1 DEF Refused, syncWorld, fileWorld
  <2>3. run[c].pc \in Operations
    BY <1>1 DEF Refused
  <2> QED
    BY <1>0, <2>1, <2>2, <2>3
       DEF Frame, Fails, Keeps, Adds, Req, PlaceOf, DoneSoFar, Operations, OnFile, Closing,
           Promise, PromiseOfSync, PromiseOfFuse, FiltersKnown
<1>2. ASSUME addSync(c) PROVE Result
  <2>1. Fails(c) \/ Keeps(c, "syncFolder")
    BY <1>0, <1>2, RefuseEffect, GoEffect DEF addSync
  <2>2. UNCHANGED <<script, syncs, files, lock, told, unsettled>>
    BY <1>2 DEF addSync, syncWorld, fileWorld
  <2>3. run[c].pc = "sync" /\ Len(Req(c).args) = 2
    BY <1>2 DEF addSync, At, Accepted
  <2> QED
    BY <1>0, <2>1, <2>2, <2>3
       DEF Frame, Fails, Keeps, Adds, Req, PlaceOf, DoneSoFar, Operations, OnFile, Closing,
           Promise, PromiseOfSync, PromiseOfFuse, FiltersKnown
<1>3. ASSUME reloadSync(c) PROVE Result
  <2>1. Fails(c) \/ Keeps(c, "getSyncIssues")
    BY <1>0, <1>3, FieldsOfRun, RefuseEffect DEF reloadSync, OnlyRuns, Keeps
  <2>2. UNCHANGED <<script, syncs, files, lock, told, unsettled>>
    BY <1>3 DEF reloadSync, syncWorld, fileWorld
  <2>3. run[c].pc = "reloadSync"
    BY <1>3 DEF reloadSync, At
  <2> QED
    BY <1>0, <2>1, <2>2, <2>3
       DEF Frame, Fails, Keeps, Adds, Req, PlaceOf, DoneSoFar, Operations, OnFile, Closing,
           Promise, PromiseOfSync, PromiseOfFuse, FiltersKnown
<1>4. ASSUME ListSyncs(c) PROVE Result
  <2>1. Keeps(c, "getSyncIssues")
    BY <1>0, <1>4, GoEffect DEF ListSyncs
  <2>2. UNCHANGED <<script, syncs, files, lock, told, unsettled>>
    BY <1>4 DEF ListSyncs, syncWorld, fileWorld
  <2>3. run[c].pc = "sync" /\ Len(Req(c).args) = 0
    BY <1>4 DEF ListSyncs, At, Accepted
  <2>4. Promise(Req(c)) = {}
    BY <1>0, <2>3 DEF PlaceOf, Operations, Promise, PromiseOfSync
  <2>5. Promise(Req(c))' = {}
    BY <2>1, <2>4 DEF Keeps, Req
  <2> QED
    BY <1>0, <2>1, <2>2, <2>3, <2>5
       DEF Frame, Fails, Keeps, Adds, Req, PlaceOf, DoneSoFar, Operations, OnFile, Closing,
           FiltersKnown
<1>5. ASSUME getSyncIssues(c) PROVE Result
  <2>1. Keeps(c, "printIssues") \/ Keeps(c, "printSync")
    BY <1>0, <1>5, FieldsOfRun DEF getSyncIssues, OnlyRuns, Keeps, Req
  <2>2. UNCHANGED <<script, syncs, files, lock, told, unsettled>>
    BY <1>5 DEF getSyncIssues, syncWorld, fileWorld
  <2>3. run[c].pc = "getSyncIssues"
    BY <1>5 DEF getSyncIssues, At
  <2> QED
    BY <1>0, <2>1, <2>2, <2>3
       DEF Frame, Fails, Keeps, Adds, Req, PlaceOf, DoneSoFar, Operations, OnFile, Closing,
           Promise, PromiseOfSync, PromiseOfFuse, FiltersKnown
<1>6. ASSUME printSync(c) PROVE Result
  <2>1. Keeps(c, "printSync")
    BY <1>0, <1>6, FieldsOfRun DEF printSync, At, OnlyRuns, Keeps
  <2>2. UNCHANGED <<script, syncs, files, lock, told, unsettled>>
    BY <1>6 DEF printSync, syncWorld, fileWorld
  <2>3. run[c].pc = "printSync"
    BY <1>6 DEF printSync, At
  <2> QED
    BY <1>0, <2>1, <2>2, <2>3
       DEF Frame, Fails, Keeps, Adds, Req, PlaceOf, DoneSoFar, Operations, OnFile, Closing,
           Promise, PromiseOfSync, PromiseOfFuse, FiltersKnown
<1>7. ASSUME isAnySyncUploadDelayed(c) PROVE Result
  <2>1. Fails(c) \/ Keeps(c, "idle")
    BY <1>0, <1>7, RefuseEffect, ReturnEffect DEF isAnySyncUploadDelayed
  <2>2. UNCHANGED <<script, syncs, files, lock, told, unsettled>>
    BY <1>7 DEF isAnySyncUploadDelayed, syncWorld, fileWorld
  <2>3. run[c].pc = "printSync"
    BY <1>7 DEF isAnySyncUploadDelayed, At
  <2> QED
    BY <1>0, <2>1, <2>2, <2>3
       DEF Frame, Fails, Keeps, Adds, Req, PlaceOf, DoneSoFar, Operations, OnFile, Closing,
           Promise, PromiseOfSync, PromiseOfFuse, FiltersKnown
<1>8. ASSUME SyncIssues(c) PROVE Result
  <2>1. Keeps(c, "getSyncIssues")
    BY <1>0, <1>8, GoEffect DEF SyncIssues
  <2>2. UNCHANGED <<script, syncs, files, lock, told, unsettled>>
    BY <1>8 DEF SyncIssues, syncWorld, fileWorld
  <2>3. run[c].pc = "sync-issues"
    BY <1>8 DEF SyncIssues, At, Accepted
  <2> QED
    BY <1>0, <2>1, <2>2, <2>3
       DEF Frame, Fails, Keeps, Adds, Req, PlaceOf, DoneSoFar, Operations, OnFile, Closing,
           Promise, PromiseOfSync, PromiseOfFuse, FiltersKnown
<1>9. ASSUME printIssues(c) PROVE Result
  <2>1. Fails(c) \/ Keeps(c, "idle")
    <3>1. \/ Refuse(c, "NOTFOUND")
          \/ \E rows : Return(c, [run[c] EXCEPT !.shown = rows])
      BY <1>9 DEF printIssues
    <3> QED
      BY <1>0, <3>1, RefuseEffect, ShownEffect
  <2>2. UNCHANGED <<script, syncs, files, lock, told, unsettled>>
    BY <1>9 DEF printIssues, syncWorld, fileWorld
  <2>3. run[c].pc = "printIssues"
    BY <1>9 DEF printIssues, At
  <2> QED
    BY <1>0, <2>1, <2>2, <2>3
       DEF Frame, Fails, Keeps, Adds, Req, PlaceOf, DoneSoFar, Operations, OnFile, Closing,
           Promise, PromiseOfSync, PromiseOfFuse, FiltersKnown
<1>10. ASSUME getCurrentConfig(c) PROVE Result
  <2>1. Fails(c) \/ Keeps(c, "idle")
    <3>1. \/ Refuse(c, "ERROR")
          \/ Return(c, [run[c] EXCEPT !.shown = <<throttle.now>>])
      BY <1>10 DEF getCurrentConfig
    <3> QED
      BY <1>0, <3>1, RefuseEffect, ShownEffect
  <2>2. UNCHANGED <<script, syncs, files, lock, told, unsettled>>
    BY <1>10 DEF getCurrentConfig, syncWorld, fileWorld
  <2>3. run[c].pc = "sync-config"
    BY <1>10 DEF getCurrentConfig, At, Accepted
  <2> QED
    BY <1>0, <2>1, <2>2, <2>3
       DEF Frame, Fails, Keeps, Adds, Req, PlaceOf, DoneSoFar, Operations, OnFile, Closing,
           Promise, PromiseOfSync, PromiseOfFuse, FiltersKnown
<1>11. ASSUME FindIgnoreFile(c) PROVE Result
  <2>1. Fails(c) \/ Keeps(c, "ignoreFile")
    <3>1. \/ Refuse(c, "EARGS") \/ Refuse(c, "NOTFOUND")
          \/ \E d : run' = [run EXCEPT ![c].pc = "ignoreFile", ![c].dir = d]
      BY <1>11 DEF FindIgnoreFile
    <3> QED
      BY <1>0, <3>1, FieldsOfRun, RefuseEffect DEF OnlyRuns, Keeps
  <2>2. UNCHANGED <<script, syncs, files, lock, told, unsettled>>
    BY <1>11 DEF FindIgnoreFile, syncWorld, fileWorld
  <2>3. run[c].pc \in {"sync-ignore", "exclude"}
    BY <1>11 DEF FindIgnoreFile, At, Accepted
  <2> QED
    BY <1>0, <2>1, <2>2, <2>3, RequestsAssumption
       DEF Frame, Fails, Keeps, Adds, Req, PlaceOf, DoneSoFar, Operations, OnFile, Closing,
           Promise, PromiseOfSync, PromiseOfFuse, FiltersKnown
<1>12. ASSUME IgnoreFileExists(c) PROVE Result
  <2>1. Fails(c) \/ ShowsAfterwards(c) \/ Keeps(c, "open")
    BY <1>0, <1>12, EndEffect, GoEffect DEF IgnoreFileExists
  <2>2. UNCHANGED <<script, syncs, files, lock, told, unsettled>>
    BY <1>12 DEF IgnoreFileExists, syncWorld, fileWorld
  <2>3. run[c].pc = "ignoreFile"
    BY <1>12 DEF IgnoreFileExists, At
  <2> QED
    BY <1>0, <2>1, <2>2, <2>3
       DEF Frame, Fails, Keeps, Adds, Req, PlaceOf, DoneSoFar, Operations, OnFile, Closing,
           Promise, PromiseOfSync, PromiseOfFuse, FiltersKnown, ShowsAfterwards
<1>13. ASSUME FuseAdd(c) PROVE Result
  <2>1. Fails(c) \/ Keeps(c, "addMount")
    <3>1. \/ Refuse(c, "NOTFOUND")
          \/ \E m : run' = [run EXCEPT ![c].pc = "addMount", ![c].mount = m]
      BY <1>13 DEF FuseAdd
    <3> QED
      BY <1>0, <3>1, FieldsOfRun, RefuseEffect DEF OnlyRuns, Keeps
  <2>2. UNCHANGED <<script, syncs, files, lock, told, unsettled>>
    BY <1>13 DEF FuseAdd, syncWorld, fileWorld
  <2>3. run[c].pc = "fuse" /\ Req(c).cmd = "add"
    BY <1>13 DEF FuseAdd, At, Accepted, Fuse
  <2> QED
    BY <1>0, <2>1, <2>2, <2>3
       DEF Frame, Fails, Keeps, Adds, Req, PlaceOf, DoneSoFar, Operations, OnFile, Closing,
           Promise, PromiseOfSync, PromiseOfFuse, FiltersKnown
<1>14. ASSUME MountAdded(c) PROVE Result
  <2>1. \/ Fails(c)
        \/ /\ OnlyRuns(c)
           /\ run'[c].pc = (IF Req(c).disabled THEN "idle" ELSE "enableMount")
          
           /\ run'[c].req = run[c].req /\ run'[c].done = {"mounted"}
    BY <1>0, <1>14, FieldsOfRun, RefuseEffect DEF MountAdded, OnlyRuns
  <2>2. UNCHANGED <<script, syncs, files, lock, told, unsettled>>
    BY <1>14 DEF MountAdded, syncWorld, fileWorld
  <2>3. run[c].pc = "addMount"
    BY <1>14 DEF MountAdded, At
  <2> QED
    BY <1>0, <2>1, <2>2, <2>3
       DEF Frame, Fails, Keeps, Adds, Req, PlaceOf, DoneSoFar, Operations, OnFile, Closing,
           Promise, PromiseOfSync, PromiseOfFuse, FiltersKnown
<1>15. ASSUME FindMount(c) PROVE Result
  <2>1. Fails(c) \/ \E m \in Mounts : Keeps(c, AfterLookup(Req(c).cmd, m))
    <3>1. \/ Refuse(c, "EARGS") \/ Refuse(c, "NOTFOUND")
          \/ \E m \in Mounts : run' = [run EXCEPT ![c].mount = mounts[m],
                                                ![c].pc = AfterLookup(Req(c).cmd, m)]
      BY <1>15 DEF FindMount, getMountByNameOrPath, ByName, Mounted
    <3>2. ASSUME NEW m \in Mounts,
                 run' = [run EXCEPT ![c].mount = mounts[m], ![c].pc = AfterLookup(Req(c).cmd, m)]
          PROVE  Keeps(c, AfterLookup(Req(c).cmd, m))
      BY <1>0, <3>2, FieldsOfRun DEF OnlyRuns, Keeps
    <3> QED
      BY <1>0, <3>1, <3>2, RefuseEffect
  <2>2. UNCHANGED <<script, syncs, files, lock, told, unsettled>>
    BY <1>15 DEF FindMount, syncWorld, fileWorld
  <2>3. run[c].pc = "fuse" /\ Req(c).cmd \in {"remove", "enable", "disable", "show", "config"}
    BY <1>15 DEF FindMount, At, Accepted
  <2> QED
    BY <1>0, <2>1, <2>2, <2>3
       DEF Frame, Fails, Keeps, Adds, Req, PlaceOf, DoneSoFar, Operations, OnFile, Closing,
           Promise, PromiseOfSync, PromiseOfFuse, FiltersKnown, AfterLookup
<1>16. ASSUME enableMount(c) PROVE Result
  <2>1. Fails(c) \/ Adds(c, "recheck", "mount enabled")
    BY <1>0, <1>16, RequestEffect, RefuseEffect DEF enableMount
  <2>2. UNCHANGED <<script, syncs, files, lock, told, unsettled>>
    BY <1>0, <1>16, RequestEffect, RefuseEffect DEF enableMount, syncWorld, fileWorld
  <2>3. run[c].pc = "enableMount"
    BY <1>16 DEF enableMount, At
  <2> QED
    BY <1>0, <2>1, <2>2, <2>3
       DEF Frame, Fails, Keeps, Adds, Req, PlaceOf, DoneSoFar, Operations, OnFile, Closing,
           Promise, PromiseOfSync, PromiseOfFuse, FiltersKnown
<1>17. ASSUME MountEnabled(c) PROVE Result
  <2>1. Fails(c) \/ Keeps(c, "idle")
    BY <1>0, <1>17, RefuseEffect, ReturnEffect DEF MountEnabled
  <2>2. UNCHANGED <<script, syncs, files, lock, told, unsettled>>
    BY <1>17 DEF MountEnabled, syncWorld, fileWorld
  <2>3. run[c].pc = "recheck"
    BY <1>17 DEF MountEnabled, At
  <2> QED
    BY <1>0, <2>1, <2>2, <2>3
       DEF Frame, Fails, Keeps, Adds, Req, PlaceOf, DoneSoFar, Operations, OnFile, Closing,
           Promise, PromiseOfSync, PromiseOfFuse, FiltersKnown
<1>18. ASSUME disableMount(c) PROVE Result
  <2>1. \/ Fails(c)
        \/ run[c].pc = "disableMount" /\ Adds(c, "idle", "mount disabled")
        \/ run[c].pc = "disableFirst" /\ Adds(c, "removeMount", "mount disabled")
    BY <1>0, <1>18, RequestEffect, RefuseEffect DEF disableMount, At
  <2>2. UNCHANGED <<script, syncs, files, lock, told, unsettled>>
    BY <1>0, <1>18, RequestEffect, RefuseEffect DEF disableMount, syncWorld, fileWorld
  <2>3. run[c].pc \in {"disableMount", "disableFirst"}
    BY <1>18 DEF disableMount, At
  <2> QED
    BY <1>0, <2>1, <2>2, <2>3
       DEF Frame, Fails, Keeps, Adds, Req, PlaceOf, DoneSoFar, Operations, OnFile, Closing,
           Promise, PromiseOfSync, PromiseOfFuse, FiltersKnown
<1>19. ASSUME removeMount(c) PROVE Result
  <2>1. Fails(c) \/ Adds(c, "idle", "unmounted")
    BY <1>0, <1>19, RequestEffect, RefuseEffect DEF removeMount
  <2>2. UNCHANGED <<script, syncs, files, lock, told, unsettled>>
    BY <1>0, <1>19, RequestEffect, RefuseEffect DEF removeMount, syncWorld, fileWorld
  <2>3. run[c].pc = "removeMount"
    BY <1>19 DEF removeMount, At
  <2> QED
    BY <1>0, <2>1, <2>2, <2>3
       DEF Frame, Fails, Keeps, Adds, Req, PlaceOf, DoneSoFar, Operations, OnFile, Closing,
           Promise, PromiseOfSync, PromiseOfFuse, FiltersKnown
<1>20. ASSUME changeConfig(c) PROVE Result
  <2>1. Fails(c) \/ Adds(c, "idle", "configured")
    BY <1>0, <1>20, RequestEffect, RefuseEffect DEF changeConfig
  <2>2. UNCHANGED <<script, syncs, files, lock, told, unsettled>>
    BY <1>0, <1>20, RequestEffect, RefuseEffect DEF changeConfig, syncWorld, fileWorld
  <2>3. run[c].pc = "changeConfig"
    BY <1>20 DEF changeConfig, At
  <2> QED
    BY <1>0, <2>1, <2>2, <2>3
       DEF Frame, Fails, Keeps, Adds, Req, PlaceOf, DoneSoFar, Operations, OnFile, Closing,
           Promise, PromiseOfSync, PromiseOfFuse, FiltersKnown
<1>21. ASSUME printAllMounts(c) PROVE Result
  <2>1. Keeps(c, "idle")
    <3>1. \E rows : Return(c, [run[c] EXCEPT !.shown = rows])
      BY <1>21 DEF printAllMounts
    <3> QED
      BY <1>0, <3>1, ShownEffect
  <2>2. UNCHANGED <<script, syncs, files, lock, told, unsettled>>
    BY <1>21 DEF printAllMounts, syncWorld, fileWorld
  <2>3. run[c].pc = "fuse" /\ Req(c).cmd = "list"
    BY <1>21 DEF printAllMounts, At, Accepted, Fuse
  <2> QED
    BY <1>0, <2>1, <2>2, <2>3
       DEF Frame, Fails, Keeps, Adds, Req, PlaceOf, DoneSoFar, Operations, OnFile, Closing,
           Promise, PromiseOfSync, PromiseOfFuse, FiltersKnown
<1> QED
  BY <1>1, <1>2, <1>3, <1>4, <1>5, <1>6, <1>7, <1>8, <1>9, <1>10, <1>11,
     <1>12, <1>13, <1>14, <1>15, <1>16, <1>17, <1>18, <1>19, <1>20, <1>21
     DEF QuietActions

-----------------------------------------------------------------------------
(* The steps of a command on syncs and files keep CommandsInv *)

(* A sync that was added keeps its folder, and its id is not used again. *)
KeepsSyncs ==
    /\ DOMAIN syncs' = SyncIds
    /\ \A i \in SyncIds :
          /\ DOMAIN syncs'[i] = DOMAIN NoSync
          /\ syncs[i].state # "none" =>
                syncs'[i].state # "none" /\ syncs'[i].local = syncs[i].local

KeepsScripts == DOMAIN script' = Clients /\ \A u \in Clients : script'[u] \in Seq(Requests)

LEMMA SyncFields ==
    /\ DOMAIN NoSync = {"state", "local", "cloud", "error"}
    /\ NoSync.state = "none"
    /\ Existing \subseteq SyncIds
    /\ \A i \in Existing : syncs[i].state # "none"
    /\ None \notin SyncIds
BY DEF NoSync, Existing, None, SyncIds

LEMMA SameSyncsKept ==
    CommandsInv => /\ UNCHANGED syncs => KeepsSyncs
                   /\ UNCHANGED script => KeepsScripts
BY DEF CommandsInv, FolderFields, KeepsSyncs, KeepsScripts

LEMMA CommandKeepsInv ==
    ASSUME CommandsInv, NEW c \in Clients, OnlyRuns(c), KeepsSyncs, KeepsScripts,
           PlaceOf(c)', FoundAsNamed(c)', DoneSoFar(c)'
    PROVE  CommandsInv'
<1>1. FolderFields'
  BY DEF CommandsInv, FolderFields, OnlyRuns, KeepsSyncs, KeepsScripts
<1>2. ASSUME NEW u \in Clients \ {c} PROVE PlaceOf(u)' /\ FoundAsNamed(u)' /\ DoneSoFar(u)'
  <2>1. run'[u] = run[u] /\ Req(u)' = Req(u)
    BY DEF OnlyRuns, Req
  <2>2. PlaceOf(u) /\ FoundAsNamed(u) /\ DoneSoFar(u)
    BY DEF CommandsInv, FolderPlaces, PlaceOf
  <2>3. PlaceOf(u)'
    BY <2>1, <2>2 DEF PlaceOf, FiltersKnown
  <2>4. FoundAsNamed(u)'
    BY <2>1, <2>2 DEF FoundAsNamed, KeepsSyncs
  <2>5. DoneSoFar(u)'
    BY <2>1, <2>2 DEF DoneSoFar, Promise, PromiseOfSync, PromiseOfFuse
  <2> QED
    BY <2>3, <2>4, <2>5
<1> QED
  BY <1>1, <1>2 DEF CommandsInv, FolderPlaces, PlaceOf

LEMMA OthersKeepInv ==
    ASSUME CommandsInv, UNCHANGED <<run, script>>, KeepsSyncs
    PROVE  CommandsInv'
<1>1. FolderFields'
  BY DEF CommandsInv, FolderFields, KeepsSyncs
<1>2. ASSUME NEW u \in Clients PROVE PlaceOf(u)' /\ FoundAsNamed(u)' /\ DoneSoFar(u)'
  <2>1. run'[u] = run[u] /\ Req(u)' = Req(u)
    BY DEF Req
  <2>2. PlaceOf(u) /\ FoundAsNamed(u) /\ DoneSoFar(u)
    BY DEF CommandsInv, FolderPlaces, PlaceOf
  <2>3. PlaceOf(u)'
    BY <2>1, <2>2 DEF PlaceOf, FiltersKnown
  <2>4. FoundAsNamed(u)'
    BY <2>1, <2>2 DEF FoundAsNamed, KeepsSyncs
  <2>5. DoneSoFar(u)'
    BY <2>1, <2>2 DEF DoneSoFar, Promise, PromiseOfSync, PromiseOfFuse
  <2> QED
    BY <2>3, <2>4, <2>5
<1> QED
  BY <1>1, <1>2 DEF CommandsInv, FolderPlaces, PlaceOf

LEMMA QuietKeepsInv ==
    ASSUME CommandsInv, NEW c \in Clients, QuietActions(c)
    PROVE  CommandsInv'
<1>1. Frame(c) /\ PlaceOf(c)' /\ DoneSoFar(c)'
  BY QuietActionsAreQuiet
<1>2. FoundAsNamed(c)'
  BY <1>1 DEF Frame, FoundAsNamed
<1> QED
  BY <1>1, <1>2, SameSyncsKept, CommandKeepsInv DEF Frame

LEMMA SubmitEffect ==
    ASSUME CommandsInv, NEW c \in Clients, Submit(c)
    PROVE  /\ OnlyRuns(c) /\ KeepsScripts /\ UNCHANGED <<syncs, files, lock, told, unsettled>>
           /\ run[c].pc = "idle"
           /\ run'[c].req \in Requests /\ run'[c].pc = run'[c].req.op
           /\ run'[c].pc \in Operations
<1> DEFINE r == Head(script[c])
<1>0. FolderFields
  BY DEF CommandsInv
<1>1. script[c] \in Seq(Requests) /\ script[c] # <<>>
  BY <1>0 DEF Submit, FolderFields
<1>2. r \in Requests /\ Tail(script[c]) \in Seq(Requests)
  BY <1>1, HeadTailProperties
<1>3. r.op \in Operations
  BY <1>2, RequestsAssumption
<1>4. run' = [run EXCEPT ![c] = [IdleRun EXCEPT !.pc = r.op, !.req = r]]
  BY DEF Submit
<1>5. OnlyRuns(c) /\ run'[c].pc = r.op /\ run'[c].req = r
  <2> HIDE DEF r
  <2> QED
    BY <1>0, <1>4, FieldsOfRun DEF OnlyRuns
<1>6. KeepsScripts
  BY <1>0, <1>2 DEF Submit, FolderFields, KeepsScripts
<1>7. run[c].pc = "idle" /\ UNCHANGED <<syncs, files, lock, told, unsettled>>
  BY DEF Submit, At, syncWorld, fileWorld
<1> HIDE DEF r
<1> QED
  BY <1>2, <1>3, <1>5, <1>6, <1>7

LEMMA SubmitKeepsInv ==
    ASSUME CommandsInv, NEW c \in Clients, Submit(c)
    PROVE  CommandsInv'
<1>1. /\ OnlyRuns(c) /\ KeepsScripts /\ UNCHANGED <<syncs, files, lock, told, unsettled>>
      /\ Req(c)' \in Requests /\ run'[c].pc = Req(c).op'
      /\ run'[c].pc \in Operations
  BY SubmitEffect DEF Req
<1>2. PlaceOf(c)' /\ FoundAsNamed(c)' /\ DoneSoFar(c)'
  BY <1>1 DEF PlaceOf, FoundAsNamed, DoneSoFar, Operations, OnFile, Closing
<1> QED
  BY <1>1, <1>2, SameSyncsKept, CommandKeepsInv

LEMMA OthersStepKeepsInv ==
    ASSUME CommandsInv,
           LoadThrottle \/ SyncDisabled \/ RemoteFolderGone \/ IgnoreFileGone \/ UNCHANGED folderVars
    PROVE  CommandsInv'
<1>1. UNCHANGED <<run, script>>
  BY DEF LoadThrottle, SyncDisabled, RemoteFolderGone, IgnoreFileGone, folderVars
<1>2. KeepsSyncs
  <2>1. CASE SyncDisabled
    <3>1. PICK i \in Existing : syncs' = [syncs EXCEPT ![i].state = "disabled", ![i].error = TRUE]
      BY <2>1 DEF SyncDisabled
    <3> QED
      BY <3>1, SyncFields DEF KeepsSyncs, CommandsInv, FolderFields
  <2>2. CASE ~SyncDisabled
    <3>1. UNCHANGED syncs
      BY <2>2 DEF LoadThrottle, RemoteFolderGone, IgnoreFileGone, folderVars, syncWorld
    <3> QED
      BY <3>1, SameSyncsKept
  <2> QED
    BY <2>1, <2>2
<1> QED
  BY <1>1, <1>2, OthersKeepInv

LEMMA Induction ==
  ASSUME NEW T, 0 \in T, \A n \in Nat : n \in T => n + 1 \in T
  PROVE  Nat \subseteq T
<1> SUFFICES ASSUME NEW x \in Nat, x \notin T PROVE FALSE
  OBVIOUS
<1> DEFINE A == {n \in 0 .. x : n \in T}
           B == A \ {0}
           f == [n \in A |-> n + 1]
<1>1. A \in SUBSET (0 .. x) /\ 0 \in A
  OBVIOUS
<1>2. IsFiniteSet(A)
  <2> HIDE DEF A
  <2>1. IsFiniteSet(0 .. x)
    BY FS_Interval
  <2> QED
    BY <1>1, <2>1, FS_Subset
<1>3. f \in [A -> B]
  OBVIOUS
<1>4. Cardinality(B) = Cardinality(A) - 1 /\ IsFiniteSet(B) /\ Cardinality(A) \in Nat
  BY <1>1, <1>2, FS_RemoveElement, FS_CardinalityType
<1>5. PICK m \in A, n \in A : m # n /\ f[m] = f[n]
  <2> HIDE DEF f, A, B
  <2> QED
    BY <1>2, <1>3, <1>4, FS_PigeonHole
<1> QED
  BY <1>5

LEMMA LeastElement ==
  ASSUME NEW S \in SUBSET Nat, S # {}
  PROVE  \E least \in S : \A j \in S : least <= j
<1> SUFFICES ASSUME \A k \in S : \E j \in S : ~(k <= j) PROVE FALSE
  OBVIOUS
<1> DEFINE T == {n \in Nat : \A k \in S : n <= k}
<1>1. 0 \in T
  OBVIOUS
<1>2. ASSUME NEW n \in Nat, n \in T PROVE n + 1 \in T
  <2> SUFFICES ASSUME NEW k \in S, ~(n + 1 <= k) PROVE FALSE
    OBVIOUS
  <2>1. k = n
    BY <1>2
  <2>2. PICK j \in S : ~(k <= j)
    OBVIOUS
  <2> QED
    BY <1>2, <2>1, <2>2
<1>3. Nat \subseteq T
  <2> HIDE DEF T
  <2> QED
    BY <1>1, <1>2, Induction
<1>4. PICK k : k \in S
  OBVIOUS
<1>5. k + 1 \in T
  BY <1>3, <1>4
<1> QED
  BY <1>4, <1>5

LEMMA PathsFound ==
  ASSUME NEW path
  PROVE  ByPath(path) # None => ByPath(path) \in Existing /\ syncs[ByPath(path)].local = path
<1>1. CASE \E i \in Existing : syncs[i].local = path
  <2>1. ByPath(path) = CHOOSE i \in Existing : syncs[i].local = path
    BY <1>1 DEF ByPath
  <2> QED
    BY <1>1, <2>1
<1> QED
  BY <1>1 DEF ByPath

LEMMA SyncAddedKeepsInv ==
    ASSUME CommandsInv, NEW c \in Clients, SyncAdded(c)
    PROVE  CommandsInv'
<1> DEFINE free == {i \in SyncIds : syncs[i].state = "none"}
           id == CHOOSE i \in free : \A j \in free : i <= j
           local == Req(c).args[1]
           remote == Req(c).args[2]
           Added(state) == [syncs EXCEPT ![id] = [state |-> state, local |-> local,
                                        cloud |-> remote, error |-> state = "disabled"]]
<1>0. FolderFields /\ DoneSoFar(c) /\ run[c].pc = "syncFolder"
  BY DEF CommandsInv, SyncAdded, At
<1>1. /\ UNCHANGED script
      /\ \/ /\ free # {} /\ syncs' = Added("running")
            /\ Finish(c, "added")
         \/ /\ free # {} /\ syncs' = Added("disabled")
            /\ Refuse(c, SyncErrorCode)
         \/ Refuse(c, "ERROR") /\ UNCHANGED syncs
  BY DEF SyncAdded
<1>2. free # {} => id \in free
  <2>1. free \in SUBSET Nat
    BY DEF SyncIds
  <2> HIDE DEF free
  <2> QED
    BY <2>1, LeastElement
<1>3. KeepsSyncs
  <2>1. ASSUME NEW state \in {"running", "disabled"}, free # {}, syncs' = Added(state)
        PROVE  KeepsSyncs
    <3>1. id \in SyncIds /\ syncs[id].state = "none"
      BY <1>2, <2>1
    <3> HIDE DEF id, free, local, remote
    <3>2. syncs' = [syncs EXCEPT ![id] = [state |-> state, local |-> local,
                                        cloud |-> remote, error |-> state = "disabled"]]
      BY <2>1
    <3>3. DOMAIN syncs' = SyncIds /\ \A i \in SyncIds \ {id} : syncs'[i] = syncs[i]
      BY <3>2, <1>0 DEF FolderFields
    <3>4. syncs'[id] = [state |-> state, local |-> local,
                                        cloud |-> remote, error |-> state = "disabled"]
      BY <3>1, <3>2, <1>0, Zenon DEF FolderFields
    <3>5. DOMAIN syncs'[id] = DOMAIN NoSync
      BY <3>4 DEF NoSync
    <3> QED
      BY <3>1, <3>3, <3>5, <1>0 DEF KeepsSyncs, FolderFields
  <2> QED
    BY <1>1, <2>1, SameSyncsKept
<1>4. Fails(c) \/ Adds(c, "idle", "added")
  <2>1. CASE Finish(c, "added")
    BY <1>0, <2>1, FieldsOfRun DEF Finish, Return, OnlyRuns, Adds
  <2>2. CASE Refuse(c, SyncErrorCode) \/ Refuse(c, "ERROR")
    BY <1>0, <2>2, RefuseEffect DEF SyncErrorCode
  <2> QED
    BY <1>1, <2>1, <2>2
<1>5. OnlyRuns(c) /\ PlaceOf(c)' /\ FoundAsNamed(c)' /\ DoneSoFar(c)'
  BY <1>0, <1>4
     DEF Fails, Adds, Req, PlaceOf, FoundAsNamed, DoneSoFar, Operations, OnFile, Closing,
         Promise, PromiseOfSync
<1> QED
  BY <1>1, <1>3, <1>5, SameSyncsKept, CommandKeepsInv

LEMMA FindSyncKeepsInv ==
    ASSUME CommandsInv, NEW c \in Clients, FindSync(c)
    PROVE  CommandsInv'
<1> DEFINE who == Req(c).args[1]
           i == getSync(who)
<1>0. FolderFields /\ PlaceOf(c) /\ run[c].pc = "sync" /\ Len(Req(c).args) = 1
  BY DEF CommandsInv, FolderPlaces, PlaceOf, FindSync, Accepted, At
<1>1. /\ UNCHANGED <<script, syncs>>
      /\ \/ Refuse(c, "NOTFOUND")
         \/ /\ i # None
            /\ run' = [run EXCEPT ![c].pc = "modifySync", ![c].id = i, ![c].sync = syncs[i]]
  BY DEF FindSync, syncWorld
<1>2. i # None => i \in Existing /\ (who.id = i \/ who.path = syncs[i].local)
  BY PathsFound, SyncFields DEF getSync, ById
<1>3. CASE Refuse(c, "NOTFOUND")
  <2>1. Fails(c)
    BY <1>0, <1>3, RefuseEffect
  <2>2. OnlyRuns(c) /\ PlaceOf(c)' /\ FoundAsNamed(c)' /\ DoneSoFar(c)'
    BY <2>1 DEF Fails, Req, PlaceOf, FoundAsNamed, DoneSoFar, Operations, OnFile
  <2> QED
    BY <1>1, <2>2, SameSyncsKept, CommandKeepsInv
<1>4. CASE i # None /\ run' = [run EXCEPT ![c].pc = "modifySync", ![c].id = i, ![c].sync = syncs[i]]
  <2> HIDE DEF i
  <2>1. /\ OnlyRuns(c) /\ run'[c].pc = "modifySync" /\ run'[c].id = i
        /\ run'[c].req = run[c].req
    BY <1>0, <1>4, FieldsOfRun DEF OnlyRuns
  <2>2. Req(c)' = Req(c)
    BY <2>1 DEF Req
  <2>3. FoundAsNamed(c)'
    BY <1>1, <1>2, <1>4, <2>1, <2>2, SyncFields DEF FoundAsNamed
  <2>4. PlaceOf(c)' /\ DoneSoFar(c)'
    BY <1>0, <2>1, <2>2 DEF PlaceOf, DoneSoFar, Operations, OnFile, Closing
  <2> QED
    BY <1>1, <2>1, <2>3, <2>4, SameSyncsKept, CommandKeepsInv
<1> QED
  BY <1>1, <1>3, <1>4

(* What a command does to the sync it has found. *)
LEMMA ModifyEffect ==
    ASSUME CommandsInv, NEW c \in Clients, modifySync(c)
    PROVE  /\ run[c].pc = "modifySync" /\ UNCHANGED script
           /\ \/ UNCHANGED syncs
              \/ /\ run[c].id \in Existing
                 /\ \E state \in {"deleted", "running", "suspended", "disabled"} :
                       syncs' = [syncs EXCEPT ![run[c].id].state = state,
                                              ![run[c].id].error = state = "disabled"]
           /\ OnlyRuns(c)
           /\ run'[c].pc = (IF "delete" \in Req(c).flags THEN "idle" ELSE "reloadSync")
           /\ run'[c].req = run[c].req
           /\ \/ run'[c].out # "OK"
              \/ run'[c].done = {IF "delete" \in Req(c).flags THEN "deleted"
                                 ELSE IF "enable" \in Req(c).flags THEN "enabled" ELSE "paused"}
<1> DEFINE removing == "delete" \in Req(c).flags
           enabling == "enable" \in Req(c).flags /\ ~removing
           next == IF removing THEN "idle" ELSE "reloadSync"
           what == IF removing THEN "deleted" ELSE IF enabling THEN "enabled" ELSE "paused"
           i == Target(c)
           Becomes(state) == [syncs EXCEPT ![i].state = state, ![i].error = state = "disabled"]
<1>0. FolderFields /\ run[c].pc = "modifySync" /\ UNCHANGED script
  BY DEF CommandsInv, modifySync, At
<1>1. i # None => i = run[c].id /\ i \in Existing
  BY DEF Target, ById
<1>2. \/ /\ i # None
         /\ syncs' = IF removing THEN Becomes("deleted")
                     ELSE Becomes(IF enabling THEN "running" ELSE "suspended")
         /\ run' = [run EXCEPT ![c].pc = next, ![c].done = {what}]
      \/ /\ i # None /\ syncs' = Becomes("disabled")
         /\ run' = [run EXCEPT ![c].pc = next, ![c].out = SyncErrorCode]
      \/ /\ UNCHANGED syncs
         /\ run' = [run EXCEPT ![c].pc = next, ![c].out = "ERROR"]
  BY DEF modifySync
<1> HIDE DEF i, next, what
<1>3. \/ UNCHANGED syncs
      \/ /\ run[c].id \in Existing
         /\ \E state \in {"deleted", "running", "suspended", "disabled"} :
               syncs' = [syncs EXCEPT ![run[c].id].state = state,
                                      ![run[c].id].error = state = "disabled"]
  BY <1>1, <1>2, Zenon
<1>4. \/ run' = [run EXCEPT ![c].pc = next, ![c].done = {what}]
      \/ run' = [run EXCEPT ![c].pc = next, ![c].out = SyncErrorCode]
      \/ run' = [run EXCEPT ![c].pc = next, ![c].out = "ERROR"]
  BY <1>2
<1>5. /\ OnlyRuns(c) /\ run'[c].pc = next
      /\ run'[c].req = run[c].req
      /\ run'[c].out # "OK" \/ run'[c].done = {what}
  <2>1. CASE run' = [run EXCEPT ![c].pc = next, ![c].done = {what}]
    BY <1>0, <2>1, FieldsOfRun DEF OnlyRuns
  <2>2. CASE run' = [run EXCEPT ![c].pc = next, ![c].out = SyncErrorCode]
    BY <1>0, <2>2, FieldsOfRun DEF OnlyRuns, SyncErrorCode
  <2>3. CASE run' = [run EXCEPT ![c].pc = next, ![c].out = "ERROR"]
    BY <1>0, <2>3, FieldsOfRun DEF OnlyRuns
  <2> QED
    BY <1>4, <2>1, <2>2, <2>3
<1> QED
  BY <1>0, <1>3, <1>5 DEF next, what

LEMMA ModifyKeepsInv ==
    ASSUME CommandsInv, NEW c \in Clients, modifySync(c)
    PROVE  CommandsInv'
<1>0. FolderFields /\ DoneSoFar(c)
  BY DEF CommandsInv
<1>1. run[c].pc = "modifySync" /\ UNCHANGED script /\ OnlyRuns(c)
  BY ModifyEffect
<1>2. KeepsSyncs
  <2>1. CASE UNCHANGED syncs
    BY <2>1, SameSyncsKept
  <2>2. ASSUME run[c].id \in Existing,
               NEW state \in {"deleted", "running", "suspended", "disabled"},
               syncs' = [syncs EXCEPT ![run[c].id].state = state,
                                      ![run[c].id].error = state = "disabled"]
        PROVE  KeepsSyncs
    BY <1>0, <2>2, SyncFields DEF KeepsSyncs, FolderFields
  <2> QED
    BY ModifyEffect, <2>1, <2>2
<1>3. PlaceOf(c)' /\ FoundAsNamed(c)' /\ DoneSoFar(c)'
  <2> DEFINE what == IF "delete" \in Req(c).flags THEN "deleted"
                     ELSE IF "enable" \in Req(c).flags THEN "enabled" ELSE "paused"
  <2>1. /\ run'[c].pc = "idle" \/ run'[c].pc = "reloadSync"
        /\ Req(c)' = Req(c)
        /\ run'[c].out # "OK" \/ run'[c].done = {what}
    BY ModifyEffect, Zenon DEF Req
  <2>2. Promise(Req(c)) = {what}
    BY <1>0, <1>1 DEF DoneSoFar, Promise, PromiseOfSync
  <2>3. Promise(Req(c))' = Promise(Req(c))
    BY <2>1
  <2> HIDE DEF what
  <2> QED
    BY <2>1, <2>2, <2>3 DEF PlaceOf, FoundAsNamed, DoneSoFar, Operations, OnFile, Closing
<1> QED
  BY <1>1, <1>2, <1>3, SameSyncsKept, CommandKeepsInv

LEMMA EndOfEffect ==
    ASSUME FolderFields, NEW c \in Clients, NEW r, EndOfCommand(c, r),
           DOMAIN r = DOMAIN IdleRun, r.req = Req(c)
    PROVE  /\ OnlyRuns(c)
           /\ run'[c].out = r.out /\ run'[c].done = r.done /\ run'[c].missed = r.missed
           /\ \/ run'[c].pc = "idle" /\ run'[c].req = Req(c)
              \/ /\ run'[c].pc = "ignoreFile" /\ Req(c).op = "exclude" /\ ~Shows(c)
                 /\ run'[c].req = [Req(c) EXCEPT !.flags = {"show"}]
<1>1. CASE Req(c).op = "exclude" /\ ~Shows(c)
  <2>1. run' = [run EXCEPT ![c] = [r EXCEPT !.pc = "ignoreFile", !.req.flags = {"show"}]]
    BY <1>1 DEF EndOfCommand
  <2> QED
    BY <1>1, <2>1, FieldsOfRun DEF OnlyRuns
<1>2. CASE ~(Req(c).op = "exclude" /\ ~Shows(c))
  <2>1. Return(c, r)
    BY <1>2 DEF EndOfCommand
  <2> QED
    BY <2>1, FieldsOfRun DEF Return, OnlyRuns
<1> QED
  BY <1>1, <1>2

(* What a command does on its file, and where it goes from there. *)
Opened(c, loaded, next) ==
    LET r == [run[c] EXCEPT !.loaded = loaded]
    IN \/ Shows(c) /\ EndOfCommand(c, [r EXCEPT !.shown = SetToSeq(loaded)])
       \/ run' = [run EXCEPT ![c] = [r EXCEPT !.pc = next]]
       \/ EndOfCommand(c, [run[c] EXCEPT !.out = "INVALIDSTATE"])

LEMMA OpenEffect ==
    ASSUME FolderFields, NEW c \in Clients, PlaceOf(c), OpenIgnoreFile(c)
    PROVE  /\ run[c].pc = "open" /\ OnlyRuns(c)
           /\ UNCHANGED <<script, syncs, lock, told, unsettled>>
           /\ \/ UNCHANGED files
              \/ /\ ~files[run[c].dir].exists
                 /\ files' = [files EXCEPT ![run[c].dir] = [NoFile EXCEPT !.exists = TRUE]]
           /\ Free(c)
           /\ \/ run'[c].out # "OK" /\ run'[c].pc = "idle"
              \/ /\ run'[c].pc = "ignoreFile" /\ Req(c).op = "exclude"
                 /\ Req(c)' = [Req(c) EXCEPT !.flags = {"show"}]
              \/ run'[c].pc = "idle" /\ Shows(c) /\ Req(c)' = Req(c)
              \/ run'[c].pc \in {"executeAdd", "executeRemove"} /\ Req(c)' = Req(c)
<1>1. /\ run[c].pc = "open" /\ UNCHANGED <<script, syncs, lock, told, unsettled>> /\ Free(c)
      /\ \/ UNCHANGED files
         \/ /\ ~files[run[c].dir].exists
            /\ files' = [files EXCEPT ![run[c].dir] = [NoFile EXCEPT !.exists = TRUE]]
  BY DEF OpenIgnoreFile, At, syncWorld
<1>2. PICK loaded : \E next \in {"executeAdd", "executeRemove"} : Opened(c, loaded, next)
  <2> DEFINE there == IF "add" \in Req(c).flags THEN "executeAdd" ELSE "executeRemove"
             Read(n) == Filters([files[run[c].dir] EXCEPT !.lines = SubSeq(@, 1, n)])
  <2>1. \/ \E n : LET r == [run[c] EXCEPT !.loaded = Read(n)]
                  IN IF Shows(c) THEN EndOfCommand(c, [r EXCEPT !.shown = SetToSeq(Read(n))])
                     ELSE run' = [run EXCEPT ![c] = [r EXCEPT !.pc = there]]
        \/ EndOfCommand(c, [run[c] EXCEPT !.out = "INVALIDSTATE"])
    BY Zenon DEF OpenIgnoreFile
  <2>2. there \in {"executeAdd", "executeRemove"}
    OBVIOUS
  <2> HIDE DEF Read, there
  <2>3. ASSUME EndOfCommand(c, [run[c] EXCEPT !.out = "INVALIDSTATE"])
        PROVE  Opened(c, {}, there)
    BY <2>3, Zenon DEF Opened
  <2>4. ASSUME NEW n,
               LET r == [run[c] EXCEPT !.loaded = Read(n)]
               IN IF Shows(c) THEN EndOfCommand(c, [r EXCEPT !.shown = SetToSeq(Read(n))])
                  ELSE run' = [run EXCEPT ![c] = [r EXCEPT !.pc = there]]
        PROVE  Opened(c, Read(n), there)
    BY <2>4, Zenon DEF Opened
  <2> QED
    BY <2>1, <2>2, <2>3, <2>4, Zenon
<1>n. PICK next \in {"executeAdd", "executeRemove"} : Opened(c, loaded, next)
  BY <1>2
<1> DEFINE r == [run[c] EXCEPT !.loaded = loaded]
<1>3. DOMAIN r = DOMAIN IdleRun /\ r.req = Req(c)
  BY FieldsOfRun DEF Req
<1> HIDE DEF r
<1>4. CASE Shows(c) /\ EndOfCommand(c, [r EXCEPT !.shown = SetToSeq(loaded)])
  <2> DEFINE t == [r EXCEPT !.shown = SetToSeq(loaded)]
  <2>1. DOMAIN t = DOMAIN IdleRun /\ t.req = Req(c)
    BY <1>3, FieldsOfRun
  <2>2. EndOfCommand(c, t)
    BY <1>4
  <2> HIDE DEF t
  <2> QED
    BY <1>1, <1>4, <2>1, <2>2, EndOfEffect DEF Req
<1>5. CASE EndOfCommand(c, [run[c] EXCEPT !.out = "INVALIDSTATE"])
  <2> DEFINE t == [run[c] EXCEPT !.out = "INVALIDSTATE"]
  <2>1. DOMAIN t = DOMAIN IdleRun /\ t.req = Req(c) /\ t.out = "INVALIDSTATE"
    BY FieldsOfRun DEF Req
  <2>2. EndOfCommand(c, t)
    BY <1>5
  <2> HIDE DEF t
  <2> QED
    BY <1>1, <2>1, <2>2, EndOfEffect DEF Req
<1>6. CASE run' = [run EXCEPT ![c] = [r EXCEPT !.pc = next]]
  BY <1>1, <1>3, <1>6, FieldsOfRun DEF OnlyRuns, Req
<1> QED
  BY <1>n, <1>4, <1>5, <1>6 DEF r, Opened

LEMMA OpenKeepsInv ==
    ASSUME CommandsInv, NEW c \in Clients, OpenIgnoreFile(c)
    PROVE  CommandsInv'
<1>1. FolderFields /\ PlaceOf(c)
  BY DEF CommandsInv, FolderPlaces, PlaceOf
<1>2. /\ run[c].pc = "open" /\ OnlyRuns(c) /\ UNCHANGED <<script, syncs>>
      /\ \/ run'[c].out # "OK" /\ run'[c].pc = "idle"
         \/ /\ run'[c].pc = "ignoreFile" /\ Req(c).op = "exclude"
            /\ Req(c)' = [Req(c) EXCEPT !.flags = {"show"}]
         \/ run'[c].pc = "idle" /\ Shows(c) /\ Req(c)' = Req(c)
         \/ run'[c].pc \in {"executeAdd", "executeRemove"} /\ Req(c)' = Req(c)
  BY <1>1, OpenEffect
<1>3. PlaceOf(c)' /\ FoundAsNamed(c)'
  BY <1>1, <1>2 DEF PlaceOf, FoundAsNamed, FiltersKnown, Operations, OnFile
<1>4. DoneSoFar(c)'
  BY <1>1, <1>2 DEF PlaceOf, DoneSoFar, Closing, OnFile, Promise, Shows
<1> QED
  BY <1>2, <1>3, <1>4, SameSyncsKept, CommandKeepsInv

LEMMA ExecuteEffect ==
    ASSUME FolderFields, NEW c \in Clients, executeAdd(c) \/ executeRemove(c)
    PROVE  /\ UNCHANGED <<script, syncs, files, lock>>
           /\ run[c].pc \in {"executeAdd", "executeRemove"}
           /\ \/ (Fails(c) \/ ShowsAfterwards(c)) /\ UNCHANGED <<told, unsettled>>
              \/ /\ Keeps(c, "addFilters") /\ \A f \in Req(c).filters : f.valid
                 /\ Tell(c, "added", ToAdd(c))
              \/ Keeps(c, "removeFilters") /\ Tell(c, "removed", Doomed(c))
<1>1. CASE executeAdd(c)
  <2>1. /\ run[c].pc = "executeAdd" /\ UNCHANGED <<script, syncs, files, lock>>
        /\ \/ /\ EndOfCommand(c, [run[c] EXCEPT !.out = "EARGS"])
              /\ UNCHANGED <<told, unsettled>>
           \/ /\ Go(c, "addFilters") /\ \A f \in Req(c).filters : f.valid
              /\ Tell(c, "added", ToAdd(c))
    BY <1>1 DEF executeAdd, At, syncWorld
  <2> QED
    BY <2>1, EndEffect, GoEffect
<1>2. CASE executeRemove(c)
  <2>1. /\ run[c].pc = "executeRemove" /\ UNCHANGED <<script, syncs, files, lock>>
        /\ Go(c, "removeFilters") /\ Tell(c, "removed", Doomed(c))
    BY <1>2 DEF executeRemove, At, syncWorld
  <2> QED
    BY <2>1, GoEffect
<1> QED
  BY <1>1, <1>2

LEMMA ExecuteKeepsInv ==
    ASSUME CommandsInv, NEW c \in Clients, executeAdd(c) \/ executeRemove(c)
    PROVE  CommandsInv'
<1>1. FolderFields /\ PlaceOf(c) /\ DoneSoFar(c)
  BY DEF CommandsInv, FolderPlaces, PlaceOf
<1>2. /\ UNCHANGED <<script, syncs>>
      /\ run[c].pc \in {"executeAdd", "executeRemove"}
      /\ \/ Fails(c) \/ ShowsAfterwards(c)
         \/ Keeps(c, "addFilters") /\ \A f \in Req(c).filters : f.valid
         \/ Keeps(c, "removeFilters")
  BY <1>1, ExecuteEffect
<1>3. OnlyRuns(c) /\ PlaceOf(c)' /\ FoundAsNamed(c)'
  BY <1>1, <1>2
     DEF Fails, ShowsAfterwards, Keeps, Req, PlaceOf, FoundAsNamed, FiltersKnown, Operations, OnFile
<1>4. DoneSoFar(c)'
  BY <1>1, <1>2
     DEF Fails, ShowsAfterwards, Keeps, Req, PlaceOf, DoneSoFar, Closing, OnFile, Promise
<1> QED
  BY <1>2, <1>3, <1>4, SameSyncsKept, CommandKeepsInv

(* The end of a command that has written its file, or has failed to. *)
Written(c) ==
    \/ EndOfCommand(c, [run[c] EXCEPT !.done = {"filters"}])
    \/ EndOfCommand(c, [run[c] EXCEPT !.missed = {"filters"}])

LEMMA WrittenEffect ==
    ASSUME FolderFields, NEW c \in Clients, Written(c)
    PROVE  /\ OnlyRuns(c)
           /\ run'[c].done = {"filters"} \/ run'[c].missed = {"filters"}
           /\ \/ run'[c].pc = "idle" /\ Req(c)' = Req(c)
              \/ /\ run'[c].pc = "ignoreFile" /\ Req(c).op = "exclude"
                 /\ Req(c)' = [Req(c) EXCEPT !.flags = {"show"}]
<1>1. ASSUME NEW r, EndOfCommand(c, r), DOMAIN r = DOMAIN IdleRun, r.req = Req(c),
             r.done = {"filters"} \/ r.missed = {"filters"}
      PROVE  /\ OnlyRuns(c)
             /\ run'[c].done = {"filters"} \/ run'[c].missed = {"filters"}
             /\ \/ run'[c].pc = "idle" /\ Req(c)' = Req(c)
                \/ /\ run'[c].pc = "ignoreFile" /\ Req(c).op = "exclude"
                   /\ Req(c)' = [Req(c) EXCEPT !.flags = {"show"}]
  BY <1>1, EndOfEffect DEF Req
<1>2. CASE EndOfCommand(c, [run[c] EXCEPT !.done = {"filters"}])
  <2> DEFINE r == [run[c] EXCEPT !.done = {"filters"}]
  <2>1. DOMAIN r = DOMAIN IdleRun /\ r.req = Req(c) /\ r.done = {"filters"}
    BY FieldsOfRun DEF Req
  <2>2. EndOfCommand(c, r)
    BY <1>2
  <2> HIDE DEF r
  <2> QED
    BY <1>1, <2>1, <2>2
<1>3. CASE EndOfCommand(c, [run[c] EXCEPT !.missed = {"filters"}])
  <2> DEFINE r == [run[c] EXCEPT !.missed = {"filters"}]
  <2>1. DOMAIN r = DOMAIN IdleRun /\ r.req = Req(c) /\ r.missed = {"filters"}
    BY FieldsOfRun DEF Req
  <2>2. EndOfCommand(c, r)
    BY <1>3
  <2> HIDE DEF r
  <2> QED
    BY <1>1, <2>1, <2>2
<1> QED
  BY <1>2, <1>3 DEF Written

(* The steps between the reading of a file and its rewriting. *)
Truncates(c) == run[c].pc = "truncate" /\ Go(c, "rewrite")

LEMMA RewritingEffect ==
    ASSUME FolderFields, NEW c \in Clients, removeFilters(c) \/ Truncates(c)
    PROVE  /\ OnlyRuns(c)
           /\ run'[c].dir = run[c].dir /\ run'[c].loaded = run[c].loaded /\ Req(c)' = Req(c)
           /\ \/ run[c].pc = "removeFilters" /\ run'[c].pc = "truncate"
              \/ run[c].pc = "truncate" /\ run'[c].pc = "rewrite" /\ run'[c].kept = run[c].kept
<1>1. CASE removeFilters(c)
  <2>1. /\ run[c].pc = "removeFilters"
        /\ \E kept : run' = [run EXCEPT ![c].pc = "truncate", ![c].kept = kept]
    BY <1>1 DEF removeFilters, ReadKept, At
  <2> QED
    BY <2>1, FieldsOfRun DEF OnlyRuns, Req
<1>2. CASE Truncates(c)
  BY <1>2, FieldsOfRun DEF Truncates, Go, OnlyRuns, Req
<1> QED
  BY <1>1, <1>2

LEMMA FileStepIs ==
    ASSUME NEW c \in Clients,
           addFilters(c) \/ removeFilters(c) \/ TruncateIgnoreFile(c) \/ RewriteIgnoreFile(c)
    PROVE  /\ UNCHANGED <<script, syncs>>
           /\ \/ Written(c) /\ run[c].pc \in {"addFilters", "truncate", "rewrite"}
              \/ removeFilters(c) \/ Truncates(c)
<1>1. CASE addFilters(c)
  BY <1>1 DEF addFilters, Written, At, syncWorld
<1>2. CASE TruncateIgnoreFile(c)
  BY <1>2 DEF TruncateIgnoreFile, Truncates, Written, At, syncWorld
<1>3. CASE RewriteIgnoreFile(c)
  BY <1>3 DEF RewriteIgnoreFile, Written, At, syncWorld
<1>4. CASE removeFilters(c)
  BY <1>4 DEF removeFilters, syncWorld
<1> QED
  BY <1>1, <1>2, <1>3, <1>4

LEMMA FileStepKeepsInv ==
    ASSUME CommandsInv, NEW c \in Clients,
           addFilters(c) \/ removeFilters(c) \/ TruncateIgnoreFile(c) \/ RewriteIgnoreFile(c)
    PROVE  CommandsInv'
<1>0. FolderFields /\ PlaceOf(c)
  BY DEF CommandsInv, FolderPlaces, PlaceOf
<1>1. CASE Written(c) /\ run[c].pc \in {"addFilters", "truncate", "rewrite"}
  <2>1. /\ OnlyRuns(c)
        /\ run'[c].done = {"filters"} \/ run'[c].missed = {"filters"}
        /\ \/ run'[c].pc = "idle" /\ Req(c)' = Req(c)
           \/ /\ run'[c].pc = "ignoreFile" /\ Req(c).op = "exclude"
              /\ Req(c)' = [Req(c) EXCEPT !.flags = {"show"}]
    BY <1>0, <1>1, WrittenEffect
  <2>2. run[c].pc \in OnFile
    BY <1>1 DEF OnFile
  <2>3. PlaceOf(c)' /\ FoundAsNamed(c)'
    BY <1>0, <2>1, <2>2 DEF PlaceOf, FoundAsNamed, FiltersKnown, Operations, OnFile
  <2>4. DoneSoFar(c)'
    BY <1>0, <2>1, <2>2 DEF PlaceOf, DoneSoFar, Closing, OnFile, Promise
  <2> QED
    BY <2>1, <2>3, <2>4, FileStepIs, SameSyncsKept, CommandKeepsInv
<1>2. CASE removeFilters(c) \/ Truncates(c)
  <2>1. /\ OnlyRuns(c) /\ Req(c)' = Req(c)
        /\ run[c].pc \in {"removeFilters", "truncate"}
        /\ run'[c].pc \in {"truncate", "rewrite"}
    BY <1>0, <1>2, RewritingEffect
  <2>2. PlaceOf(c)' /\ FoundAsNamed(c)' /\ DoneSoFar(c)'
    BY <1>0, <2>1 DEF PlaceOf, FoundAsNamed, DoneSoFar, FiltersKnown, Operations, OnFile, Closing
  <2> QED
    BY <2>1, <2>2, FileStepIs, SameSyncsKept, CommandKeepsInv
<1> QED
  BY <1>1, <1>2, FileStepIs

LEMMA InitCommandsInv == FoldersInit => CommandsInv
<1> SUFFICES ASSUME NEW s \in Scenarios,
                    /\ script = s.scripts /\ syncs = s.syncs
                    /\ run = [c \in Clients |-> IdleRun]
             PROVE  CommandsInv
  BY DEF FoldersInit
<1>1. FolderFields
  BY ScenariosAssumption DEF FolderFields
<1>2. ASSUME NEW c \in Clients PROVE PlaceOf(c) /\ FoundAsNamed(c) /\ DoneSoFar(c)
  <2>1. run[c].pc = "idle" /\ Req(c).op = "none"
    BY DEF IdleRun, NoRequest, Req
  <2> QED
    BY <2>1 DEF PlaceOf, FoundAsNamed, DoneSoFar, Operations, OnFile, Promise
<1> QED
  BY <1>1, <1>2 DEF CommandsInv, FolderPlaces, PlaceOf

LEMMA NextCommandsInv == CommandsInv /\ [FoldersNext]_folderVars => CommandsInv'
<1> SUFFICES ASSUME CommandsInv, [FoldersNext]_folderVars PROVE CommandsInv'
  OBVIOUS
<1>1. ASSUME NEW c \in Clients,
             Submit(c) \/ Refused(c) \/ SyncStep(c) \/ IgnoreStep(c) \/ FuseStep(c)
      PROVE  CommandsInv'
  <2>1. \/ QuietActions(c) \/ Submit(c) \/ SyncAdded(c) \/ FindSync(c) \/ modifySync(c)
        \/ OpenIgnoreFile(c) \/ executeAdd(c) \/ addFilters(c) \/ executeRemove(c)
        \/ removeFilters(c) \/ TruncateIgnoreFile(c) \/ RewriteIgnoreFile(c)
    BY <1>1, Zenon DEF SyncStep, IgnoreStep, FuseStep, QuietActions
  <2> QED
    BY <2>1, QuietKeepsInv, SubmitKeepsInv, SyncAddedKeepsInv, FindSyncKeepsInv,
       ModifyKeepsInv, OpenKeepsInv, ExecuteKeepsInv, FileStepKeepsInv
<1> QED
  BY <1>1, OthersStepKeepsInv DEF FoldersNext

(* The commands hold at every point what they promise on the way. *)
LEMMA CommandsInvHolds == FoldersSpec => []CommandsInv
<1> QED
  BY InitCommandsInv, NextCommandsInv, PTL DEF FoldersSpec

(* A command that answers OK has had every request it consists of carried   *)
(* out, for any requests, clients, syncs and mounts: all it may have missed *)
(* is the write of a .megaignore file.                                      *)
THEOREM OkMeansDoneHolds == FoldersSpec => []OkMeansDone
<1>1. CommandsInv => OkMeansDone
  BY DEF CommandsInv, DoneSoFar, Closing, OkMeansDone
<1> QED
  BY <1>1, CommandsInvHolds, PTL

-----------------------------------------------------------------------------
(* Who changes a sync *)

LEMMA SyncAddedIsNew ==
    ASSUME CommandsInv, NEW c \in Clients, SyncAdded(c), NEW i \in SyncIds,
           syncs'[i] # syncs[i]
    PROVE  syncs[i].state = "none"
<1> DEFINE free == {j \in SyncIds : syncs[j].state = "none"}
           id == CHOOSE j \in free : \A k \in free : j <= k
<1>1. PICK new : UNCHANGED syncs \/ (free # {} /\ syncs' = [syncs EXCEPT ![id] = new])
  BY DEF SyncAdded
<1>2. free # {} => id \in free
  <2>1. free \in SUBSET Nat
    BY DEF SyncIds
  <2> HIDE DEF free
  <2> QED
    BY <2>1, LeastElement
<1>3. i = id /\ id \in free
  <2> HIDE DEF id, free
  <2> QED
    BY <1>1, <1>2 DEF CommandsInv, FolderFields
<1> HIDE DEF id
<1> QED
  BY <1>3

LEMMA ModifiesAsNamed ==
    ASSUME CommandsInv, NEW c \in Clients, modifySync(c), NEW i \in SyncIds,
           syncs'[i] # syncs[i]
    PROVE  /\ run[c].pc = "modifySync" /\ run'[c] # run[c]
           /\ Req(c).args[1].id = i \/ Req(c).args[1].path = syncs[i].local
<1>1. run[c].pc = "modifySync" /\ run'[c].pc \in {"idle", "reloadSync"}
  BY ModifyEffect
<1>2. i = run[c].id
  <2>1. PICK state : syncs' = [syncs EXCEPT ![run[c].id].state = state,
                                            ![run[c].id].error = state = "disabled"]
    BY ModifyEffect, Zenon
  <2> QED
    BY <2>1 DEF CommandsInv, FolderFields
<1>3. FoundAsNamed(c)
  BY DEF CommandsInv
<1> QED
  BY <1>1, <1>2, <1>3 DEF FoundAsNamed

LEMMA OnlySyncStepsChangeSyncs ==
    ASSUME CommandsInv, [FoldersNext]_folderVars, syncs' # syncs
    PROVE  SyncDisabled \/ \E c \in Clients : SyncAdded(c) \/ modifySync(c)
<1>1. ASSUME NEW c \in Clients,
             Submit(c) \/ Refused(c) \/ SyncStep(c) \/ IgnoreStep(c) \/ FuseStep(c)
      PROVE  SyncAdded(c) \/ modifySync(c)
  <2>1. \/ QuietActions(c) \/ Submit(c) \/ SyncAdded(c) \/ FindSync(c) \/ modifySync(c)
        \/ OpenIgnoreFile(c) \/ executeAdd(c) \/ addFilters(c) \/ executeRemove(c)
        \/ removeFilters(c) \/ TruncateIgnoreFile(c) \/ RewriteIgnoreFile(c)
    BY <1>1, Zenon DEF SyncStep, IgnoreStep, FuseStep, QuietActions
  <2>2. ~QuietActions(c)
    BY QuietActionsAreQuiet DEF Frame
  <2>3. ~(\/ Submit(c) \/ FindSync(c) \/ OpenIgnoreFile(c) \/ executeAdd(c) \/ addFilters(c)
          \/ executeRemove(c) \/ removeFilters(c) \/ TruncateIgnoreFile(c)
          \/ RewriteIgnoreFile(c))
    BY DEF Submit, FindSync, OpenIgnoreFile, executeAdd, addFilters, executeRemove,
           removeFilters, TruncateIgnoreFile, RewriteIgnoreFile, syncWorld
  <2> QED
    BY <2>1, <2>2, <2>3
<1>2. ~(LoadThrottle \/ RemoteFolderGone \/ IgnoreFileGone \/ UNCHANGED folderVars)
  BY DEF LoadThrottle, RemoteFolderGone, IgnoreFileGone, folderVars, syncWorld
<1> QED
  BY <1>1, <1>2 DEF FoldersNext

(* A client only ever changes the sync that it named, whatever is added,    *)
(* deleted or disabled between its lookup of the sync and its request.      *)
THEOREM SyncsChangeAsNamedHolds == FoldersSpec => SyncsChangeAsNamed
<1> DEFINE AsNamed ==
        \A i \in SyncIds :
          /\ syncs[i].state # "none"
          /\ syncs'[i] # syncs[i]
          => \/ \E c \in Clients :
                   /\ run[c].pc = "modifySync" /\ run'[c] # run[c]
                   /\ Req(c).args[1].id = i \/ Req(c).args[1].path = syncs[i].local
             \/ syncs'[i].state = "disabled" /\ run' = run
<1>1. CommandsInv /\ [FoldersNext]_folderVars => [AsNamed]_folderVars
  <2> SUFFICES ASSUME CommandsInv, [FoldersNext]_folderVars,
                      NEW i \in SyncIds, syncs[i].state # "none", syncs'[i] # syncs[i]
               PROVE  \/ \E c \in Clients :
                            /\ run[c].pc = "modifySync" /\ run'[c] # run[c]
                            /\ Req(c).args[1].id = i \/ Req(c).args[1].path = syncs[i].local
                      \/ syncs'[i].state = "disabled" /\ run' = run
    BY Zenon
  <2>1. CASE SyncDisabled
    <3>1. PICK j \in Existing : syncs' = [syncs EXCEPT ![j].state = "disabled", ![j].error = TRUE]
      BY <2>1 DEF SyncDisabled
    <3>2. run' = run
      BY <2>1 DEF SyncDisabled
    <3>3. syncs'[i].state = "disabled"
      BY <3>1, SyncFields DEF CommandsInv, FolderFields
    <3> QED
      BY <3>2, <3>3
  <2>2. ASSUME NEW c \in Clients, SyncAdded(c) \/ modifySync(c)
        PROVE  modifySync(c)
    BY <2>2, SyncAddedIsNew
  <2> QED
    BY <2>1, <2>2, OnlySyncStepsChangeSyncs, ModifiesAsNamed
<1> HIDE DEF CommandsInv
<1> QED
  BY <1>1, CommandsInvHolds, PTL DEF FoldersSpec, SyncsChangeAsNamed

-----------------------------------------------------------------------------
(* Sequences of lines *)

LEMMA InToSet ==
  ASSUME NEW S, NEW list \in Seq(S), NEW x
  PROVE  x \in ToSet(list) <=> \E i \in 1 .. Len(list) : list[i] = x
BY DEF ToSet

LEMMA ToSetAppend ==
  ASSUME NEW S, NEW list \in Seq(S), NEW e \in S
  PROVE  ToSet(Append(list, e)) = ToSet(list) \cup {e}
<1>1. \A i \in 1 .. Len(list) : Append(list, e)[i] = list[i]
  OBVIOUS
<1>2. Append(list, e)[Len(list) + 1] = e /\ Len(Append(list, e)) = Len(list) + 1
  OBVIOUS
<1> QED
  BY <1>1, <1>2 DEF ToSet

LEMMA ToSetConcat ==
  ASSUME NEW S, NEW s \in Seq(S), NEW t \in Seq(S)
  PROVE  ToSet(s \o t) = ToSet(s) \cup ToSet(t)
<1> DEFINE all == s \o t
<1>1. all \in Seq(S) /\ Len(all) = Len(s) + Len(t)
  OBVIOUS
<1>2. \A i \in 1 .. Len(s) : i \in 1 .. Len(all) /\ all[i] = s[i]
  OBVIOUS
<1>3. \A i \in 1 .. Len(t) : Len(s) + i \in 1 .. Len(all) /\ all[Len(s) + i] = t[i]
  OBVIOUS
<1>4. \A i \in 1 .. Len(all) \ 1 .. Len(s) : i - Len(s) \in 1 .. Len(t) /\ all[i] = t[i - Len(s)]
  OBVIOUS
<1> HIDE DEF all
<1>5. ASSUME NEW x \in ToSet(all) PROVE x \in ToSet(s) \cup ToSet(t)
  <2>1. PICK i \in 1 .. Len(all) : all[i] = x
    BY <1>1, InToSet
  <2>2. CASE i \in 1 .. Len(s)
    BY <1>2, <2>1, <2>2, InToSet
  <2>3. CASE i \notin 1 .. Len(s)
    BY <1>4, <2>1, <2>3, InToSet
  <2> QED
    BY <2>2, <2>3
<1>6. ASSUME NEW x \in ToSet(s) PROVE x \in ToSet(all)
  BY <1>1, <1>2, <1>6, InToSet
<1>7. ASSUME NEW x \in ToSet(t) PROVE x \in ToSet(all)
  <2>1. PICK i \in 1 .. Len(t) : t[i] = x
    BY <1>7, InToSet
  <2> QED
    BY <1>1, <1>3, <2>1, InToSet
<1> QED
  BY <1>5, <1>6, <1>7 DEF all

LEMMA SetToSeqIs ==
  ASSUME NEW S, IsFiniteSet(S)
  PROVE  SetToSeq(S) \in Seq(S) /\ ToSet(SetToSeq(S)) = S
<1> DEFINE n == Cardinality(S)
           f == SetToSeq(S)
<1>1. n \in Nat /\ ExistsBijection(1 .. n, S)
  BY FS_CardinalityType
<1>2. \E g \in [1 .. n -> S] : IsInjective(g)
  BY <1>1 DEF ExistsBijection, Bijection, Injection
<1>3. f \in [1 .. n -> S] /\ IsInjective(f)
  BY <1>2 DEF SetToSeq
<1> HIDE DEF f
<1>4. Cardinality(1 .. n) = n
  BY <1>1, FS_Interval
<1>5. f \in Injection(1 .. n, S)
  BY <1>3 DEF Injection
<1>6. f \in Surjection(1 .. n, S)
  <2> HIDE DEF n
  <2> QED
    BY <1>4, <1>5, FS_Injection DEF n
<1>7. \A x \in S : \E i \in 1 .. n : f[i] = x
  BY <1>6 DEF Surjection
<1>8. f \in Seq(S) /\ DOMAIN f = 1 .. n
  BY <1>1, <1>3
<1> QED
  BY <1>3, <1>7, <1>8 DEF ToSet, f

(* What is left of the first i lines, for every i. *)
IsRest(list, doomed, r) ==
    /\ Without(list, doomed) = r[Len(list)]
    /\ r[0] = <<>>
    /\ \A i \in 1 .. Len(list) :
          r[i] = IF list[i] \in doomed THEN r[i - 1] ELSE Append(r[i - 1], list[i])

(* The recursive function in Without exists and is what it says. *)
LEMMA WithoutIs ==
  ASSUME NEW S, NEW list \in Seq(S), NEW doomed
  PROVE  \E r \in [0 .. Len(list) -> Seq(S)] : IsRest(list, doomed, r)
<1> DEFINE Item(r, i) == IF list[i] \in doomed THEN r[i - 1]
                                              ELSE Append(r[i - 1], list[i])
           Rest(r, n) == r[0] = <<>> /\ \A i \in 1 .. n : r[i] = Item(r, i)
           P(n) == n <= Len(list) => \E r \in [0 .. n -> Seq(S)] : Rest(r, n)
           T == {n \in Nat : P(n)}
<1>1. Nat \subseteq T
  <2>1. 0 \in T
    <3>1. [i \in 0 .. 0 |-> <<>>] \in [0 .. 0 -> Seq(S)]
      OBVIOUS
    <3>2. Rest([i \in 0 .. 0 |-> <<>>], 0)
      OBVIOUS
    <3>3. P(0)
      BY <3>1, <3>2
    <3> HIDE DEF P
    <3> QED
      BY <3>3
  <2>2. ASSUME NEW n \in Nat, n \in T PROVE n + 1 \in T
    <3> SUFFICES ASSUME n + 1 <= Len(list)
                 PROVE  \E r \in [0 .. n + 1 -> Seq(S)] : Rest(r, n + 1)
      <4>1. SUFFICES P(n + 1)
        <5> HIDE DEF P
        <5> QED
          OBVIOUS
      <4> QED
        OBVIOUS
    <3>1. P(n)
      <4> HIDE DEF P
      <4> QED
        BY <2>2
    <3>2. PICK r \in [0 .. n -> Seq(S)] : Rest(r, n)
      <4>1. n <= Len(list)
        OBVIOUS
      <4> HIDE DEF Rest
      <4> QED
        BY <3>1, <4>1
    <3> DEFINE v == IF list[n + 1] \in doomed THEN r[n] ELSE Append(r[n], list[n + 1])
               g == [i \in 0 .. n + 1 |-> IF i = n + 1 THEN v ELSE r[i]]
    <3>3. v \in Seq(S)
      OBVIOUS
    <3>4. g \in [0 .. n + 1 -> Seq(S)]
      BY <3>3
    <3>5. g[0] = <<>>
      BY <3>2
    <3>6. ASSUME NEW i \in 1 .. n + 1 PROVE g[i] = Item(g, i)
      <4>1. CASE i = n + 1
        BY <4>1
      <4>2. CASE i # n + 1
        BY <4>2, <3>2
      <4> QED
        BY <4>1, <4>2
    <3> HIDE DEF g
    <3> QED
      BY <3>4, <3>5, <3>6
  <2> HIDE DEF T
  <2> QED
    BY <2>1, <2>2, Induction
<1>2. PICK r \in [0 .. Len(list) -> Seq(S)] : Rest(r, Len(list))
  <2>1. Len(list) \in T
    <3> HIDE DEF T
    <3> QED
      BY <1>1
  <2>2. P(Len(list))
    <3> HIDE DEF P
    <3> QED
      BY <2>1
  <2> QED
    BY <2>2
<1> DEFINE Body(f) == [i \in 0 .. Len(list) |->
                          IF i = 0 THEN <<>>
                          ELSE IF list[i] \in doomed THEN f[i - 1]
                          ELSE Append(f[i - 1], list[i])]
           h == CHOOSE f : f = Body(f)
<1>3. r = Body(r)
  <2>1. ASSUME NEW i \in 0 .. Len(list)
        PROVE  r[i] = IF i = 0 THEN <<>>
                      ELSE IF list[i] \in doomed THEN r[i - 1]
                      ELSE Append(r[i - 1], list[i])
    <3>1. CASE i = 0
      BY <1>2, <3>1
    <3>2. CASE i # 0
      <4>1. i \in 1 .. Len(list)
        BY <3>2
      <4>2. r[i] = Item(r, i)
        BY <1>2, <4>1
      <4> QED
        BY <4>2, <3>2
    <3> QED
      BY <3>1, <3>2
  <2>2. r = [i \in 0 .. Len(list) |-> r[i]]
    OBVIOUS
  <2> QED
    BY <2>1, <2>2
<1>4. h = Body(h)
  <2> HIDE DEF Body
  <2> QED
    BY <1>3
<1>5. Without(list, doomed) = h[Len(list)]
  BY DEF Without
<1>6. h[0] = <<>> /\ \A i \in 1 .. Len(list) : h[i] = Item(h, i)
  <2> HIDE DEF h
  <2>1. \A i \in 0 .. Len(list) :
           h[i] = IF i = 0 THEN <<>>
                  ELSE IF list[i] \in doomed THEN h[i - 1]
                  ELSE Append(h[i - 1], list[i])
    BY <1>4
  <2>2. h[0] = <<>>
    BY <2>1
  <2>3. ASSUME NEW i \in 1 .. Len(list) PROVE h[i] = Item(h, i)
    BY <2>1
  <2> QED
    BY <2>2, <2>3
<1>7. ASSUME NEW i \in 0 .. Len(list) PROVE h[i] = r[i]
  <2> DEFINE U == {n \in Nat : n <= Len(list) => h[n] = r[n]}
  <2> HIDE DEF h
  <2>1. 0 \in U
    BY <1>6, <1>2
  <2>2. ASSUME NEW n \in Nat, n \in U PROVE n + 1 \in U
    <3>1. CASE n + 1 <= Len(list)
      <4>1. n + 1 \in 1 .. Len(list) /\ n + 1 - 1 = n /\ h[n] = r[n]
        BY <3>1, <2>2
      <4>2. h[n + 1] = Item(h, n + 1) /\ r[n + 1] = Item(r, n + 1)
        BY <4>1, <1>6, <1>2
      <4> QED
        BY <4>1, <4>2
    <3> QED
      BY <3>1
  <2>3. Nat \subseteq U
    <3> HIDE DEF U
    <3> QED
      BY <2>1, <2>2, Induction
  <2> QED
    BY <2>3
<1> HIDE DEF h
<1>8. IsRest(list, doomed, r)
  BY <1>2, <1>5, <1>7 DEF IsRest
<1> QED
  BY <1>8

(* A file loses the lines it is to lose, and no other. *)
LEMMA WithoutRemoves ==
  ASSUME NEW S, NEW list \in Seq(S), NEW doomed
  PROVE  /\ Without(list, doomed) \in Seq(S)
         /\ ToSet(Without(list, doomed)) = ToSet(list) \ doomed
<1>1. PICK r \in [0 .. Len(list) -> Seq(S)] : IsRest(list, doomed, r)
  BY WithoutIs
<1> DEFINE First(n) == {list[i] : i \in 1 .. n}
           T == {n \in Nat : n <= Len(list) => ToSet(r[n]) = First(n) \ doomed}
<1>2. 0 \in T
  BY <1>1 DEF IsRest, ToSet
<1>3. ASSUME NEW n \in Nat, n \in T PROVE n + 1 \in T
  <2> SUFFICES ASSUME n + 1 <= Len(list) PROVE ToSet(r[n + 1]) = First(n + 1) \ doomed
    OBVIOUS
  <2>1. ToSet(r[n]) = First(n) \ doomed /\ r[n] \in Seq(S) /\ list[n + 1] \in S
    BY <1>3
  <2>2. r[n + 1] = IF list[n + 1] \in doomed THEN r[n] ELSE Append(r[n], list[n + 1])
    <3>1. n + 1 \in 1 .. Len(list) /\ n + 1 - 1 = n
      OBVIOUS
    <3> QED
      BY <1>1, <3>1 DEF IsRest
  <2>3. First(n + 1) = First(n) \cup {list[n + 1]}
    <3>1. \A i \in 1 .. n + 1 : i \in 1 .. n \/ i = n + 1
      OBVIOUS
    <3>2. n + 1 \in 1 .. n + 1 /\ 1 .. n \subseteq 1 .. n + 1
      OBVIOUS
    <3> QED
      BY <3>1, <3>2
  <2> HIDE DEF First
  <2> QED
    BY <2>1, <2>2, <2>3, ToSetAppend
<1>4. Len(list) \in T
  <2>1. Nat \subseteq T
    <3> HIDE DEF T
    <3> QED
      BY <1>2, <1>3, Induction
  <2> HIDE DEF T
  <2> QED
    BY <2>1
<1>5. ToSet(list) = First(Len(list))
  BY DEF ToSet
<1>6. Without(list, doomed) = r[Len(list)]
  BY <1>1 DEF IsRest
<1> HIDE DEF First
<1> QED
  BY <1>4, <1>5, <1>6

-----------------------------------------------------------------------------
(* The .megaignore files *)

LEMMA IgnoreFrame ==
    ASSUME IgnoreInv, NEW c \in Clients, OnlyRuns(c), UNCHANGED <<files, lock, told, unsettled>>,
           ~Rewriting(c), ~Rewriting(c)'
    PROVE  IgnoreInv'
<1>1. ASSUME NEW d \in DOMAIN files PROVE FileKnown(files[d])' /\ FileAsTold(d)'
  <2>1. FileKnown(files[d]) /\ FileAsTold(d)
    BY DEF IgnoreInv
  <2>2. (\A u \in Clients : run'[u].dir = d => run'[u].pc # "rewrite")
        => \A u \in Clients : run[u].dir = d => run[u].pc # "rewrite"
    BY DEF OnlyRuns, Rewriting
  <2> QED
    BY <2>1, <2>2 DEF FileKnown, FileAsTold, Short, Agrees, FiltersIn
<1>2. ASSUME NEW u \in Clients PROVE LockHeld(u)' /\ KeptAsTold(u)'
  <2>1. CASE u = c
    BY <2>1 DEF LockHeld, KeptAsTold
  <2>2. CASE u # c
    <3>1. run'[u] = run[u] /\ Doomed(u)' = Doomed(u)
      BY <2>2 DEF OnlyRuns, Doomed, Req
    <3>2. LockHeld(u) /\ KeptAsTold(u)
      BY DEF IgnoreInv
    <3> QED
      BY <3>1, <3>2 DEF LockHeld, KeptAsTold, Rewriting, Short, Agrees, FiltersIn
  <2> QED
    BY <2>1, <2>2
<1>3. /\ DOMAIN lock' = DOMAIN files' /\ DOMAIN told' = DOMAIN files'
      /\ DOMAIN unsettled' = DOMAIN files'
  BY DEF IgnoreInv
<1> QED
  BY <1>1, <1>2, <1>3 DEF IgnoreInv

(* What a step may do to the one file that its command works on. *)
LEMMA OneFileFrame ==
    ASSUME IgnoreInv, NEW c \in Clients, OnlyRuns(c), NEW d, d = run[c].dir,
           DOMAIN files' = DOMAIN files, DOMAIN lock' = DOMAIN lock, DOMAIN told' = DOMAIN told,
           DOMAIN unsettled' = DOMAIN unsettled,
           \A e \in DOMAIN files \ {d} :
              /\ files'[e] = files[e] /\ lock'[e] = lock[e]
              /\ told'[e] = told[e] /\ unsettled'[e] = unsettled[e],
           d \in DOMAIN files =>
              /\ FileKnown(files'[d]) /\ FileAsTold(d)'
              /\ \A u \in Clients \ {c} : run[u].dir = d => ~Rewriting(u),
           LockHeld(c)', KeptAsTold(c)'
    PROVE  IgnoreInv'
<1>1. ASSUME NEW e \in DOMAIN files PROVE FileKnown(files[e])' /\ FileAsTold(e)'
  <2>1. CASE e = d
    BY <2>1
  <2>2. CASE e # d
    <3>1. /\ FileKnown(files[e]) /\ FileAsTold(e) /\ files'[e] = files[e]
          /\ told'[e] = told[e] /\ unsettled'[e] = unsettled[e]
      BY <2>2 DEF IgnoreInv
    <3>2. (\A u \in Clients : run'[u].dir = e => run'[u].pc # "rewrite")
          => \A u \in Clients : run[u].dir = e => run[u].pc # "rewrite"
      BY <2>2 DEF OnlyRuns
    <3> QED
      BY <3>1, <3>2 DEF FileKnown, FileAsTold, Short, Agrees, FiltersIn
  <2> QED
    BY <2>1, <2>2
<1>2. ASSUME NEW u \in Clients PROVE LockHeld(u)' /\ KeptAsTold(u)'
  <2>1. CASE u = c
    BY <2>1
  <2>2. CASE u # c
    <3>1. run'[u] = run[u] /\ Doomed(u)' = Doomed(u)
      BY <2>2 DEF OnlyRuns, Doomed, Req
    <3>2. LockHeld(u) /\ KeptAsTold(u)
      BY DEF IgnoreInv
    <3>3. CASE run[u].dir = d
      BY <2>2, <3>1, <3>2, <3>3 DEF LockHeld, KeptAsTold, Rewriting
    <3>4. CASE run[u].dir # d
      BY <3>1, <3>2, <3>4 DEF LockHeld, KeptAsTold, Rewriting, Short, Agrees, FiltersIn
    <3> QED
      BY <3>3, <3>4
  <2> QED
    BY <2>1, <2>2
<1>3. /\ DOMAIN lock' = DOMAIN files' /\ DOMAIN told' = DOMAIN files'
      /\ DOMAIN unsettled' = DOMAIN files'
  BY DEF IgnoreInv
<1> QED
  BY <1>1, <1>2, <1>3 DEF IgnoreInv

(* The mutex of a file that is free or one's own keeps the others away. *)
LEMMA NobodyElseRewrites ==
    ASSUME IgnoreInv, NEW c \in Clients, NEW d \in DOMAIN files, lock[d] \in {"free", c}
    PROVE  /\ \A u \in Clients \ {c} : run[u].dir = d => ~Rewriting(u)
           /\ lock[d] = "free" => \A u \in Clients : run[u].dir = d => ~Rewriting(u)
BY ClientsAssumption DEF IgnoreInv, LockHeld

LEMMA OpenKeepsIgnore ==
    ASSUME CommandsInv, IgnoreInv, NEW c \in Clients, OpenIgnoreFile(c)
    PROVE  IgnoreInv'
<1>d. PICK d : d = run[c].dir
  OBVIOUS
<1>0. FolderFields /\ PlaceOf(c)
  BY <1>d DEF CommandsInv, FolderPlaces, PlaceOf
<1>1. /\ OnlyRuns(c) /\ UNCHANGED <<lock, told, unsettled>> /\ Free(c)
      /\ ~Rewriting(c) /\ ~Rewriting(c)'
      /\ \/ UNCHANGED files
         \/ /\ ~files[d].exists
            /\ files' = [files EXCEPT ![d] = [NoFile EXCEPT !.exists = TRUE]]
  BY <1>d, <1>0, OpenEffect DEF Rewriting
<1>2. ASSUME d \in DOMAIN files
      PROVE  FileKnown(files'[d]) /\ files'[d].lines = files[d].lines
  <2>1. FileKnown(files[d])
    BY <1>d, <1>2 DEF IgnoreInv
  <2>2. CASE UNCHANGED files
    BY <2>1, <2>2
  <2>3. CASE /\ ~files[d].exists
             /\ files' = [files EXCEPT ![d] = [NoFile EXCEPT !.exists = TRUE]]
    <3>1. files'[d] = [exists |-> TRUE, lines |-> <<>>, open |-> FALSE]
      BY <1>2, <2>3 DEF NoFile
    <3>2. ~files[d].exists
      BY <2>3
    <3> QED
      BY <2>1, <3>1, <3>2 DEF FileKnown, IgnoreFile
  <2> QED
    BY <1>1, <2>2, <2>3
<1>3. ASSUME d \in DOMAIN files
      PROVE  /\ FileAsTold(d)'
             /\ \A u \in Clients \ {c} : run[u].dir = d => ~Rewriting(u)
  <2>1. \A u \in Clients : run[u].dir = d => ~Rewriting(u)
    BY <1>d, <1>1, <1>3, NobodyElseRewrites DEF Free
  <2>2. Short(files[d].lines) => Agrees(told[d], unsettled[d], files[d].lines)
    BY <1>d, <1>3, <2>1 DEF IgnoreInv, FileAsTold, Rewriting
  <2> QED
    BY <1>d, <1>1, <1>2, <1>3, <2>1, <2>2 DEF FileAsTold, Short, Agrees, FiltersIn
<1>4. LockHeld(c)' /\ KeptAsTold(c)'
  BY <1>d, <1>1 DEF LockHeld, KeptAsTold
<1>5. \A e \in DOMAIN files \ {d} : files'[e] = files[e]
  BY <1>d, <1>1
<1>6. DOMAIN files' = DOMAIN files
  BY <1>d, <1>1
<1> QED
  BY <1>d, <1>1, <1>2, <1>3, <1>4, <1>5, <1>6, OneFileFrame

(* What was told of a file after a command tells of some of its lines.  All *)
(* of these are unsettled.                                                  *)
LEMMA TellEffect ==
    ASSUME IgnoreInv, NEW c \in Clients, NEW what, NEW texts, Tell(c, what, texts),
           NEW d, d = run[c].dir
    PROVE  /\ DOMAIN told' = DOMAIN told /\ DOMAIN unsettled' = DOMAIN unsettled
           /\ \A e \in DOMAIN files \ {d} : told'[e] = told[e] /\ unsettled'[e] = unsettled[e]
           /\ d \in DOMAIN files =>
                 /\ DOMAIN told'[d] = DOMAIN told[d] \cup texts
                 /\ unsettled'[d] = unsettled[d] \cup texts
                 /\ \A t \in DOMAIN told[d] \ texts : told'[d][t] = told[d][t]
BY DEF Tell, IgnoreInv

(* Telling of filters disturbs nobody: not even one who rewrites the file. *)
LEMMA TellKeepsIgnore ==
    ASSUME IgnoreInv, NEW c \in Clients, OnlyRuns(c), UNCHANGED <<files, lock>>,
           ~Rewriting(c), ~Rewriting(c)', NEW what, NEW texts, Tell(c, what, texts)
    PROVE  IgnoreInv'
<1>d. PICK d : d = run[c].dir
  OBVIOUS
<1>1. ASSUME NEW e \in DOMAIN files, NEW except, NEW lines, Agrees(told[e], except, lines),
             unsettled[e] \subseteq except, NEW more, except \cup unsettled'[e] \subseteq more
      PROVE  Agrees(told'[e], more, lines)
  <2>1. CASE e = d
    <3>1. /\ DOMAIN told'[d] = DOMAIN told[d] \cup texts
          /\ unsettled'[d] = unsettled[d] \cup texts
          /\ \A t \in DOMAIN told[d] \ texts : told'[d][t] = told[d][t]
      BY <1>d, <2>1, TellEffect
    <3> QED
      BY <1>1, <2>1, <3>1 DEF Agrees
  <2>2. CASE e # d
    <3>1. told'[e] = told[e]
      BY <1>d, <2>2, TellEffect
    <3> QED
      BY <1>1, <3>1 DEF Agrees
  <2> QED
    BY <2>1, <2>2
<1>2. \A e \in DOMAIN files : unsettled[e] \subseteq unsettled'[e]
  BY <1>d, TellEffect
<1>3. ASSUME NEW e \in DOMAIN files PROVE FileKnown(files[e])' /\ FileAsTold(e)'
  <2>1. FileKnown(files[e]) /\ FileAsTold(e)
    BY DEF IgnoreInv
  <2>2. (\A u \in Clients : run'[u].dir = e => run'[u].pc # "rewrite")
        => \A u \in Clients : run[u].dir = e => run[u].pc # "rewrite"
    BY DEF OnlyRuns, Rewriting
  <2>3. Agrees(told[e], unsettled[e], files[e].lines) => Agrees(told'[e], unsettled'[e], files[e].lines)
    BY <1>1, <1>2
  <2>4. files'[e] = files[e]
    OBVIOUS
  <2> QED
    BY <2>1, <2>2, <2>3, <2>4 DEF FileKnown, FileAsTold, Short, Agrees, FiltersIn
<1>4. ASSUME NEW u \in Clients PROVE LockHeld(u)' /\ KeptAsTold(u)'
  <2>1. CASE u = c
    BY <2>1 DEF LockHeld, KeptAsTold
  <2>2. CASE u # c
    <3>1. run'[u] = run[u] /\ Doomed(u)' = Doomed(u)
      BY <2>2 DEF OnlyRuns, Doomed, Req
    <3>2. LockHeld(u) /\ KeptAsTold(u)
      BY DEF IgnoreInv
    <3>3. LockHeld(u)'
      BY <3>1, <3>2 DEF LockHeld, Rewriting
    <3>4. ASSUME run[u].dir \in DOMAIN files
          PROVE  Agrees(told[run[u].dir], unsettled[run[u].dir] \cup Doomed(u), run[u].kept)
                 => Agrees(told'[run[u].dir], unsettled'[run[u].dir] \cup Doomed(u), run[u].kept)
      BY <1>1, <1>2, <3>4
    <3>5. KeptAsTold(u)'
      BY <3>1, <3>2, <3>4 DEF KeptAsTold, Rewriting, Short, Agrees, FiltersIn
    <3> QED
      BY <3>3, <3>5
  <2> QED
    BY <2>1, <2>2
<1>5. /\ DOMAIN lock' = DOMAIN files' /\ DOMAIN told' = DOMAIN files'
      /\ DOMAIN unsettled' = DOMAIN files'
  BY <1>d, TellEffect DEF IgnoreInv
<1> QED
  BY <1>3, <1>4, <1>5 DEF IgnoreInv

LEMMA ExecuteKeepsIgnore ==
    ASSUME CommandsInv, IgnoreInv, NEW c \in Clients, executeAdd(c) \/ executeRemove(c)
    PROVE  IgnoreInv'
<1>1. FolderFields
  BY DEF CommandsInv
<1>2. /\ UNCHANGED <<files, lock>> /\ ~Rewriting(c) /\ OnlyRuns(c) /\ ~Rewriting(c)'
      /\ \/ UNCHANGED <<told, unsettled>>
         \/ Tell(c, "added", ToAdd(c)) \/ Tell(c, "removed", Doomed(c))
  BY <1>1, ExecuteEffect DEF Fails, ShowsAfterwards, Keeps, Rewriting
<1> QED
  BY <1>2, TellKeepsIgnore, IgnoreFrame

(* What is settled of a file after a write, and after one that failed. *)
LEMMA SettleEffect ==
    ASSUME IgnoreInv, NEW c \in Clients, NEW what, NEW texts, Settle(c, what, texts),
           NEW d, d = run[c].dir
    PROVE  /\ DOMAIN unsettled' = DOMAIN unsettled
           /\ \A e \in DOMAIN files \ {d} : unsettled'[e] = unsettled[e]
           /\ d \in DOMAIN files => \A t \in DOMAIN told[d] \ unsettled'[d] :
                 /\ t \in texts => told[d][t] = what
                 /\ t \notin texts => t \notin unsettled[d]
BY DEF Settle, IgnoreInv

LEMMA UnsettleEffect ==
    ASSUME IgnoreInv, NEW c \in Clients, Unsettle(c), NEW d, d = run[c].dir
    PROVE  /\ DOMAIN unsettled' = DOMAIN unsettled
           /\ \A e \in DOMAIN files \ {d} : unsettled'[e] = unsettled[e]
           /\ d \in DOMAIN files => \A except, lines :
                 unsettled'[d] \subseteq except => Agrees(told[d], except, lines)
BY DEF Unsettle, IgnoreInv, Agrees

(* What a write of lines leaves when it fails. *)
LEMMA PartlyIs ==
    ASSUME NEW lines \in Seq(Line), NEW part \in Partly(lines)
    PROVE  /\ part.lines \in Seq(Line) /\ part.open \in BOOLEAN
           /\ part.open => part.lines # <<>> /\ Last(part.lines) # <<>>
<1>1. \A n \in 0 .. Len(lines) - 1 : SubSeq(lines, 1, n) \in Seq(Line)
  OBVIOUS
<1>2. ToSet(lines) \subseteq Line
  BY DEF ToSet
<1>3. CASE \E n \in 0 .. Len(lines) - 1 : part = [lines |-> SubSeq(lines, 1, n), open |-> FALSE]
  BY <1>1, <1>3
<1>4. ASSUME NEW n \in 0 .. Len(lines) - 1,
             NEW cut \in {<<Fragment>>} \cup (ToSet(lines) \ {<<>>}),
             part = [lines |-> Append(SubSeq(lines, 1, n), cut), open |-> TRUE]
      PROVE  /\ part.lines \in Seq(Line) /\ part.open = TRUE
             /\ part.lines # <<>> /\ Last(part.lines) # <<>>
  <2> DEFINE first == SubSeq(lines, 1, n)
  <2>1. first \in Seq(Line)
    BY <1>1
  <2>0. <<Fragment>> \in Line /\ <<Fragment>> # <<>>
    BY DEF Line
  <2>2. cut \in Line /\ cut # <<>>
    BY <1>2, <2>0
  <2>3. part.lines = Append(first, cut) /\ part.open = TRUE
    BY <1>4
  <2> HIDE DEF first
  <2>4. /\ part.lines \in Seq(Line) /\ part.lines # <<>>
        /\ part.lines[Len(part.lines)] = cut
    BY <2>1, <2>2, <2>3
  <2> QED
    BY <2>2, <2>3, <2>4 DEF Last
<1>5. \/ \E n \in 0 .. Len(lines) - 1 : part = [lines |-> SubSeq(lines, 1, n), open |-> FALSE]
      \/ \E n \in 0 .. Len(lines) - 1, cut \in {<<Fragment>>} \cup (ToSet(lines) \ {<<>>}) :
            part = [lines |-> Append(SubSeq(lines, 1, n), cut), open |-> TRUE]
  <2> DEFINE N == 0 .. Len(lines) - 1
             Cuts == {<<Fragment>>} \cup (ToSet(lines) \ {<<>>})
             Clean(n) == [lines |-> SubSeq(lines, 1, n), open |-> FALSE]
             Torn(n, cut) == [lines |-> Append(SubSeq(lines, 1, n), cut), open |-> TRUE]
  <2>1. part \in {Clean(n) : n \in N} \cup {Torn(n, cut) : n \in N, cut \in Cuts}
    BY DEF Partly
  <2>2. (\E n \in N : part = Clean(n)) \/ (\E n \in N, cut \in Cuts : part = Torn(n, cut))
    <3> HIDE DEF N, Cuts, Clean, Torn
    <3> QED
      BY <2>1
  <2> QED
    BY <2>2
<1> QED
  BY <1>3, <1>4, <1>5

LEMMA RemoveKeepsIgnore ==
    ASSUME CommandsInv, IgnoreInv, NEW c \in Clients, removeFilters(c)
    PROVE  IgnoreInv'
<1>d. PICK d : d = run[c].dir
  OBVIOUS
<1>0. FolderFields
  BY <1>d DEF CommandsInv
<1>1. /\ OnlyRuns(c) /\ run'[c].dir = d /\ run'[c].pc = "truncate"
  BY <1>d, <1>0, RewritingEffect DEF removeFilters, At
<1>2. PICK n \in 0 .. Len(files[d].lines) :
      /\ Free(c) /\ UNCHANGED <<files, told>> /\ lock' = [lock EXCEPT ![d] = c]
      /\ run' = [run EXCEPT ![c].pc = "truncate",
                            ![c].kept = Without(SubSeq(files[d].lines, 1, n), Doomed(c))]
      /\ \/ n = Len(files[d].lines) /\ UNCHANGED unsettled
         \/ Unsettle(c)
  BY <1>d DEF removeFilters, ReadKept
<1>3. /\ run'[c].kept = Without(SubSeq(files[d].lines, 1, n), Doomed(c))
      /\ Doomed(c)' = Doomed(c)
  BY <1>d, <1>0, <1>2, FieldsOfRun DEF Doomed, Req
<1>4. ASSUME d \in DOMAIN files
      PROVE  /\ FileKnown(files'[d]) /\ FileAsTold(d)'
             /\ \A u \in Clients \ {c} : run[u].dir = d => ~Rewriting(u)
             /\ LockHeld(c)' /\ KeptAsTold(c)'
  <2>1. \A u \in Clients : run[u].dir = d => ~Rewriting(u)
    BY <1>d, <1>2, <1>4, NobodyElseRewrites DEF Free
  <2>2. FileKnown(files[d]) /\ FileAsTold(d) /\ DOMAIN lock = DOMAIN files
    BY <1>d, <1>4 DEF IgnoreInv
  <2>3. Short(files[d].lines) => Agrees(told[d], unsettled[d], files[d].lines)
    BY <1>d, <2>1, <2>2 DEF FileAsTold, Rewriting
  <2>e. Unsettle(c) => \A except, lines : unsettled'[d] \subseteq except => Agrees(told[d], except, lines)
    BY <1>d, <1>4, UnsettleEffect
  <2>4. FileKnown(files'[d]) /\ FileAsTold(d)'
    <3>1. Short(files[d].lines) => Agrees(told[d], unsettled'[d], files[d].lines)
      BY <1>2, <2>3, <2>e
    <3> QED
      BY <1>d, <1>2, <2>2, <3>1 DEF FileKnown, FileAsTold, Short, Agrees, FiltersIn
  <2>5. files[d].lines \in Seq(Line)
    BY <1>d, <2>2 DEF FileKnown, IgnoreFile
  <2>p. PICK lines : lines = SubSeq(files[d].lines, 1, n)
    OBVIOUS
  <2>q. lines \in Seq(Line) /\ (n = Len(files[d].lines) => lines = files[d].lines)
    BY <2>5, <2>p
  <2>6. /\ run'[c].kept \in Seq(Line)
        /\ ToSet(run'[c].kept) = ToSet(lines) \ Doomed(c)
    <3>1. run'[c].kept = Without(lines, Doomed(c))
      BY <1>3, <2>p
    <3> QED
      BY <2>q, <3>1, WithoutRemoves
  <2>7. LockHeld(c)'
    BY <1>d, <1>1, <1>2, <1>4, <2>2 DEF LockHeld
  <2>8. Short(run'[c].kept) => Short(lines)
    <3>1. ASSUME NEW t \in Doomed(c) PROVE Len(t) = 1
      <4>1. PICK f : t = Text(f)
        BY Zenon DEF Doomed
      <4> QED
        BY <4>1 DEF Text
    <3> QED
      BY <2>6, <3>1 DEF Short
  <2>9. Short(run'[c].kept) => Agrees(told[d], unsettled'[d] \cup Doomed(c), run'[c].kept)
    <3>1. CASE Unsettle(c)
      BY <2>e, <3>1
    <3>2. CASE n = Len(files[d].lines) /\ UNCHANGED unsettled
      BY <2>3, <2>6, <2>8, <2>q, <3>2 DEF Agrees, FiltersIn
    <3> QED
      BY <1>2, <3>1, <3>2
  <2>10. KeptAsTold(c)'
    <3>1. ToSet(run'[c].kept) \cap Doomed(c)' = {}
      BY <1>d, <1>3, <2>6
    <3>2. Short(run'[c].kept) => Agrees(told'[d], unsettled'[d] \cup Doomed(c)', run'[c].kept)
      BY <1>d, <1>2, <1>3, <2>9 DEF Agrees
    <3> QED
      BY <1>d, <1>1, <2>6, <3>1, <3>2 DEF KeptAsTold, Short, Agrees, FiltersIn
  <2> QED
    BY <1>d, <2>1, <2>4, <2>7, <2>10
<1>5. d \notin DOMAIN files => LockHeld(c)' /\ KeptAsTold(c)'
  BY <1>d, <1>1, <1>2 DEF LockHeld, KeptAsTold
<1>u. /\ DOMAIN unsettled' = DOMAIN unsettled
      /\ \A e \in DOMAIN files \ {d} : unsettled'[e] = unsettled[e]
  BY <1>d, <1>2, UnsettleEffect
<1>6. /\ DOMAIN files' = DOMAIN files /\ DOMAIN lock' = DOMAIN lock /\ DOMAIN told' = DOMAIN told
      /\ \A e \in DOMAIN files \ {d} :
            files'[e] = files[e] /\ lock'[e] = lock[e] /\ told'[e] = told[e]
  BY <1>d, <1>2 DEF IgnoreInv
<1> QED
  BY <1>d, <1>1, <1>4, <1>5, <1>6, <1>u, OneFileFrame

LEMMA TruncateKeepsIgnore ==
    ASSUME CommandsInv, IgnoreInv, NEW c \in Clients, TruncateIgnoreFile(c)
    PROVE  IgnoreInv'
<1>d. PICK d : d = run[c].dir
  OBVIOUS
<1>0. FolderFields /\ run[c].pc = "truncate" /\ UNCHANGED <<told, unsettled>>
  BY <1>d DEF CommandsInv, TruncateIgnoreFile, At
<1>3. /\ DOMAIN lock = DOMAIN files /\ DOMAIN told = DOMAIN files
      /\ LockHeld(c) /\ KeptAsTold(c)
  BY <1>d DEF IgnoreInv
<1>a. ASSUME d \in DOMAIN files
      PROVE  lock[d] = c /\ \A u \in Clients \ {c} : run[u].dir = d => ~Rewriting(u)
  <2>1. lock[d] = c
    BY <1>d, <1>0, <1>3, <1>a DEF LockHeld, Rewriting
  <2> QED
    BY <1>d, <1>a, <2>1, NobodyElseRewrites
<1>b. CASE /\ UNCHANGED lock /\ Go(c, "rewrite")
           /\ files' = [files EXCEPT ![d].lines = <<>>, ![d].open = FALSE, ![d].exists = TRUE]
  <2>0. Truncates(c)
    BY <1>0, <1>b DEF Truncates
  <2>1. /\ OnlyRuns(c) /\ run'[c].dir = d /\ run'[c].pc = "rewrite"
        /\ run'[c].kept = run[c].kept /\ Doomed(c)' = Doomed(c)
    BY <1>d, <1>0, <2>0, RewritingEffect DEF Doomed, Req
  <2>4. ASSUME d \in DOMAIN files
        PROVE  FileKnown(files'[d]) /\ FileAsTold(d)' /\ LockHeld(c)'
    <3>3. files'[d] = [exists |-> TRUE, lines |-> <<>>, open |-> FALSE]
      BY <1>d, <1>b, <2>4 DEF IgnoreInv, FileKnown, IgnoreFile
    <3>4. FileKnown(files'[d])
      BY <1>d, <3>3 DEF FileKnown, IgnoreFile
    <3>5. FileAsTold(d)'
      BY <1>d, <2>1 DEF FileAsTold
    <3>6. LockHeld(c)'
      BY <1>d, <1>a, <1>b, <2>1, <2>4, <3>3 DEF LockHeld
    <3> QED
      BY <3>4, <3>5, <3>6
  <2>5. /\ DOMAIN files' = DOMAIN files
        /\ \A e \in DOMAIN files \ {d} : files'[e] = files[e]
    BY <1>d, <1>b
  <2>6. d \notin DOMAIN files => LockHeld(c)'
    BY <1>d, <2>1, <2>5 DEF LockHeld
  <2>7. KeptAsTold(c)'
    BY <1>d, <1>0, <2>1, <1>3, <2>5 DEF KeptAsTold, Rewriting, Short, Agrees, FiltersIn
  <2> QED
    BY <1>d, <1>0, <1>a, <1>b, <2>1, <2>4, <2>5, <2>6, <2>7, OneFileFrame
<1>c. CASE /\ UNCHANGED files /\ Written(c)
           /\ lock' = [lock EXCEPT ![d] = "free"]
  <2>1. OnlyRuns(c) /\ ~Rewriting(c)'
    BY <1>0, <1>c, WrittenEffect DEF Rewriting
  <2>2. ASSUME d \in DOMAIN files PROVE FileKnown(files'[d]) /\ FileAsTold(d)'
    <3>1. \A u \in Clients : run[u].dir = d => run[u].pc # "rewrite"
      BY <1>0, <1>a, <2>2 DEF Rewriting
    <3>2. FileKnown(files[d]) /\ FileAsTold(d)
      BY <2>2 DEF IgnoreInv
    <3> QED
      BY <1>0, <1>c, <3>1, <3>2 DEF FileKnown, FileAsTold, Short, Agrees, FiltersIn
  <2>3. LockHeld(c)' /\ KeptAsTold(c)'
    BY <2>1 DEF LockHeld, KeptAsTold
  <2>4. DOMAIN lock' = DOMAIN lock /\ \A e \in DOMAIN files \ {d} : lock'[e] = lock[e]
    BY <1>c, <1>3
  <2> QED
    BY <1>d, <1>0, <1>a, <1>c, <2>1, <2>2, <2>3, <2>4, OneFileFrame
<1> QED
  BY <1>d, <1>b, <1>c DEF TruncateIgnoreFile, Written

LEMMA RewriteKeepsIgnore ==
    ASSUME CommandsInv, IgnoreInv, NEW c \in Clients, RewriteIgnoreFile(c)
    PROVE  IgnoreInv'
<1>d. PICK d : d = run[c].dir
  OBVIOUS
<1>0. FolderFields /\ run[c].pc = "rewrite"
  BY <1>d DEF CommandsInv, RewriteIgnoreFile, At
<1>1. OnlyRuns(c) /\ ~Rewriting(c)'
  <2>1. Written(c)
    BY DEF RewriteIgnoreFile, Written
  <2> QED
    BY <1>d, <1>0, <2>1, WrittenEffect DEF Rewriting
<1>2. /\ lock' = [lock EXCEPT ![d] = "free"] /\ UNCHANGED told
      /\ \/ /\ files' = [files EXCEPT ![d].lines = run[c].kept]
            /\ Settle(c, "removed", Doomed(c))
         \/ /\ \E part \in Partly(run[c].kept) :
                  files' = [files EXCEPT ![d].lines = part.lines, ![d].open = part.open]
            /\ Unsettle(c)
  BY <1>d DEF RewriteIgnoreFile
<1>3. /\ DOMAIN lock = DOMAIN files /\ DOMAIN told = DOMAIN files
      /\ LockHeld(c) /\ KeptAsTold(c)
  BY <1>d DEF IgnoreInv
<1>4. ASSUME d \in DOMAIN files
      PROVE  /\ FileKnown(files'[d]) /\ FileAsTold(d)'
             /\ \A u \in Clients \ {c} : run[u].dir = d => ~Rewriting(u)
  <2>1. /\ lock[d] = c /\ files[d].exists /\ ~files[d].open
        /\ run[c].kept \in Seq(Line)
        /\ ToSet(run[c].kept) \cap Doomed(c) = {}
        /\ Short(run[c].kept) => Agrees(told[d], unsettled[d] \cup Doomed(c), run[c].kept)
    BY <1>d, <1>0, <1>3, <1>4 DEF LockHeld, KeptAsTold, Rewriting
  <2>2. \A u \in Clients \ {c} : run[u].dir = d => ~Rewriting(u)
    BY <1>d, <1>4, <2>1, NobodyElseRewrites
  <2>3. FileKnown(files[d])
    BY <1>d, <1>4 DEF IgnoreInv
  <2>a. CASE /\ files' = [files EXCEPT ![d].lines = run[c].kept]
             /\ Settle(c, "removed", Doomed(c))
    <3>4. files'[d] = [files[d] EXCEPT !.lines = run[c].kept]
      BY <1>d, <2>a, <1>4
    <3>5. FileKnown(files'[d]) /\ files'[d].lines = run[c].kept
      BY <1>d, <2>1, <2>3, <3>4 DEF FileKnown, IgnoreFile
    <3>6. ASSUME Short(run[c].kept) PROVE Agrees(told[d], unsettled'[d], run[c].kept)
      <4>1. \A t \in DOMAIN told[d] \ unsettled'[d] :
                 /\ t \in Doomed(c) => told[d][t] = "removed"
                 /\ t \notin Doomed(c) => t \notin unsettled[d]
        BY <1>d, <1>4, <2>a, SettleEffect
      <4> QED
        BY <1>d, <2>1, <3>6, <4>1 DEF Agrees, FiltersIn
    <3>7. FileAsTold(d)'
      BY <1>2, <3>5, <3>6 DEF FileAsTold, Short, Agrees, FiltersIn
    <3> QED
      BY <1>d, <2>2, <3>5, <3>7
  <2>b. ASSUME NEW part \in Partly(run[c].kept), Unsettle(c),
               files' = [files EXCEPT ![d].lines = part.lines, ![d].open = part.open]
        PROVE  FileKnown(files'[d]) /\ FileAsTold(d)'
    <3>1. /\ part.lines \in Seq(Line) /\ part.open \in BOOLEAN
          /\ part.open => part.lines # <<>> /\ Last(part.lines) # <<>>
      BY <2>1, <2>b, PartlyIs
    <3>2. files'[d] = [exists |-> TRUE, lines |-> part.lines, open |-> part.open]
      BY <1>4, <2>1, <2>3, <2>b DEF FileKnown, IgnoreFile
    <3>3. FileKnown(files'[d])
      BY <3>1, <3>2 DEF FileKnown, IgnoreFile
    <3>4. Agrees(told[d], unsettled'[d], files'[d].lines)
      BY <1>d, <1>4, <2>b, UnsettleEffect
    <3> QED
      BY <1>2, <3>3, <3>4 DEF FileAsTold, Agrees, FiltersIn
  <2> QED
    BY <1>2, <2>2, <2>a, <2>b
<1>u. /\ DOMAIN unsettled' = DOMAIN unsettled
      /\ \A e \in DOMAIN files \ {d} : unsettled'[e] = unsettled[e]
  BY <1>d, <1>2, SettleEffect, UnsettleEffect
<1>5. /\ DOMAIN files' = DOMAIN files /\ DOMAIN lock' = DOMAIN lock /\ DOMAIN told' = DOMAIN told
      /\ \A e \in DOMAIN files \ {d} :
            files'[e] = files[e] /\ lock'[e] = lock[e] /\ told'[e] = told[e]
  BY <1>d, <1>2, <1>3
<1>6. LockHeld(c)' /\ KeptAsTold(c)'
  BY <1>d, <1>1 DEF LockHeld, KeptAsTold
<1> QED
  BY <1>d, <1>1, <1>4, <1>5, <1>6, <1>u, OneFileFrame

(* The lines that addFilters appends, and what becomes of the file. *)
LEMMA TextsAdded ==
    ASSUME NEW req, FiltersKnown(req), \A f \in req.filters : f.valid,
           NEW texts \in SUBSET {Text(f) : f \in req.filters}
    PROVE  /\ IsFiniteSet(texts)
           /\ \A t \in texts : t \in Line /\ Len(t) = 1 /\ t # <<>> /\ t[1] # "#"
<1> DEFINE all == {Text(f) : f \in req.filters}
           g == [f \in req.filters |-> Text(f)]
<1>1. g \in Surjection(req.filters, all)
  BY DEF Surjection
<1>2. IsFiniteSet(texts)
  <2> HIDE DEF g
  <2>1. IsFiniteSet(req.filters)
    BY DEF FiltersKnown
  <2>2. IsFiniteSet(all)
    BY <1>1, <2>1, FS_Surjection
  <2> QED
    BY <2>2, FS_Subset
<1>3. ASSUME NEW t \in texts PROVE t \in Line /\ Len(t) = 1 /\ t # <<>> /\ t[1] # "#"
  <2>1. PICK f \in req.filters : t = <<f.word>>
    BY DEF Text
  <2>2. f.word \in STRING /\ f.word # "#"
    BY DEF FiltersKnown
  <2> QED
    BY <2>1, <2>2 DEF Line
<1> QED
  BY <1>2, <1>3

LEMMA AppendedEffect ==
    ASSUME NEW file, FileKnown(file), NEW added \in Seq(Line), NEW open \in BOOLEAN,
           open => added # <<>> /\ Last(added) # <<>>
    PROVE  /\ FileKnown(WithAppended(file, added, open))
           /\ (\A t \in ToSet(added) : Len(t) = 1)
              => \/ ~Short(WithAppended(file, added, open).lines)
                 \/ /\ Short(file.lines)
                    /\ ToSet(WithAppended(file, added, open).lines)
                          = ToSet(file.lines) \cup ToSet(added)
<1>0. file \in IgnoreFile /\ file.lines \in Seq(Line)
  BY DEF FileKnown, IgnoreFile
<1>3. CASE added = <<>>
  <2>1. WithAppended(file, added, open) = [file EXCEPT !.exists = TRUE]
    BY <1>3 DEF WithAppended
  <2>2. ToSet(added) = {}
    BY <1>3 DEF ToSet
  <2> QED
    BY <1>0, <1>3, <2>1, <2>2 DEF FileKnown, IgnoreFile
<1>4. CASE added # <<>> /\ ~file.open
  <2>1. WithAppended(file, added, open) = [exists |-> TRUE, open |-> open, lines |-> file.lines \o added]
    BY <1>4 DEF WithAppended
  <2>2. /\ file.lines \o added \in Seq(Line) /\ file.lines \o added # <<>>
        /\ Last(file.lines \o added) = Last(added)
    BY <1>0, <1>4 DEF Last
  <2>3. FileKnown(WithAppended(file, added, open))
    BY <2>1, <2>2 DEF FileKnown, IgnoreFile
  <2>4. ToSet(file.lines \o added) = ToSet(file.lines) \cup ToSet(added)
    BY <1>0, ToSetConcat
  <2> QED
    BY <2>1, <2>3, <2>4 DEF Short
<1>5. CASE added # <<>> /\ file.open
  <2> DEFINE last == Last(file.lines)
             front == Front(file.lines)
             joined == last \o added[1]
             rest == Tail(added)
             one == <<joined>>
             start == front \o one
             lines == start \o rest
  <2>1. WithAppended(file, added, open) = [exists |-> TRUE, open |-> open, lines |-> lines]
    BY <1>5 DEF WithAppended
  <2>2. file.lines # <<>> /\ last # <<>>
    BY <1>5 DEF FileKnown
  <2>3. last \in Line /\ Len(last) >= 1
    BY <1>0, <2>2 DEF Last, Line
  <2>5. added[1] \in Line /\ rest \in Seq(Line)
    BY <1>5
  <2>6. front \in Seq(Line)
    BY <1>0, <2>2 DEF Front
  <2>7. /\ joined \in Line /\ joined # <<>>
        /\ Len(added[1]) = 1 => Len(joined) # 1
    <3> HIDE DEF last
    <3> QED
      BY <2>3, <2>5 DEF Line
  <2>f. added[1] \in ToSet(added)
    BY <1>5 DEF ToSet
  <2>r. /\ rest = <<>> => Len(added) = 1
        /\ rest # <<>> => rest[Len(rest)] = added[Len(added)]
    <3>1. Len(added) \in Nat \ {0} /\ Len(rest) = Len(added) - 1
      BY <1>5
    <3>2. \A i \in 1 .. Len(rest) : rest[i] = added[i + 1]
      BY <1>5
    <3>3. rest \in Seq(Line)
      BY <1>5
    <3> HIDE DEF rest
    <3>4. rest = <<>> => Len(rest) = 0
      OBVIOUS
    <3>5. rest # <<>> => Len(rest) \in 1 .. Len(rest)
      BY <3>3
    <3> QED
      BY <3>1, <3>2, <3>4, <3>5
  <2> HIDE DEF front, rest, joined
  <2>8. one \in Seq(Line) /\ joined \in ToSet(one) /\ one # <<>> /\ one[Len(one)] = joined
    BY <2>7 DEF ToSet
  <2> HIDE DEF one
  <2>9. /\ start \in Seq(Line) /\ ToSet(start) = ToSet(front) \cup ToSet(one)
        /\ start # <<>> /\ start[Len(start)] = joined
    BY <2>6, <2>8, ConcatProperties, ToSetConcat
  <2> HIDE DEF start
  <2>10. lines \in Seq(Line) /\ ToSet(lines) = ToSet(start) \cup ToSet(rest)
    BY <2>5, <2>9, ConcatProperties, ToSetConcat
  <2>l. /\ lines # <<>>
        /\ rest = <<>> => lines[Len(lines)] = joined
        /\ rest # <<>> => lines[Len(lines)] = rest[Len(rest)]
    BY <2>5, <2>9
  <2> HIDE DEF lines
  <2>11. (\A t \in ToSet(added) : Len(t) = 1) => ~Short(lines)
    <3>1. joined \in ToSet(lines)
      BY <2>8, <2>9, <2>10
    <3> QED
      BY <2>7, <2>f, <3>1 DEF Short
  <2>12. open => lines # <<>> /\ Last(lines) # <<>>
    BY <2>7, <2>r, <2>l DEF Last
  <2>13. FileKnown(WithAppended(file, added, open))
    BY <2>1, <2>10, <2>12 DEF FileKnown, IgnoreFile
  <2> QED
    BY <2>1, <2>11, <2>13
<1> QED
  BY <1>3, <1>4, <1>5

LEMMA AddKeepsIgnore ==
    ASSUME CommandsInv, IgnoreInv, NEW c \in Clients, addFilters(c)
    PROVE  IgnoreInv'
<1>d. PICK d : d = run[c].dir
  OBVIOUS
<1>0. FolderFields /\ PlaceOf(c) /\ run[c].pc = "addFilters"
  BY DEF CommandsInv, FolderPlaces, PlaceOf, addFilters, At
<1>1. OnlyRuns(c) /\ ~Rewriting(c)'
  <2>1. Written(c)
    BY DEF addFilters, Written
  <2> QED
    BY <1>0, <2>1, WrittenEffect DEF Rewriting
<1>t. PICK texts \in SUBSET {Text(f) : f \in Req(c).filters} : texts = ToAdd(c)
  BY DEF ToAdd
<1>n. PICK new : new = SetToSeq(texts)
  OBVIOUS
<1>2. \/ /\ files' = [files EXCEPT ![d] = WithAppended(files[d], new, FALSE)]
         /\ Settle(c, "added", texts)
      \/ UNCHANGED <<files, unsettled>>
      \/ /\ \E part \in Partly(new) :
               files' = [files EXCEPT ![d] = WithAppended(files[d], part.lines, part.open)]
         /\ Unsettle(c)
  BY <1>d, <1>t, <1>n DEF addFilters
<1>3. /\ IsFiniteSet(texts)
      /\ \A t \in texts : t \in Line /\ Len(t) = 1 /\ t # <<>> /\ t[1] # "#"
  BY <1>0, <1>t, TextsAdded DEF PlaceOf, OnFile
<1>s. new \in Seq(Line) /\ ToSet(new) = texts
  <2>1. new \in Seq(texts) /\ ToSet(new) = texts
    BY <1>3, <1>n, SetToSeqIs
  <2>2. texts \in SUBSET Line
    BY <1>3
  <2> QED
    BY <2>1, <2>2, SeqMonotonic
<1>4. Free(c) /\ UNCHANGED <<lock, told>> /\ DOMAIN told = DOMAIN files
  BY DEF addFilters, IgnoreInv
<1>5. ASSUME d \in DOMAIN files
      PROVE  /\ FileKnown(files'[d]) /\ FileAsTold(d)'
             /\ \A u \in Clients \ {c} : run[u].dir = d => ~Rewriting(u)
  <2>1. \A u \in Clients : run[u].dir = d => ~Rewriting(u)
    BY <1>d, <1>4, <1>5, NobodyElseRewrites DEF Free
  <2>2. FileKnown(files[d]) /\ FileAsTold(d)
    BY <1>5 DEF IgnoreInv
  <2>3. Short(files[d].lines) => Agrees(told[d], unsettled[d], files[d].lines)
    BY <2>1, <2>2 DEF FileAsTold, Rewriting
  <2>a. CASE /\ files' = [files EXCEPT ![d] = WithAppended(files[d], new, FALSE)]
             /\ Settle(c, "added", texts)
    <3>4. files'[d] = WithAppended(files[d], new, FALSE)
      BY <2>a, <1>5
    <3>5. /\ FileKnown(files'[d])
          /\ Short(files'[d].lines) =>
                /\ Short(files[d].lines)
                /\ ToSet(files'[d].lines) = ToSet(files[d].lines) \cup texts
      <4>1. /\ FileKnown(WithAppended(files[d], new, FALSE))
            /\ (\A t \in ToSet(new) : Len(t) = 1)
               => \/ ~Short(WithAppended(files[d], new, FALSE).lines)
                  \/ /\ Short(files[d].lines)
                     /\ ToSet(WithAppended(files[d], new, FALSE).lines)
                           = ToSet(files[d].lines) \cup ToSet(new)
        BY <1>s, <2>2, AppendedEffect
      <4>2. \A t \in ToSet(new) : Len(t) = 1
        BY <1>3, <1>s
      <4> QED
        BY <1>s, <3>4, <4>1, <4>2
    <3>6. ASSUME Short(files'[d].lines) PROVE Agrees(told[d], unsettled'[d], files'[d].lines)
      <4>1. \A t \in DOMAIN told[d] \ unsettled'[d] :
                 /\ t \in texts => told[d][t] = "added"
                 /\ t \notin texts => t \notin unsettled[d]
        BY <1>d, <1>5, <2>a, SettleEffect
      <4> QED
        BY <1>3, <2>3, <3>5, <3>6, <4>1 DEF Agrees, FiltersIn
    <3>7. FileAsTold(d)'
      BY <1>4, <3>6 DEF FileAsTold, Short, Agrees, FiltersIn
    <3> QED
      BY <2>1, <3>5, <3>7
  <2>b. CASE UNCHANGED <<files, unsettled>>
    BY <1>4, <2>1, <2>2, <2>3, <2>b DEF FileKnown, FileAsTold, Short, Agrees, FiltersIn
  <2>c. ASSUME NEW part \in Partly(new), Unsettle(c),
               files' = [files EXCEPT ![d] = WithAppended(files[d], part.lines, part.open)]
        PROVE  FileKnown(files'[d]) /\ FileAsTold(d)'
    <3>1. /\ part.lines \in Seq(Line) /\ part.open \in BOOLEAN
          /\ part.open => part.lines # <<>> /\ Last(part.lines) # <<>>
      BY <1>s, <2>c, PartlyIs
    <3>2. files'[d] = WithAppended(files[d], part.lines, part.open)
      BY <1>5, <2>c
    <3>3. FileKnown(files'[d])
      BY <2>2, <3>1, <3>2, AppendedEffect
    <3>4. Agrees(told[d], unsettled'[d], files'[d].lines)
      BY <1>d, <1>5, <2>c, UnsettleEffect
    <3> QED
      BY <1>4, <3>3, <3>4 DEF FileAsTold, Agrees, FiltersIn
  <2> QED
    BY <1>2, <2>1, <2>a, <2>b, <2>c
<1>u. /\ DOMAIN unsettled' = DOMAIN unsettled
      /\ \A e \in DOMAIN files \ {d} : unsettled'[e] = unsettled[e]
  <2>1. Settle(c, "added", texts) \/ UNCHANGED unsettled \/ Unsettle(c)
    BY <1>2
  <2> QED
    BY <1>d, <2>1, SettleEffect, UnsettleEffect
<1>6. /\ DOMAIN files' = DOMAIN files
      /\ \A e \in DOMAIN files \ {d} : files'[e] = files[e]
  BY <1>2
<1>7. LockHeld(c)' /\ KeptAsTold(c)'
  BY <1>1 DEF LockHeld, KeptAsTold
<1> QED
  BY <1>d, <1>1, <1>4, <1>5, <1>6, <1>7, <1>u, OneFileFrame

LEMMA OthersKeepIgnore ==
    ASSUME IgnoreInv,
           LoadThrottle \/ SyncDisabled \/ RemoteFolderGone \/ IgnoreFileGone \/ UNCHANGED folderVars
    PROVE  IgnoreInv'
<1>1. UNCHANGED <<run, lock>>
  BY DEF LoadThrottle, SyncDisabled, RemoteFolderGone, IgnoreFileGone, folderVars, fileWorld
<1>2. CASE IgnoreFileGone
  <2>1. PICK d \in DOMAIN files :
          /\ lock[d] = "free"
          /\ files' = [files EXCEPT ![d] = NoFile]
          /\ told' = [told EXCEPT ![d] = <<>>]
          /\ unsettled' = [unsettled EXCEPT ![d] = {}]
    BY <1>2 DEF IgnoreFileGone
  <2>2. \A u \in Clients : run[u].dir = d => ~Rewriting(u)
    BY <2>1, ClientsAssumption DEF IgnoreInv, LockHeld
  <2>3. FileKnown(files'[d])
    BY <2>1 DEF NoFile, FileKnown, IgnoreFile
  <2>4. DOMAIN told'[d] = {}
    BY <2>1 DEF IgnoreInv
  <2>5. ASSUME NEW e \in DOMAIN files' PROVE FileKnown(files'[e]) /\ FileAsTold(e)'
    <3>1. CASE e = d
      BY <2>3, <2>4, <3>1 DEF FileAsTold, Agrees
    <3>2. CASE e # d
      <4>1. /\ files'[e] = files[e] /\ told'[e] = told[e] /\ unsettled'[e] = unsettled[e]
            /\ FileKnown(files[e]) /\ FileAsTold(e)
        BY <2>1, <2>5, <3>2 DEF IgnoreInv
      <4> QED
        BY <1>1, <4>1 DEF FileAsTold, Short, Agrees, FiltersIn
    <3> QED
      BY <3>1, <3>2
  <2>6. ASSUME NEW u \in Clients PROVE LockHeld(u)' /\ KeptAsTold(u)'
    <3>1. LockHeld(u) /\ KeptAsTold(u) /\ run'[u] = run[u] /\ Doomed(u)' = Doomed(u)
      BY <1>1 DEF IgnoreInv, Doomed, Req
    <3> QED
      BY <1>1, <2>1, <2>2, <3>1 DEF LockHeld, KeptAsTold, Rewriting, Short, Agrees, FiltersIn
  <2> QED
    BY <1>1, <2>1, <2>5, <2>6 DEF IgnoreInv
<1>3. CASE ~IgnoreFileGone
  <2>1. UNCHANGED <<run, files, lock, told, unsettled>>
    BY <1>1, <1>3
       DEF LoadThrottle, SyncDisabled, RemoteFolderGone, folderVars, fileWorld
  <2> QED
    BY <2>1 DEF IgnoreInv, FileKnown, FileAsTold, LockHeld, KeptAsTold, Rewriting, Doomed, Req,
                Short, Agrees, FiltersIn
<1> QED
  BY <1>2, <1>3

LEMMA InitIgnoreInv == FoldersInit => IgnoreInv
<1> SUFFICES ASSUME NEW s \in Scenarios,
                    /\ run = [c \in Clients |-> IdleRun] /\ files = s.files
                    /\ lock = [d \in DOMAIN s.files |-> "free"]
                    /\ told = [d \in DOMAIN s.files |-> <<>>]
                    /\ unsettled = [d \in DOMAIN s.files |-> {}]
             PROVE  IgnoreInv
  BY DEF FoldersInit
<1>1. ASSUME NEW d \in DOMAIN files PROVE FileKnown(files[d]) /\ FileAsTold(d)
  BY <1>1, ScenariosAssumption DEF FileKnown, FileAsTold, Agrees
<1>2. ASSUME NEW c \in Clients PROVE LockHeld(c) /\ KeptAsTold(c)
  BY DEF IdleRun, LockHeld, KeptAsTold, Rewriting
<1> QED
  BY <1>1, <1>2 DEF IgnoreInv

LEMMA NextIgnoreInv == CommandsInv /\ IgnoreInv /\ [FoldersNext]_folderVars => IgnoreInv'
<1> SUFFICES ASSUME CommandsInv, IgnoreInv, [FoldersNext]_folderVars PROVE IgnoreInv'
  OBVIOUS
<1>0. FolderFields
  BY DEF CommandsInv
<1>1. ASSUME NEW c \in Clients, SyncAdded(c) \/ FindSync(c) \/ modifySync(c) \/ Submit(c)
      PROVE  IgnoreInv'
  <2>1. UNCHANGED <<files, lock, told, unsettled>>
    BY <1>1 DEF SyncAdded, FindSync, modifySync, Submit, fileWorld
  <2>2. ~Rewriting(c)
    BY <1>1 DEF SyncAdded, FindSync, modifySync, Submit, Accepted, At, Rewriting
  <2>3. OnlyRuns(c) /\ ~Rewriting(c)'
    <3>1. CASE SyncAdded(c)
      <4>1. Finish(c, "added") \/ Refuse(c, SyncErrorCode) \/ Refuse(c, "ERROR")
        BY <3>1 DEF SyncAdded
      <4> QED
        BY <1>0, <4>1, FieldsOfRun DEF Finish, Refuse, Return, OnlyRuns, Rewriting
    <3>2. CASE FindSync(c)
      <4> DEFINE i == getSync(Req(c).args[1])
      <4>1. \/ Refuse(c, "NOTFOUND")
            \/ run' = [run EXCEPT ![c].pc = "modifySync", ![c].id = i, ![c].sync = syncs[i]]
        BY <3>2 DEF FindSync
      <4> HIDE DEF i
      <4>2. CASE Refuse(c, "NOTFOUND")
        BY <1>0, <4>2, RefuseEffect DEF Fails, Rewriting
      <4>3. CASE run' = [run EXCEPT ![c].pc = "modifySync", ![c].id = i, ![c].sync = syncs[i]]
        BY <1>0, <4>3, FieldsOfRun DEF OnlyRuns, Rewriting
      <4> QED
        BY <4>1, <4>2, <4>3
    <3>3. CASE modifySync(c)
      BY <3>3, ModifyEffect DEF Rewriting
    <3>4. CASE Submit(c)
      BY <3>4, SubmitEffect DEF Rewriting, Operations
    <3> QED
      BY <1>1, <3>1, <3>2, <3>3, <3>4
  <2> QED
    BY <2>1, <2>2, <2>3, IgnoreFrame
<1>2. ASSUME NEW c \in Clients, QuietActions(c) PROVE IgnoreInv'
  <2>1. Frame(c)
    BY <1>2, QuietActionsAreQuiet
  <2> QED
    BY <2>1, IgnoreFrame DEF Frame, Rewriting
<1>3. ASSUME NEW c \in Clients,
             Submit(c) \/ Refused(c) \/ SyncStep(c) \/ IgnoreStep(c) \/ FuseStep(c)
      PROVE  IgnoreInv'
  <2>1. \/ QuietActions(c) \/ Submit(c) \/ SyncAdded(c) \/ FindSync(c) \/ modifySync(c)
        \/ OpenIgnoreFile(c) \/ executeAdd(c) \/ addFilters(c) \/ executeRemove(c)
        \/ removeFilters(c) \/ TruncateIgnoreFile(c) \/ RewriteIgnoreFile(c)
    BY <1>3, Zenon DEF SyncStep, IgnoreStep, FuseStep, QuietActions
  <2> QED
    BY <1>1, <1>2, <2>1, OpenKeepsIgnore, ExecuteKeepsIgnore, AddKeepsIgnore, RemoveKeepsIgnore,
       TruncateKeepsIgnore, RewriteKeepsIgnore
<1> QED
  BY <1>3, OthersKeepIgnore DEF FoldersNext

(* A filter that a client was last told to have been added is in the file,  *)
(* and one told to have been removed is not, for any clients and files,     *)
(* once the command that told of it has written, if no reading or writing   *)
(* has failed and no command that told otherwise before has written since.  *)
THEOREM FiltersAsToldHolds == FoldersSpec => []FiltersAsTold
<1>1. IgnoreInv => FiltersAsTold
  BY DEF IgnoreInv, FileAsTold, FiltersAsTold, Whole, Short, Agrees, Filters, FiltersIn
<1>2. FoldersSpec => []IgnoreInv
  BY InitIgnoreInv, NextIgnoreInv, CommandsInvHolds, PTL DEF FoldersSpec
<1> QED
  BY <1>1, <1>2, PTL

-----------------------------------------------------------------------------
(* The commands on the remote tree, RemoteTree *)

(* A finite set of numbers is listed whole. *)
LEMMA AscendingIs ==
  ASSUME NEW S \in SUBSET Nat, IsFiniteSet(S)
  PROVE  Ascending(S) \in Seq(S) /\ S \subseteq ToSet(Ascending(S))
<1> DEFINE upTo(k) == {j \in S : j <= k}
           n == Cardinality(S)
           f == Ascending(S)
<1>0. IsFiniteSet(S) /\ n \in Nat /\ S \subseteq Nat
  BY FS_CardinalityType
<1>1. ASSUME NEW k \in S PROVE IsFiniteSet(upTo(k)) /\ Cardinality(upTo(k)) \in 1 .. n
  <2>1. upTo(k) \subseteq S /\ k \in upTo(k)
    BY <1>0
  <2> HIDE DEF upTo
  <2>2. IsFiniteSet(upTo(k)) /\ Cardinality(upTo(k)) <= n /\ Cardinality(upTo(k)) \in Nat
    BY <1>0, <2>1, FS_Subset, FS_CardinalityType
  <2>3. Cardinality(upTo(k)) # 0
    BY <2>1, <2>2, FS_EmptySet
  <2> QED
    BY <1>0, <2>2, <2>3
<1>2. ASSUME NEW k \in S, NEW m \in S, k < m PROVE Cardinality(upTo(k)) # Cardinality(upTo(m))
  <2>0. k \in Nat /\ m \in Nat /\ m <= m /\ ~(m <= k) /\ \A j \in Nat : j <= k => j <= m
    BY <1>0, <1>2
  <2>1. upTo(k) \subseteq upTo(m) /\ m \in upTo(m) /\ m \notin upTo(k)
    BY <1>0, <2>0
  <2>2. IsFiniteSet(upTo(m))
    BY <1>1
  <2> HIDE DEF upTo
  <2> QED
    BY <2>1, <2>2, FS_Subset
<1>3. ASSUME NEW k \in S, NEW m \in S, Cardinality(upTo(k)) = Cardinality(upTo(m)) PROVE k = m
  <2>1. k \in Nat /\ m \in Nat
    BY <1>0
  <2>2. ~(k < m) /\ ~(m < k)
    <3> HIDE DEF upTo
    <3> QED
      BY <1>2, <1>3
  <2> QED
    BY <2>1, <2>2
<1> DEFINE number == [k \in S |-> Cardinality(upTo(k))]
<1>4. number \in Bijection(S, 1 .. n)
  <2>1. number \in [S -> 1 .. n]
    <3> HIDE DEF upTo
    <3> QED
      BY <1>1
  <2>2. number \in Injection(S, 1 .. n)
    <3> HIDE DEF upTo
    <3> QED
      BY <2>1, <1>3 DEF Injection, IsInjective
  <2>3. Cardinality(1 .. n) = n /\ IsFiniteSet(1 .. n)
    BY <1>0, FS_Interval
  <2>4. number \in Surjection(S, 1 .. n)
    <3> HIDE DEF number
    <3> QED
      BY <1>0, <2>2, <2>3, FS_Injection
  <2> QED
    BY <2>2, <2>4 DEF Bijection
<1>5. ASSUME NEW i \in 1 .. n PROVE f[i] \in S /\ Cardinality(upTo(f[i])) = i
  <2>1. \E k \in S : Cardinality(upTo(k)) = i
    <3>1. \E k \in S : number[k] = i
      <4> HIDE DEF number
      <4> QED
        BY <1>4 DEF Bijection, Surjection
    <3> QED
      BY <3>1
  <2>2. f[i] = CHOOSE k \in S : Cardinality(upTo(k)) = i
    BY DEF Ascending
  <2> HIDE DEF f, upTo
  <2> QED
    BY <2>1, <2>2
<1>6. DOMAIN f = 1 .. n /\ f \in Seq(S)
  <2>1. DOMAIN f = 1 .. n /\ f = [i \in 1 .. n |-> f[i]]
    BY DEF Ascending
  <2> HIDE DEF f, upTo
  <2> QED
    BY <1>0, <1>5, <2>1
<1>7. ASSUME NEW k \in S PROVE k \in ToSet(f)
  <2>1. Cardinality(upTo(k)) \in 1 .. n
    BY <1>1
  <2>2. f[Cardinality(upTo(k))] = k
    <3> HIDE DEF f, upTo
    <3> QED
      BY <1>3, <1>5, <2>1
  <2> HIDE DEF f, upTo
  <2> QED
    BY <1>6, <2>1, <2>2 DEF ToSet
<1> QED
  BY <1>6, <1>7


-----------------------------------------------------------------------------
(* What a node leads to *)

LEMMA HandlesAreFinite == IsFiniteSet(Handles) /\ Handles \subseteq Nat /\ MaxNodes \in Nat
BY TreeBoundsAssumption, FS_Interval DEF Handles, TreeBoundsAssumption

(* The nodes within d steps, for every d. *)
Within(h, next, w) ==
    /\ Reached(h, next) = w[MaxNodes]
    /\ w[0] = {h}
    /\ \A d \in 1 .. MaxNodes : w[d] = w[d - 1] \cup UNION {next[k] : k \in w[d - 1]}

(* The recursive function in Reached exists and is what it says. *)
LEMMA ReachedIs ==
  ASSUME NEW h \in Handles, NEW next \in [Handles -> SUBSET Handles]
  PROVE  \E w \in [0 .. MaxNodes -> SUBSET Handles] : Within(h, next, w)
<1> DEFINE Onward(S) == S \cup UNION {next[k] : k \in S}
           Item(r, i) == Onward(r[i - 1])
           Rest(r, n) == r[0] = {h} /\ \A i \in 1 .. n : r[i] = Item(r, i)
           P(n) == \E r \in [0 .. n -> SUBSET Handles] : Rest(r, n)
           T == {n \in Nat : P(n)}
<1>0. MaxNodes \in Nat
  BY HandlesAreFinite
<1>1. Nat \subseteq T
  <2>1. 0 \in T
    <3>1. [i \in 0 .. 0 |-> {h}] \in [0 .. 0 -> SUBSET Handles]
      OBVIOUS
    <3>2. Rest([i \in 0 .. 0 |-> {h}], 0)
      OBVIOUS
    <3>3. P(0)
      BY <3>1, <3>2
    <3> HIDE DEF P
    <3> QED
      BY <3>3
  <2>2. ASSUME NEW n \in Nat, n \in T PROVE n + 1 \in T
    <3>1. PICK r \in [0 .. n -> SUBSET Handles] : Rest(r, n)
      BY <2>2
    <3> DEFINE new == r[n] \cup UNION {next[k] : k \in r[n]}
               g == [i \in 0 .. n + 1 |-> IF i <= n THEN r[i] ELSE new]
    <3>2. new \in SUBSET Handles
      OBVIOUS
    <3>3. g \in [0 .. n + 1 -> SUBSET Handles]
      <4> HIDE DEF new
      <4> QED
        BY <3>2
    <3>4. g[0] = {h}
      BY <3>1
    <3>5. ASSUME NEW i \in 1 .. n + 1 PROVE g[i] = Item(g, i)
      <4>1. CASE i = n + 1
        <5>1. g[i] = new /\ g[i - 1] = r[n]
          BY <4>1
        <5> HIDE DEF g
        <5> QED
          BY <5>1
      <4>2. CASE i # n + 1
        <5>1. i \in 1 .. n /\ g[i] = r[i] /\ g[i - 1] = r[i - 1]
          BY <4>2
        <5>2. r[i] = Item(r, i)
          BY <3>1, <5>1
        <5> HIDE DEF g
        <5> QED
          BY <5>1, <5>2
      <4> QED
        BY <4>1, <4>2
    <3>6. Rest(g, n + 1)
      BY <3>4, <3>5
    <3> HIDE DEF g, Rest
    <3> QED
      BY <3>3, <3>6
  <2> HIDE DEF T
  <2> QED
    BY <2>1, <2>2, Induction
<1>2. PICK r \in [0 .. MaxNodes -> SUBSET Handles] : Rest(r, MaxNodes)
  BY <1>0, <1>1
<1> DEFINE Body(f) == [d \in 0 .. MaxNodes |->
                          IF d = 0 THEN {h}
                          ELSE LET nearer == f[d - 1]
                               IN  nearer \cup UNION {next[k] : k \in nearer}]
           w == CHOOSE f : f = Body(f)
<1>3. r = Body(r)
  <2>1. ASSUME NEW d \in 0 .. MaxNodes
        PROVE  r[d] = IF d = 0 THEN {h} ELSE Item(r, d)
    <3>1. CASE d = 0
      BY <1>2, <3>1
    <3>2. CASE d # 0
      <4>1. d \in 1 .. MaxNodes
        BY <3>2, <1>0
      <4> QED
        BY <1>2, <3>2, <4>1
    <3> QED
      BY <3>1, <3>2
  <2>2. r = [d \in 0 .. MaxNodes |-> r[d]]
    OBVIOUS
  <2> QED
    BY <2>1, <2>2
<1>4. w = Body(w)
  <2> HIDE DEF Body
  <2> QED
    BY <1>3
<1>5. Reached(h, next) = w[MaxNodes]
  BY DEF Reached
<1>6. w[0] = {h} /\ \A d \in 1 .. MaxNodes : w[d] = Item(w, d)
  <2> HIDE DEF w
  <2>1. \A d \in 0 .. MaxNodes : w[d] = IF d = 0 THEN {h} ELSE Item(w, d)
    BY <1>4
  <2> HIDE DEF Item
  <2> QED
    BY <1>0, <2>1
<1>7. ASSUME NEW d \in 0 .. MaxNodes PROVE w[d] = r[d]
  <2> DEFINE U == {n \in Nat : n <= MaxNodes => w[n] = r[n]}
  <2> HIDE DEF w
  <2>1. 0 \in U
    BY <1>6, <1>2
  <2>2. ASSUME NEW n \in Nat, n \in U PROVE n + 1 \in U
    <3>1. CASE n + 1 <= MaxNodes
      <4>1. n + 1 \in 1 .. MaxNodes /\ n + 1 - 1 = n /\ w[n] = r[n]
        BY <1>0, <3>1, <2>2
      <4>2. w[n + 1] = Item(w, n + 1) /\ r[n + 1] = Item(r, n + 1)
        <5> HIDE DEF Item
        <5> QED
          BY <4>1, <1>6, <1>2
      <4>3. Item(w, n + 1) = Item(r, n + 1)
        <5>1. w[n + 1 - 1] = r[n + 1 - 1]
          BY <4>1
        <5> HIDE DEF Onward
        <5> QED
          BY <5>1
      <4>4. w[n + 1] = r[n + 1]
        <5> HIDE DEF Item
        <5> QED
          BY <4>2, <4>3
      <4> QED
        BY <4>4
    <3> QED
      BY <1>0, <3>1
  <2>3. Nat \subseteq U
    <3> HIDE DEF U
    <3> QED
      BY <2>1, <2>2, Induction
  <2> QED
    BY <1>0, <2>3
<1> HIDE DEF w
<1>8. w[MaxNodes] = r[MaxNodes]
  BY <1>0, <1>7
<1>9. Within(h, next, r)
  BY <1>2, <1>5, <1>8 DEF Within
<1> QED
  BY <1>9

(* A node reaches itself; whatever has it, and with a node all that the     *)
(* node leads to, has all that it reaches; and each of these is the node    *)
(* itself or what one of them leads to.                                     *)
LEMMA ReachedSelf ==
  ASSUME NEW h \in Handles, NEW next \in [Handles -> SUBSET Handles]
  PROVE  h \in Reached(h, next) /\ Reached(h, next) \subseteq Handles
<1>1. PICK w \in [0 .. MaxNodes -> SUBSET Handles] : Within(h, next, w)
  BY ReachedIs
<1> DEFINE T == {n \in Nat : n <= MaxNodes => h \in w[n]}
<1>2. 0 \in T
  BY <1>1 DEF Within
<1>3. ASSUME NEW n \in Nat, n \in T PROVE n + 1 \in T
  <2> SUFFICES ASSUME n + 1 <= MaxNodes PROVE h \in w[n + 1]
    OBVIOUS
  <2>1. n + 1 \in 1 .. MaxNodes /\ n + 1 - 1 = n /\ h \in w[n]
    BY <1>3, HandlesAreFinite
  <2>2. w[n + 1] = w[n + 1 - 1] \cup UNION {next[k] : k \in w[n + 1 - 1]}
    BY <1>1, <2>1 DEF Within
  <2> QED
    BY <2>1, <2>2
<1>4. Nat \subseteq T
  <2> HIDE DEF T
  <2> QED
    BY <1>2, <1>3, Induction
<1>5. MaxNodes \in Nat /\ MaxNodes <= MaxNodes
  BY HandlesAreFinite
<1> QED
  BY <1>1, <1>4, <1>5 DEF Within

LEMMA ReachedStays ==
  ASSUME NEW h \in Handles, NEW next \in [Handles -> SUBSET Handles],
         NEW S, h \in S, \A k \in S \cap Handles : next[k] \subseteq S
  PROVE  Reached(h, next) \subseteq S
<1>1. PICK w \in [0 .. MaxNodes -> SUBSET Handles] : Within(h, next, w)
  BY ReachedIs
<1> DEFINE T == {n \in Nat : n <= MaxNodes => w[n] \subseteq S}
<1>2. 0 \in T
  BY <1>1 DEF Within
<1>3. ASSUME NEW n \in Nat, n \in T PROVE n + 1 \in T
  <2> SUFFICES ASSUME n + 1 <= MaxNodes PROVE w[n + 1] \subseteq S
    OBVIOUS
  <2>1. n + 1 \in 1 .. MaxNodes /\ n + 1 - 1 = n /\ w[n] \subseteq S \cap Handles
    BY <1>3, HandlesAreFinite
  <2>2. w[n + 1] = w[n] \cup UNION {next[k] : k \in w[n]}
    BY <1>1, <2>1 DEF Within
  <2> QED
    BY <2>1, <2>2
<1>4. Nat \subseteq T
  <2> HIDE DEF T
  <2> QED
    BY <1>2, <1>3, Induction
<1>5. MaxNodes \in Nat /\ MaxNodes <= MaxNodes
  BY HandlesAreFinite
<1> QED
  BY <1>1, <1>4, <1>5 DEF Within

LEMMA ReachedFrom ==
  ASSUME NEW h \in Handles, NEW next \in [Handles -> SUBSET Handles],
         NEW k \in Reached(h, next), k # h
  PROVE  \E j \in Reached(h, next) : k \in next[j]
<1>1. PICK w \in [0 .. MaxNodes -> SUBSET Handles] : Within(h, next, w)
  BY ReachedIs
<1> DEFINE From(n) == \A x \in w[n] : x = h \/ \E j \in w[n] : x \in next[j]
           T == {n \in Nat : n <= MaxNodes => From(n)}
<1>2. 0 \in T
  BY <1>1 DEF Within
<1>3. ASSUME NEW n \in Nat, n \in T PROVE n + 1 \in T
  <2> SUFFICES ASSUME n + 1 <= MaxNodes PROVE From(n + 1)
    OBVIOUS
  <2>1. n + 1 \in 1 .. MaxNodes /\ n + 1 - 1 = n /\ From(n)
    BY <1>3, HandlesAreFinite
  <2>2. w[n + 1] = w[n] \cup UNION {next[j] : j \in w[n]}
    BY <1>1, <2>1 DEF Within
  <2> QED
    BY <2>1, <2>2
<1>4. Nat \subseteq T
  <2> HIDE DEF T
  <2> QED
    BY <1>2, <1>3, Induction
<1>5. MaxNodes \in Nat /\ MaxNodes <= MaxNodes
  BY HandlesAreFinite
<1>6. From(MaxNodes)
  BY <1>4, <1>5
<1> QED
  BY <1>1, <1>6 DEF Within

-----------------------------------------------------------------------------
(* The tree and what a request does to it *)

(* Every node has the fields of one, and a parent that has been a node. *)
NodesKnown ==
    /\ DOMAIN tree = Handles
    /\ \A h \in Handles : DOMAIN tree[h] = DOMAIN NoNode
    /\ \A h \in Handles : Exists(h) /\ tree[h].parent # Null =>
          tree[h].parent \in Handles /\ tree[tree[h].parent].kind # "none"

(* What is below a file is a file, an older version, and versions do not    *)
(* go round in a circle.                                                    *)
VersionsBelow ==
    \E rank \in [Handles -> Int] :
        \A h \in Handles : Exists(h) /\ IsFile(tree[h].parent) =>
            IsFile(h) /\ rank[tree[h].parent] < rank[h]

TreeTrue == NodesKnown /\ VersionsBelow

(* A node stays what it is until it is gone, and what is gone stays gone. *)
TreeAges ==
    \A h \in Handles : tree[h].kind # "none" => tree'[h].kind \in {tree[h].kind, "gone"}

NothingGoes == \A h \in Handles : Exists(h) => tree'[h].kind = tree[h].kind

(* The initial tree is numbered downwards, so the handle of a version ranks it. *)
LEMMA InitTreeTrue == TreeInit => TreeTrue
<1> SUFFICES ASSUME TreeInit PROVE TreeTrue
  OBVIOUS
<1>1. tree = InitialTree
  BY DEF TreeInit
<1>2. NodesKnown
  BY <1>1, TreeAssumption, HandlesAreFinite DEF TreeAssumption, NodesKnown, Handles, Null, Exists
<1>3. [h \in Handles |-> h] \in [Handles -> Int]
  BY HandlesAreFinite
<1>4. ASSUME NEW h \in Handles, Exists(h), IsFile(tree[h].parent)
      PROVE  IsFile(h) /\ tree[h].parent < h /\ tree[h].parent \in Handles
  BY <1>1, <1>4, TreeAssumption, HandlesAreFinite
     DEF TreeAssumption, Handles, Null, Exists, IsFile
<1>5. VersionsBelow
  BY <1>3, <1>4 DEF VersionsBelow
<1> QED
  BY <1>2, <1>5 DEF TreeTrue

(* The versions stay in a line when each has the parent that it had, or the *)
(* parent of that one, and one file at most is below a new one.             *)
LEMMA VersionsStay ==
  ASSUME TreeTrue, NEW new, NEW old,
         \A h \in Handles : Exists(h)' /\ IsFile(tree[h].parent)' =>
            /\ IsFile(h)' /\ h # new
            /\ \/ h = old /\ tree'[h].parent = new
               \/ /\ tree'[h].parent # new /\ Exists(h) /\ IsFile(tree[h].parent)
                  /\ \/ tree'[h].parent = tree[h].parent
                     \/ /\ IsFile(tree[tree[h].parent].parent)
                        /\ tree'[h].parent = tree[tree[h].parent].parent
  PROVE  VersionsBelow'
<1>1. PICK rank \in [Handles -> Int] :
         \A h \in Handles : Exists(h) /\ IsFile(tree[h].parent) =>
            IsFile(h) /\ rank[tree[h].parent] < rank[h]
  BY DEF TreeTrue, VersionsBelow
<1> DEFINE low == IF old \in Handles THEN rank[old] - 1 ELSE 0
           ranks == [h \in Handles |-> IF h = new THEN low ELSE rank[h]]
<1>2. low \in Int /\ (old \in Handles => low < rank[old])
  OBVIOUS
<1>3. ranks \in [Handles -> Int]
  BY <1>2
<1>4. ASSUME NEW h \in Handles, Exists(h)', IsFile(tree[h].parent)'
      PROVE  IsFile(h)' /\ ranks[tree'[h].parent] < ranks[h]
  <2>1. IsFile(h)' /\ h # new /\ ranks[h] = rank[h] /\ tree'[h].parent \in Handles
    BY <1>4 DEF IsFile, Exists
  <2> HIDE DEF low
  <2>2. CASE h = old /\ tree'[h].parent = new
    BY <1>2, <2>1, <2>2
  <2>3. CASE /\ tree'[h].parent # new /\ Exists(h) /\ IsFile(tree[h].parent)
             /\ tree'[h].parent = tree[h].parent
    BY <1>1, <2>1, <2>3
  <2>4. CASE /\ tree'[h].parent # new /\ Exists(h) /\ IsFile(tree[h].parent)
             /\ IsFile(tree[tree[h].parent].parent)
             /\ tree'[h].parent = tree[tree[h].parent].parent
    <3>1. PICK p \in Handles : p = tree[h].parent
      BY <2>4 DEF IsFile, Exists
    <3>2. PICK q \in Handles : q = tree[p].parent
      BY <2>4, <3>1 DEF IsFile, Exists
    <3>3. rank[p] < rank[h] /\ rank[q] < rank[p]
      BY <1>1, <2>4, <3>1, <3>2 DEF IsFile
    <3>4. rank[p] \in Int /\ rank[q] \in Int /\ rank[h] \in Int
      OBVIOUS
    <3>5. rank[q] < rank[h]
      BY <3>3, <3>4
    <3> QED
      BY <2>1, <2>4, <3>1, <3>2, <3>5
  <2> QED
    BY <1>4, <2>2, <2>3, <2>4
<1> HIDE DEF ranks
<1> QED
  BY <1>3, <1>4 DEF VersionsBelow

(* A node that is moved is a file or a folder in a folder. *)
LEMMA MovedKeeps ==
  ASSUME TreeTrue, NEW h, NEW to, CanMove(h, to), tree' = Moved(h, to)
  PROVE  /\ TreeTrue' /\ TreeAges /\ NothingGoes
         /\ tree'[h].parent = to /\ Exists(h)' /\ IsFolder(to)'
<1>1. /\ h \in Handles /\ to \in Handles /\ Exists(h) /\ IsFolder(to) /\ to # Null
      /\ DOMAIN tree[h] = DOMAIN NoNode /\ DOMAIN tree = Handles
  BY HandlesAreFinite DEF CanMove, Movable, IsFolder, Exists, TreeTrue, NodesKnown, Handles, Null
<1>2. /\ DOMAIN tree' = Handles /\ DOMAIN tree'[h] = DOMAIN NoNode
      /\ tree'[h].parent = to /\ tree'[h].kind = tree[h].kind
      /\ \A k \in Handles \ {h} : tree'[k] = tree[k]
  BY <1>1 DEF Moved, NoNode
<1>3. \A k \in Handles : tree'[k].kind = tree[k].kind
  BY <1>2
<1>4. NodesKnown'
  BY <1>1, <1>2, <1>3 DEF TreeTrue, NodesKnown, Exists, IsFolder
<1>5. VersionsBelow'
  <2>1. \A k \in Handles : Exists(k)' /\ IsFile(tree[k].parent)' =>
            /\ IsFile(k)' /\ k # Null /\ tree'[k].parent # Null
            /\ Exists(k) /\ IsFile(tree[k].parent) /\ tree'[k].parent = tree[k].parent
    <3> SUFFICES ASSUME NEW k \in Handles, Exists(k)', IsFile(tree[k].parent)'
                 PROVE  /\ IsFile(k)' /\ k # Null /\ tree'[k].parent # Null
                        /\ Exists(k) /\ IsFile(tree[k].parent) /\ tree'[k].parent = tree[k].parent
      OBVIOUS
    <3>1. k # h
      BY <1>1, <1>2, <1>3 DEF IsFolder, IsFile, Exists
    <3>2. Exists(k) /\ tree'[k] = tree[k] /\ IsFile(tree[k].parent)
      BY <1>2, <1>3, <3>1 DEF Exists, IsFile
    <3>3. IsFile(k)
      BY <3>2 DEF TreeTrue, VersionsBelow
    <3> QED
      BY <3>2, <3>3, HandlesAreFinite DEF IsFile, Exists, Handles, Null
  <2> QED
    BY <2>1, VersionsStay
<1> QED
  BY <1>1, <1>2, <1>3, <1>4, <1>5 DEF TreeTrue, TreeAges, NothingGoes, Exists, IsFolder, IsFile

(* Requests that leave every node where it is. *)
LEMMA InPlaceKeeps ==
  ASSUME TreeTrue, DOMAIN tree' = Handles,
         \A k \in Handles : /\ DOMAIN tree'[k] = DOMAIN tree[k]
                            /\ tree'[k].kind = tree[k].kind /\ tree'[k].parent = tree[k].parent
  PROVE  TreeTrue' /\ TreeAges /\ NothingGoes
<1>1. NodesKnown'
  BY DEF TreeTrue, NodesKnown, Exists
<1>2. \A k : Exists(k)' <=> Exists(k)
  BY DEF Exists
<1>3. \A k : IsFile(k)' <=> IsFile(k)
  BY <1>2 DEF IsFile, Exists
<1>4. VersionsBelow'
  <2>1. PICK rank \in [Handles -> Int] :
           \A h \in Handles : Exists(h) /\ IsFile(tree[h].parent) =>
              IsFile(h) /\ rank[tree[h].parent] < rank[h]
    BY DEF TreeTrue, VersionsBelow
  <2>2. ASSUME NEW h \in Handles, Exists(h)', IsFile(tree[h].parent)'
        PROVE  IsFile(h)' /\ rank[tree'[h].parent] < rank[h]
    <3>1. Exists(h) /\ tree'[h].parent = tree[h].parent
      BY <1>2, <2>2
    <3>2. IsFile(tree[h].parent)
      BY <1>3, <2>2, <3>1 DEF IsFile, Exists
    <3> QED
      BY <1>3, <2>1, <3>1, <3>2
  <2> QED
    BY <2>1, <2>2 DEF VersionsBelow
<1> QED
  BY <1>1, <1>4 DEF TreeTrue, TreeAges, NothingGoes

(* The smallest of some handles is one of them. *)
LEMMA LeastIs ==
  ASSUME NEW S \in SUBSET Handles, S # {}
  PROVE  Smallest(S) \in S
<1>1. S \subseteq Nat
  BY HandlesAreFinite
<1>2. \E k \in S : \A j \in S : k <= j
  <2> SUFFICES ASSUME \A k \in S : \E j \in S : ~(k <= j) PROVE FALSE
    OBVIOUS
  <2> DEFINE T == {n \in Nat : \A k \in S : n <= k}
  <2>1. 0 \in T
    BY <1>1
  <2>2. ASSUME NEW n \in Nat, n \in T PROVE n + 1 \in T
    <3> SUFFICES ASSUME NEW k \in S, ~(n + 1 <= k) PROVE FALSE
      OBVIOUS
    <3>1. k = n
      BY <1>1, <2>2
    <3>2. PICK j \in S : ~(k <= j)
      OBVIOUS
    <3> QED
      BY <2>2, <3>1, <3>2
  <2>3. Nat \subseteq T
    <3> HIDE DEF T
    <3> QED
      BY <2>1, <2>2, Induction
  <2>4. PICK k \in S : TRUE
    OBVIOUS
  <2>5. k \in Nat /\ k + 1 \in Nat /\ ~(k + 1 <= k)
    BY <1>1
  <2> QED
    BY <2>3, <2>5
<1> QED
  BY <1>2 DEF Smallest

(* A new handle has never been a node. *)
LEMMA FreshHandle ==
  ASSUME Unused # {}
  PROVE  NewHandle \in Handles /\ tree[NewHandle].kind = "none" /\ ~Exists(NewHandle)
<1>1. Unused \in SUBSET Handles
  BY DEF Unused
<1>2. NewHandle \in Unused
  BY <1>1, LeastIs DEF NewHandle
<1>3. NewHandle \in Handles /\ tree[NewHandle] = NoNode
  BY <1>2 DEF Unused
<1>4. NoNode.kind = "none"
  BY DEF NoNode
<1> QED
  BY <1>3, <1>4 DEF Exists

(* A new folder is in a folder, and has nothing below it. *)
LEMMA CreatedKeeps ==
  ASSUME TreeTrue, NEW h, NEW name, CanCreate(h, name), tree' = Created(h, name)
  PROVE  TreeTrue' /\ TreeAges /\ NothingGoes
<1>1. PICK new \in Handles : new = NewHandle /\ tree[new].kind = "none" /\ ~Exists(new)
  BY FreshHandle DEF CanCreate
<1>2. h \in Handles /\ IsFolder(h) /\ DOMAIN tree = Handles
  BY DEF CanCreate, IsFolder, Exists, TreeTrue, NodesKnown
<1>3. /\ DOMAIN tree' = Handles /\ DOMAIN tree'[new] = DOMAIN NoNode
      /\ tree'[new].kind = "folder" /\ tree'[new].parent = h
      /\ \A k \in Handles \ {new} : tree'[k] = tree[k]
  BY <1>1, <1>2 DEF Created, NoNode
<1>4. \A k \in Handles : tree[k].kind # "none" => k # new
  BY <1>1
<1>5. NodesKnown'
  BY <1>2, <1>3, <1>4 DEF TreeTrue, NodesKnown, Exists, IsFolder
<1>6. VersionsBelow'
  <2>1. \A k \in Handles : Exists(k)' /\ IsFile(tree[k].parent)' =>
            /\ IsFile(k)' /\ k # Null /\ tree'[k].parent # Null
            /\ Exists(k) /\ IsFile(tree[k].parent) /\ tree'[k].parent = tree[k].parent
    <3> SUFFICES ASSUME NEW k \in Handles, Exists(k)', IsFile(tree[k].parent)'
                 PROVE  /\ IsFile(k)' /\ k # Null /\ tree'[k].parent # Null
                        /\ Exists(k) /\ IsFile(tree[k].parent) /\ tree'[k].parent = tree[k].parent
      OBVIOUS
    <3>0. h # new
      BY <1>1, <1>2 DEF IsFolder
    <3>1. k # new
      BY <1>2, <1>3, <3>0 DEF IsFolder, IsFile, Exists
    <3>2. Exists(k) /\ tree'[k] = tree[k] /\ tree'[k].parent \in Handles
      BY <1>3, <3>1 DEF Exists, IsFile
    <3>3. tree'[k].parent # new
      BY <1>3 DEF IsFile
    <3>4. IsFile(tree[k].parent)
      BY <1>3, <3>2, <3>3 DEF Exists, IsFile
    <3>5. IsFile(k)
      BY <3>2, <3>4 DEF TreeTrue, VersionsBelow
    <3>6. IsFile(k)'
      BY <3>2, <3>5 DEF IsFile, Exists
    <3> QED
      BY <3>2, <3>4, <3>6, HandlesAreFinite DEF Handles, Null
  <2> QED
    BY <2>1, VersionsStay
<1> QED
  BY <1>1, <1>3, <1>5, <1>6 DEF TreeTrue, TreeAges, NothingGoes

(* Below a file there are its older versions and nothing else. *)
LEMMA SubtreeOfFile ==
  ASSUME TreeTrue, NEW h, IsFile(h), NEW k \in Subtree(h)
  PROVE  IsFile(k) /\ (k = h \/ IsFile(tree[k].parent))
<1> DEFINE next == [j \in Handles |-> Below(j)]
           S == {j \in Handles : IsFile(j) /\ (j = h \/ IsFile(tree[j].parent))}
<1>1. h \in Handles /\ Exists(h) /\ next \in [Handles -> SUBSET Handles]
  BY DEF IsFile, Exists, Below
<1>2. k \in Reached(h, next)
  BY <1>1 DEF Subtree
<1>3. h \in S
  BY <1>1
<1>4. ASSUME NEW j \in S \cap Handles PROVE next[j] \subseteq S
  <2> SUFFICES ASSUME NEW x \in Below(j) PROVE x \in S
    OBVIOUS
  <2>1. x \in Handles /\ Exists(x) /\ tree[x].parent = j /\ IsFile(j)
    BY <1>4 DEF Below
  <2>2. IsFile(x)
    BY <2>1 DEF TreeTrue, VersionsBelow
  <2> QED
    BY <2>1, <2>2
<1> HIDE DEF next, S
<1>5. Reached(h, next) \subseteq S
  BY <1>1, <1>3, <1>4, ReachedStays
<1> QED
  BY <1>2, <1>5 DEF S

(* Nodes that go take none of the others with them. *)
LEMMA GoingKeeps ==
  ASSUME TreeTrue, NEW S,
         tree' = [k \in Handles |-> IF k \in S THEN GoneNode ELSE tree[k]]
  PROVE  /\ TreeTrue' /\ TreeAges
         /\ \A k \in Handles : Exists(k) /\ tree'[k].kind = "gone" => k \in S
<1>1. /\ DOMAIN tree' = Handles
      /\ \A k \in Handles : k \in S => tree'[k] = GoneNode
      /\ \A k \in Handles : k \notin S => tree'[k] = tree[k]
  OBVIOUS
<1>2. GoneNode.kind = "gone" /\ GoneNode.parent = Null /\ DOMAIN GoneNode = DOMAIN NoNode
  BY DEF GoneNode, NoNode
<1>3. \A k : Exists(k)' => Exists(k) /\ tree'[k] = tree[k] /\ k \in Handles
  BY <1>1, <1>2 DEF Exists
<1>4. \A k \in Handles : tree[k].kind # "none" => tree'[k].kind # "none"
  BY <1>1, <1>2
<1>5. NodesKnown'
  BY <1>1, <1>2, <1>3, <1>4 DEF TreeTrue, NodesKnown
<1>6. VersionsBelow'
  <2>1. \A k \in Handles : Exists(k)' /\ IsFile(tree[k].parent)' =>
            /\ IsFile(k)' /\ k # Null /\ tree'[k].parent # Null
            /\ Exists(k) /\ IsFile(tree[k].parent) /\ tree'[k].parent = tree[k].parent
    <3> SUFFICES ASSUME NEW k \in Handles, Exists(k)', IsFile(tree[k].parent)'
                 PROVE  /\ IsFile(k)' /\ k # Null /\ tree'[k].parent # Null
                        /\ Exists(k) /\ IsFile(tree[k].parent) /\ tree'[k].parent = tree[k].parent
      OBVIOUS
    <3>1. Exists(k) /\ tree'[k] = tree[k]
      BY <1>3
    <3>2. Exists(tree[k].parent)' /\ tree'[tree'[k].parent].kind = "file"
      BY DEF IsFile
    <3>3. IsFile(tree[k].parent)
      BY <1>3, <3>1, <3>2 DEF IsFile, Exists
    <3>4. IsFile(k)
      BY <3>1, <3>3 DEF TreeTrue, VersionsBelow
    <3>5. IsFile(k)' /\ tree'[k].parent \in Handles
      BY <3>1, <3>2, <3>4 DEF IsFile, Exists
    <3> QED
      BY <3>1, <3>3, <3>5, HandlesAreFinite DEF Handles, Null
  <2> QED
    BY <2>1, VersionsStay
<1> QED
  BY <1>1, <1>2, <1>5, <1>6 DEF TreeTrue, TreeAges, Exists

(* A node goes with what is below it. *)
LEMMA RemovedKeeps ==
  ASSUME TreeTrue, NEW h, tree' = Removed(h)
  PROVE  /\ TreeTrue' /\ TreeAges
         /\ \A k \in Handles : Exists(k) /\ tree'[k].kind = "gone" => k \in Subtree(h)
<1>1. tree' = [k \in Handles |-> IF k \in Subtree(h) THEN GoneNode ELSE tree[k]]
  BY DEF Removed
<1> QED
  BY <1>1, GoingKeeps

(* A version goes alone; taking out an older one makes no other one current. *)
LEMMA VersionRemovedKeeps ==
  ASSUME TreeTrue, NEW h, Movable(h), tree' = VersionRemoved(h)
  PROVE  /\ TreeTrue' /\ TreeAges
         /\ \A k \in Handles : Exists(k) /\ tree'[k].kind = "gone" => k = h
         /\ ~Current(h) => \A k \in Handles : Exists(k)' /\ ~Current(k) => ~Current(k)'
<1>0. h \in Handles /\ Exists(h)
  BY DEF Movable, Exists
<1> DEFINE S == {k \in Handles : k # h /\ Exists(k) /\ tree[k].parent = h}
<1>1. /\ DOMAIN tree' = Handles /\ tree'[h] = GoneNode
      /\ \A k \in S : tree'[k] = [tree[k] EXCEPT !.parent = tree[h].parent]
      /\ \A k \in Handles : k # h /\ k \notin S => tree'[k] = tree[k]
  BY <1>0 DEF VersionRemoved
<1>2. GoneNode.kind = "gone" /\ GoneNode.parent = Null /\ DOMAIN GoneNode = DOMAIN NoNode
  BY DEF GoneNode, NoNode
<1>3. \A k \in Handles : DOMAIN tree[k] = DOMAIN NoNode
  BY DEF TreeTrue, NodesKnown
<1>4. \A k \in S : /\ DOMAIN tree'[k] = DOMAIN NoNode /\ tree'[k].kind = tree[k].kind
                   /\ tree'[k].parent = tree[h].parent
  BY <1>1, <1>3 DEF NoNode
<1>5. \A k \in Handles : k # h => tree'[k].kind = tree[k].kind
  BY <1>1, <1>4
<1>6. \A k : Exists(k)' => k # h /\ Exists(k) /\ k \in Handles
  BY <1>1, <1>2, <1>5 DEF Exists
<1>7. \A k \in Handles : tree[k].kind # "none" => tree'[k].kind # "none"
  BY <1>1, <1>2, <1>5
<1>8. NodesKnown'
  <2>1. \A k \in Handles : DOMAIN tree'[k] = DOMAIN NoNode
    BY <1>1, <1>2, <1>3, <1>4
  <2>2. ASSUME NEW k \in Handles, Exists(k)', tree'[k].parent # Null
        PROVE  tree'[k].parent \in Handles /\ tree'[tree'[k].parent].kind # "none"
    <3>1. CASE k \in S
      BY <1>0, <1>4, <1>7, <2>2, <3>1 DEF TreeTrue, NodesKnown
    <3>2. CASE k \notin S
      BY <1>1, <1>6, <1>7, <2>2, <3>2 DEF TreeTrue, NodesKnown
    <3> QED
      BY <3>1, <3>2
  <2> QED
    BY <1>1, <2>1, <2>2 DEF NodesKnown
<1>9. \A k \in Handles : IsFile(k)' <=> IsFile(k) /\ k # h
  BY <1>5, <1>6 DEF IsFile, Exists
<1>10. VersionsBelow'
  <2>1. \A k \in Handles : Exists(k)' /\ IsFile(tree[k].parent)' =>
            /\ IsFile(k)' /\ k # Null /\ tree'[k].parent # Null
            /\ Exists(k) /\ IsFile(tree[k].parent)
            /\ \/ tree'[k].parent = tree[k].parent
               \/ /\ IsFile(tree[tree[k].parent].parent)
                  /\ tree'[k].parent = tree[tree[k].parent].parent
    <3> SUFFICES ASSUME NEW k \in Handles, Exists(k)', IsFile(tree[k].parent)'
                 PROVE  /\ IsFile(k)' /\ k # Null /\ tree'[k].parent # Null
                        /\ Exists(k) /\ IsFile(tree[k].parent)
                        /\ \/ tree'[k].parent = tree[k].parent
                           \/ /\ IsFile(tree[tree[k].parent].parent)
                              /\ tree'[k].parent = tree[tree[k].parent].parent
      OBVIOUS
    <3>1. PICK p \in Handles : p = tree'[k].parent /\ IsFile(p)'
      BY DEF IsFile, Exists
    <3>2. Exists(k) /\ k # h /\ IsFile(p) /\ p # h
      BY <1>6, <1>9, <3>1
    <3>3. p # Null /\ k # Null
      BY HandlesAreFinite DEF Handles, Null
    <3>4. CASE k \in S
      <4>1. tree[k].parent = h /\ tree[h].parent = p
        BY <1>4, <3>1, <3>4
      <4>2. IsFile(h)
        BY <1>0, <3>2, <4>1 DEF TreeTrue, VersionsBelow
      <4>3. IsFile(k)
        BY <3>2, <4>1, <4>2 DEF TreeTrue, VersionsBelow
      <4> QED
        BY <1>9, <3>1, <3>2, <3>3, <4>1, <4>2, <4>3
    <3>5. CASE k \notin S
      <4>1. tree[k].parent = p
        BY <1>1, <3>1, <3>2, <3>5
      <4>2. IsFile(k)
        BY <3>2, <4>1 DEF TreeTrue, VersionsBelow
      <4> QED
        BY <1>9, <3>1, <3>2, <3>3, <4>1, <4>2
    <3> QED
      BY <3>4, <3>5
  <2> QED
    BY <2>1, VersionsStay
<1>11. ASSUME ~Current(h), NEW k \in Handles, Exists(k)', ~Current(k) PROVE ~Current(k)'
  <2>1. Exists(k) /\ k # h /\ IsFile(tree[k].parent) /\ IsFile(tree[h].parent)
    BY <1>0, <1>6, <1>11 DEF Current
  <2>2. PICK p \in Handles : p = tree[h].parent /\ IsFile(p) /\ p # h
    <3>1. PICK rank \in [Handles -> Int] : IsFile(tree[h].parent) => rank[tree[h].parent] < rank[h]
      BY <1>0 DEF TreeTrue, VersionsBelow
    <3>2. tree[h].parent \in Handles
      BY <2>1 DEF IsFile, Exists
    <3> QED
      BY <1>0, <2>1, <3>1, <3>2
  <2>3. IsFile(tree'[k].parent) /\ tree'[k].parent # h /\ tree'[k].parent \in Handles
    <3>1. CASE k \in S
      BY <1>4, <2>2, <3>1
    <3>2. CASE k \notin S
      BY <1>1, <2>1, <3>2 DEF IsFile, Exists
    <3> QED
      BY <3>1, <3>2
  <2>4. IsFile(tree[k].parent)'
    <3>1. PICK q \in Handles : q = tree'[k].parent /\ IsFile(q) /\ q # h
      BY <2>3
    <3> QED
      BY <1>9, <3>1
  <2> QED
    BY <2>4 DEF Current
<1> HIDE DEF S
<1> QED
  BY <1>1, <1>2, <1>5, <1>8, <1>10, <1>11 DEF TreeTrue, TreeAges, Exists


(* What the copy of a folder takes. *)
LEMMA ContentsAre ==
  ASSUME NEW h, Exists(h)
  PROVE  /\ h \in Contents(h)
         /\ \A k \in Contents(h) :
               /\ k \in Handles /\ Exists(k)
               /\ k = h \/ (tree[k].parent \in Contents(h) /\ IsFolder(tree[k].parent))
<1> DEFINE next == [j \in Handles |-> getChildren(j)]
<1>1. h \in Handles /\ next \in [Handles -> SUBSET Handles]
  BY DEF Exists, getChildren, Below
<1>2. Contents(h) = Reached(h, next)
  BY DEF Contents
<1>3. ASSUME NEW j \in Handles, NEW k \in next[j]
      PROVE  Exists(k) /\ tree[k].parent = j /\ IsFolder(j)
  BY <1>3 DEF getChildren, Below, IsFolder
<1> HIDE DEF next
<1>4. h \in Contents(h) /\ Contents(h) \subseteq Handles
  BY <1>1, <1>2, ReachedSelf
<1>5. ASSUME NEW k \in Contents(h), k # h
      PROVE  Exists(k) /\ tree[k].parent \in Contents(h) /\ IsFolder(tree[k].parent)
  <2>1. PICK j \in Contents(h) : k \in next[j]
    BY <1>1, <1>2, <1>5, ReachedFrom
  <2> QED
    BY <1>3, <1>4, <2>1
<1> QED
  BY <1>4, <1>5

(* What an upload or a copy replaces is a file of that folder. *)
LEMMA ReplacedIs ==
  ASSUME NEW to, NEW name
  PROVE  \/ Replaced(to, name) = Null
         \/ /\ Replaced(to, name) \in Handles
            /\ IsFile(Replaced(to, name)) /\ tree[Replaced(to, name)].parent = to
<1> DEFINE S == {k \in getChildren(to) : IsFile(k) /\ tree[k].name = name}
<1>1. S \in SUBSET Handles
  BY DEF getChildren, Below
<1>2. Replaced(to, name) = Smallest(S)
  BY DEF Replaced
<1>3. \A k \in S : IsFile(k) /\ tree[k].parent = to
  BY DEF getChildren, Below
<1> HIDE DEF S
<1>4. CASE S = {}
  BY <1>2, <1>4 DEF Smallest
<1>5. CASE S # {}
  BY <1>1, <1>2, <1>3, <1>5, LeastIs
<1> QED
  BY <1>4, <1>5

(* A copy takes unused handles and stands in its folder; a file that has the  *)
(* name becomes its older version.                                           *)
LEMMA CopiedKeeps ==
  ASSUME TreeTrue, NEW h, NEW to, NEW name, CanCopy(h, to), tree' = Copied(h, to, name),
         NEW new, new = CopyHandle(h, to, name)
  PROVE  /\ TreeTrue' /\ TreeAges /\ NothingGoes
         /\ Exists(new)' /\ tree'[new].parent = to /\ IsFolder(to)'
<1>0. /\ h \in Handles /\ Exists(h) /\ IsFolder(to) /\ to \in Handles
      /\ Places(h) # {} /\ DOMAIN tree = Handles
      /\ \A k \in Handles : DOMAIN tree[k] = DOMAIN NoNode
  BY DEF CanCopy, Movable, IsFolder, Exists, TreeTrue, NodesKnown
<1>1. CASE IsSame(h, to, name)
  <2>1. tree' = tree /\ new = Replaced(to, name) /\ IsFile(new)
    BY <1>1 DEF Copied, CopyHandle, IsSame
  <2>2. new # Null
    BY <2>1, HandlesAreFinite DEF IsFile, Exists, Handles, Null
  <2>3. IsFile(new) /\ tree[new].parent = to
    BY <2>1, <2>2, ReplacedIs
  <2>4. Exists(new)' /\ IsFolder(to)'
    BY <1>0, <2>1, <2>3 DEF IsFile, Exists, IsFolder
  <2>5. TreeTrue' /\ TreeAges /\ NothingGoes
    BY <1>0, <2>1, InPlaceKeeps
  <2> QED
    BY <2>1, <2>3, <2>4, <2>5
<1>2. CASE ~IsSame(h, to, name)
  <2>1. PICK fresh, contents : /\ fresh = FreshFor(h) /\ contents = Contents(h)
    OBVIOUS
  <2>2. /\ fresh \in [contents -> Unused]
        /\ \A j, k \in contents : fresh[j] = fresh[k] => j = k
    <3>1. fresh \in Places(h)
      BY <1>0, <2>1 DEF FreshFor
    <3> QED
      BY <2>1, <3>1 DEF Places, Injection, IsInjective
  <2>3. /\ h \in contents
        /\ \A k \in contents : /\ k \in Handles /\ Exists(k)
                               /\ k = h \/ (tree[k].parent \in contents /\ IsFolder(tree[k].parent))
    <3>1. /\ h \in Contents(h)
          /\ \A k \in Contents(h) :
               /\ k \in Handles /\ Exists(k)
               /\ k = h \/ (tree[k].parent \in Contents(h) /\ IsFolder(tree[k].parent))
      BY <1>0, ContentsAre
    <3> QED
      BY <2>1, <3>1
  <2>4. \A f \in Unused : f \in Handles /\ tree[f].kind = "none" /\ ~Exists(f)
    <3>1. \A f \in Unused : f \in Handles /\ tree[f] = NoNode
      BY DEF Unused
    <3>2. NoNode.kind = "none"
      BY DEF NoNode
    <3> QED
      BY <3>1, <3>2 DEF Exists
  <2>5. PICK old : /\ old = IF IsFile(h) THEN Replaced(to, name) ELSE Null
                   /\ old = Null \/ (old \in Handles /\ IsFile(old))
    BY ReplacedIs
  <2>6. new = fresh[h]
    BY <1>2, <2>1 DEF CopyHandle
  <2> DEFINE copy(k) == [tree[k] EXCEPT !.parent = IF k = h THEN to ELSE fresh[@],
                                        !.name = IF k = h THEN name ELSE @,
                                        !.link = FALSE, !.users = {}]
             image == {fresh[k] : k \in contents}
  <2>7. tree' = [f \in Handles |->
                   IF \E k \in DOMAIN fresh : fresh[k] = f
                     THEN copy(CHOOSE k \in DOMAIN fresh : fresh[k] = f)
                   ELSE IF f = old THEN [tree[f] EXCEPT !.parent = fresh[h]]
                   ELSE tree[f]]
    <3>1. tree' = WithCopies(h, to, name, fresh, old)
      BY <1>2, <2>1, <2>5 DEF Copied
    <3> QED
      BY <3>1 DEF WithCopies
  <2>8. ASSUME NEW k \in contents
        PROVE  /\ fresh[k] \in Unused /\ tree'[fresh[k]].kind = tree[k].kind
               /\ DOMAIN tree'[fresh[k]] = DOMAIN NoNode
               /\ tree'[fresh[k]].parent = IF k = h THEN to ELSE fresh[tree[k].parent]
    <3>1. fresh[k] \in Unused /\ fresh[k] \in Handles
      BY <2>2, <2>4
    <3>2. (CHOOSE j \in DOMAIN fresh : fresh[j] = fresh[k]) = k
      BY <2>2
    <3>3. tree'[fresh[k]] = copy(k)
      <4> HIDE DEF copy
      <4> QED
        BY <2>2, <2>7, <3>1, <3>2
    <3>4. k \in Handles /\ DOMAIN tree[k] = DOMAIN NoNode
      BY <1>0, <2>3
    <3> QED
      BY <3>1, <3>3, <3>4 DEF NoNode
  <2>9. ASSUME NEW f \in Handles, f \notin image
        PROVE  /\ tree'[f].kind = tree[f].kind /\ DOMAIN tree'[f] = DOMAIN NoNode
               /\ IF f = old THEN tree'[f].parent = fresh[h] ELSE tree'[f] = tree[f]
    <3>1. ~\E k \in DOMAIN fresh : fresh[k] = f
      BY <2>2, <2>9
    <3>3. tree'[f] = IF f = old THEN [tree[f] EXCEPT !.parent = fresh[h]] ELSE tree[f]
      <4> HIDE DEF copy
      <4> QED
        BY <2>7, <3>1
    <3> QED
      BY <1>0, <3>3 DEF NoNode
  <2>10. DOMAIN tree' = Handles
    BY <2>7
  <2>11. \A f \in image : f \in Handles /\ tree[f].kind = "none" /\ ~Exists(f)
    BY <2>2, <2>4
  <2>12. \A f \in image : \E k \in contents : f = fresh[k]
    OBVIOUS
  <2> HIDE DEF image, copy
  <2>13. \A f \in Handles : tree[f].kind # "none" => f \notin image /\ tree'[f].kind = tree[f].kind
    BY <2>9, <2>11
  <2>14. \A f \in image : DOMAIN tree'[f] = DOMAIN NoNode
    BY <2>8, <2>12
  <2>15. \A k \in contents : tree[k].kind \notin {"none", "gone"} /\ tree'[fresh[k]].kind = tree[k].kind
    BY <2>3, <2>8 DEF Exists
  <2>16. NodesKnown'
    <3>1. \A f \in Handles : DOMAIN tree'[f] = DOMAIN NoNode
      BY <2>9, <2>14
    <3>2. ASSUME NEW f \in Handles, Exists(f)', tree'[f].parent # Null
          PROVE  tree'[f].parent \in Handles /\ tree'[tree'[f].parent].kind # "none"
      <4>1. CASE f \in image
        <5>1. PICK k \in contents : f = fresh[k]
          BY <2>12, <4>1
        <5>2. CASE k = h
          <6>1. tree'[f].parent = to /\ tree[to].kind # "none"
            BY <1>0, <2>8, <5>1, <5>2 DEF IsFolder, Exists
          <6> QED
            BY <1>0, <2>13, <6>1
        <5>3. CASE k # h
          <6>1. PICK p \in contents : p = tree[k].parent
            BY <2>3, <5>3
          <6>2. tree'[f].parent = fresh[p] /\ fresh[p] \in Handles
            BY <2>2, <2>4, <2>8, <5>1, <5>3, <6>1
          <6> QED
            BY <2>15, <6>2
        <5> QED
          BY <5>2, <5>3
      <4>2. CASE f \notin image /\ f = old
        <5>1. tree'[f].parent = fresh[h] /\ fresh[h] \in Handles
          BY <2>2, <2>3, <2>4, <2>9, <4>2
        <5> QED
          BY <2>3, <2>15, <5>1
      <4>3. CASE f \notin image /\ f # old
        <5>1. tree'[f] = tree[f] /\ Exists(f)
          BY <2>9, <3>2, <4>3 DEF Exists
        <5>2. tree[f].parent \in Handles /\ tree[tree[f].parent].kind # "none"
          BY <3>2, <5>1 DEF TreeTrue, NodesKnown
        <5> QED
          BY <2>13, <5>1, <5>2
      <4> QED
        BY <4>1, <4>2, <4>3
    <3> QED
      BY <2>10, <3>1, <3>2 DEF NodesKnown
  <2>17. VersionsBelow'
    <3>1. \A f \in Handles : Exists(f)' /\ IsFile(tree[f].parent)' =>
            /\ IsFile(f)' /\ f # fresh[h]
            /\ \/ f = old /\ tree'[f].parent = fresh[h]
               \/ /\ tree'[f].parent # fresh[h] /\ Exists(f) /\ IsFile(tree[f].parent)
                  /\ tree'[f].parent = tree[f].parent
      <4> SUFFICES ASSUME NEW f \in Handles, Exists(f)', IsFile(tree[f].parent)'
                   PROVE  /\ IsFile(f)' /\ f # fresh[h]
                          /\ \/ f = old /\ tree'[f].parent = fresh[h]
                             \/ /\ tree'[f].parent # fresh[h] /\ Exists(f) /\ IsFile(tree[f].parent)
                                /\ tree'[f].parent = tree[f].parent
        OBVIOUS
      <4>0. tree'[f].parent \in Handles /\ tree'[tree'[f].parent].kind = "file"
        BY DEF IsFile, Exists
      <4>1. fresh[h] \in image
        BY <2>3 DEF image
      <4>2. CASE f \in image
        <5>1. PICK k \in contents : f = fresh[k]
          BY <2>12, <4>2
        <5>2. CASE k = h
          <6>1. tree'[f].parent = to /\ tree[to].kind \notin {"none", "file"}
            BY <1>0, <2>8, <5>1, <5>2 DEF IsFolder, Exists, IsFile
          <6> QED
            BY <1>0, <2>13, <4>0, <6>1
        <5>3. CASE k # h
          <6>1. PICK p \in contents : p = tree[k].parent /\ IsFolder(p)
            BY <2>3, <5>3
          <6>2. tree'[f].parent = fresh[p] /\ tree[p].kind # "file"
            BY <2>8, <5>1, <5>3, <6>1 DEF IsFolder, IsFile
          <6> QED
            BY <2>15, <4>0, <6>2
        <5> QED
          BY <5>2, <5>3
      <4>3. CASE f \notin image /\ f = old
        <5>1. tree'[f].parent = fresh[h] /\ tree'[f].kind = tree[f].kind
          BY <2>9, <4>3
        <5>2. old # Null
          BY <4>3, HandlesAreFinite DEF Handles, Null
        <5>3. IsFile(f)'
          BY <2>5, <4>3, <5>1, <5>2 DEF IsFile, Exists
        <5> QED
          BY <4>1, <4>3, <5>1, <5>3
      <4>4. CASE f \notin image /\ f # old
        <5>1. tree'[f] = tree[f] /\ Exists(f)
          BY <2>9, <4>4 DEF Exists
        <5>2. PICK p \in Handles : p = tree[f].parent
          BY <4>0, <5>1
        <5>3. tree[p].kind # "none"
          BY <5>1, <5>2, HandlesAreFinite DEF TreeTrue, NodesKnown, Handles, Null
        <5>4. p \notin image /\ tree'[p].kind = tree[p].kind
          BY <2>13, <5>3
        <5>5. IsFile(p)
          BY <4>0, <5>1, <5>2, <5>4 DEF IsFile, Exists
        <5>6. IsFile(f)
          BY <5>1, <5>2, <5>5 DEF TreeTrue, VersionsBelow
        <5>7. IsFile(f)'
          BY <5>1, <5>6 DEF IsFile, Exists
        <5> QED
          BY <4>1, <4>4, <5>1, <5>2, <5>4, <5>5, <5>7
      <4> QED
        BY <4>2, <4>3, <4>4
    <3> QED
      BY <3>1, VersionsStay
  <2>18. TreeAges /\ NothingGoes
    BY <2>13 DEF TreeAges, NothingGoes, Exists
  <2>19. Exists(new)' /\ tree'[new].parent = to
    BY <2>3, <2>4, <2>6, <2>8, <2>15 DEF Exists
  <2>20. IsFolder(to)'
    BY <1>0, <2>13 DEF IsFolder, IsFile, Exists
  <2> QED
    BY <2>16, <2>17, <2>18, <2>19, <2>20 DEF TreeTrue
<1> QED
  BY <1>1, <1>2

-----------------------------------------------------------------------------
(* What a command knows *)

(* A copy of a node is out of date in all but what the node is. *)
CopyTrue(n) ==
    n.h \in Handles => n.kind \notin {"none", "gone"} /\ tree[n.h].kind \in {n.kind, "gone"}

IsList(q) == q \in Seq(ToSet(q))

(* Where a command has a node of its argument in hand. *)
Holding == {"rmAsk", "doDelete", "move", "replace", "rename", "copy", "copyRemove", "copyRename",
            "dvAsk", "dvRead", "dvRemove", "exportAsk", "exportAccept", "exportRequest",
            "shareNext", "shareRequest"}

(* What the user has agreed to, when rm is about to ask or to remove. *)
AgreedTo(m) ==
    /\ m.cmd.op = "rm" /\ m.force =>
          "f" \in m.cmd.flags \/ Null \in m.agreed \/ m.unasked
    /\ m.at = "rmAsk" => "r" \in m.cmd.flags
    /\ m.at = "doDelete" =>
          \/ Head(m.nodes).kind = "file"
          \/ /\ "r" \in m.cmd.flags
             /\ \/ "f" \in m.cmd.flags \/ m.agreed \cap {Null, Head(m.nodes).h} # {}
                \/ m.unasked

Settled(m) ==
    /\ DOMAIN m = DOMAIN NoLocals /\ m.force \in BOOLEAN
    /\ IsList(m.nodes) /\ \A n \in ToSet(m.nodes) : CopyTrue(n)
    /\ CopyTrue(m.target)
    /\ m.at \in Holding => m.nodes # <<>>
    /\ m.at \in {"rmAsk", "doDelete"} => m.cmd.op = "rm"
    /\ m.at \in {"move", "replace"} => m.cmd.op = "mv"
    /\ m.at \in {"copy", "copyRemove"} => m.cmd.op = "cp"
    /\ m.at \in {"dvAll", "dvAsk", "dvRead", "dvRemove"} => m.cmd.op = "deleteversions"
    /\ m.at = "move" => m.target.h # Head(m.nodes).h
    /\ AgreedTo(m)

(* Before the old file is removed the new one is beside it, unless somebody *)
(* else has moved things about.                                             *)
Arrived(t, m) ==
    m.at \in {"replace", "copyRemove"} =>
        /\ m.target.kind = "file" /\ m.target.parent \in Handles
        /\ tree[m.target.parent].kind \notin {"none", "file"}
        /\ \E k \in Handles :
              /\ m.placed = {k} /\ k # m.target.h
              /\ t \in stirred \/ (Exists(k) /\ tree[k].parent = m.target.parent)

(* What deleteversions has read to remove are older versions, unless        *)
(* somebody else has taken one out of its file.                             *)
OldVersions(t, m) ==
    m.at = "dvRemove" =>
        /\ IsList(m.versions)
        /\ \A v \in ToSet(m.versions) :
              /\ CopyTrue(v)
              /\ t \in promoted \/ (Exists(v.h) => ~Current(v.h))

LocalsTrue(t, m) == Settled(m) /\ Arrived(t, m) /\ OldVersions(t, m)

TreeInv ==
    /\ TreeTrue
    /\ DOMAIN my = Threads
    /\ \A t \in Threads : LocalsTrue(t, my[t])

(* The elements of a list are those of its head and its tail. *)
LEMMA HeadAndTail ==
  ASSUME NEW q, IsList(q), q # <<>>
  PROVE  Head(q) \in ToSet(q) /\ IsList(Tail(q)) /\ ToSet(Tail(q)) \subseteq ToSet(q)
<1>1. PICK S : S = ToSet(q) /\ q \in Seq(S)
  BY DEF IsList
<1>2. Head(q) \in S /\ Tail(q) \in Seq(S)
  BY <1>1
<1>3. PICK r \in Seq(S) : r = Tail(q)
  BY <1>2
<1>4. r \in [1 .. Len(r) -> S] /\ Len(r) \in Nat /\ DOMAIN r = 1 .. Len(r)
  OBVIOUS
<1>5. \A i \in DOMAIN r : r[i] \in ToSet(r) /\ r[i] \in S
  BY <1>4 DEF ToSet
<1>6. ToSet(r) \subseteq S
  BY <1>4 DEF ToSet
<1>7. r \in [1 .. Len(r) -> ToSet(r)]
  BY <1>4, <1>5
<1>8. r \in Seq(ToSet(r))
  BY <1>4, <1>7
<1> QED
  BY <1>1, <1>2, <1>3, <1>6, <1>8 DEF IsList

(* A copy is true when it is taken, *)
LEMMA NodeCopied ==
  ASSUME NEW h
  PROVE  CopyTrue(getNodeByHandle(h))
<1>1. CASE Exists(h)
  BY <1>1 DEF CopyTrue, getNodeByHandle, Exists
<1>2. CASE ~Exists(h)
  BY <1>2, HandlesAreFinite DEF CopyTrue, getNodeByHandle, NoCopy, Handles, Null
<1> QED
  BY <1>1, <1>2

(* those of a set of nodes are a list of copies, *)
LEMMA NodesCopied ==
  ASSUME NEW S
  PROVE  /\ IsList(Copies(S))
         /\ \A n \in ToSet(Copies(S)) : \E k \in S \cap Handles : n = getNodeByHandle(k)
<1>1. PICK T \in SUBSET Nat : T = S \cap Handles /\ IsFiniteSet(T)
  <2>1. S \cap Handles \in SUBSET Nat
    BY HandlesAreFinite
  <2>2. S \cap Handles \in SUBSET Handles
    OBVIOUS
  <2>3. IsFiniteSet(S \cap Handles)
    BY <2>2, HandlesAreFinite, FS_Subset
  <2> QED
    BY <2>1, <2>3
<1>2. PICK order : order = Ascending(T) /\ order \in Seq(T)
  BY <1>1, AscendingIs
<1>3. PICK q : q = Copies(S)
  OBVIOUS
<1>4. q = [i \in 1 .. Len(order) |-> getNodeByHandle(order[i])]
  BY <1>1, <1>2, <1>3 DEF Copies
<1>5. Len(order) \in Nat /\ \A i \in 1 .. Len(order) : order[i] \in T
  BY <1>2
<1>6. DOMAIN q = 1 .. Len(order) /\ \A i \in DOMAIN q : q[i] = getNodeByHandle(order[i])
  BY <1>4
<1>7. \A n \in ToSet(q) : \E k \in T : n = getNodeByHandle(k)
  BY <1>5, <1>6 DEF ToSet
<1>8. \A i \in DOMAIN q : q[i] \in ToSet(q)
  BY DEF ToSet
<1>9. q \in [1 .. Len(order) -> ToSet(q)]
  BY <1>4, <1>6, <1>8
<1>10. q \in Seq(ToSet(q))
  BY <1>5, <1>9
<1> QED
  BY <1>1, <1>3, <1>7, <1>10 DEF IsList

(* and what it is of stays what it was. *)
LEMMA CopyAges ==
  ASSUME TreeAges, NEW n, CopyTrue(n)
  PROVE  CopyTrue(n)'
BY DEF TreeAges, CopyTrue

(* What a command knows of nodes stays true, however the tree ages; *)
LEMMA SettledAges ==
  ASSUME TreeAges, NEW m, Settled(m)
  PROVE  Settled(m)'
<1>1. CopyTrue(m.target)'
  BY CopyAges DEF Settled
<1>2. \A n \in ToSet(m.nodes) : CopyTrue(n)'
  BY CopyAges DEF Settled
<1> QED
  BY <1>1, <1>2 DEF Settled, AgreedTo

(* What a step says to the other commands. *)
Noticed(u) ==
    /\ u \in stirred => u \in stirred'
    /\ u \in promoted => u \in promoted'
    /\ u \in stirred' \/ \A h \in Handles :
          Exists(h) => tree'[h].kind # "gone" /\ tree'[h].parent = tree[h].parent
    /\ u \in promoted' \/ \A h \in Handles : Exists(h) /\ ~Current(h) => ~Current(h)'

(* and so does the rest, unless it is told that things were moved about. *)
LEMMA LocalsAge ==
  ASSUME TreeAges, NEW u, NEW m, LocalsTrue(u, m), Noticed(u)
  PROVE  LocalsTrue(u, m)'
<1>1. Settled(m)'
  BY SettledAges DEF LocalsTrue
<1>2. Arrived(u, m)'
  <2> SUFFICES ASSUME m.at \in {"replace", "copyRemove"}
               PROVE  /\ m.target.kind = "file" /\ m.target.parent \in Handles
                      /\ tree'[m.target.parent].kind \notin {"none", "file"}
                      /\ \E k \in Handles :
                            /\ m.placed = {k} /\ k # m.target.h
                            /\ u \in stirred' \/ (Exists(k)' /\ tree'[k].parent = m.target.parent)
    BY DEF Arrived
  <2>1. PICK k \in Handles :
           /\ m.placed = {k} /\ k # m.target.h
           /\ u \in stirred \/ (Exists(k) /\ tree[k].parent = m.target.parent)
    BY DEF LocalsTrue, Arrived
  <2>2. /\ m.target.kind = "file" /\ m.target.parent \in Handles
        /\ tree[m.target.parent].kind \notin {"none", "file"}
    BY DEF LocalsTrue, Arrived
  <2>3. tree'[m.target.parent].kind \notin {"none", "file"}
    BY <2>2 DEF TreeAges
  <2>4. u \in stirred' \/ (Exists(k)' /\ tree'[k].parent = m.target.parent)
    BY <2>1 DEF Noticed, TreeAges, Exists
  <2> QED
    BY <2>1, <2>2, <2>3, <2>4
<1>3. OldVersions(u, m)'
  <2> SUFFICES ASSUME m.at = "dvRemove"
               PROVE  /\ IsList(m.versions)
                      /\ \A v \in ToSet(m.versions) :
                            CopyTrue(v)' /\ (u \in promoted' \/ (Exists(v.h)' => ~Current(v.h)'))
    BY DEF OldVersions
  <2>1. OldVersions(u, m)
    BY DEF LocalsTrue
  <2>2. IsList(m.versions)
    BY <2>1 DEF OldVersions
  <2>3. ASSUME NEW v \in ToSet(m.versions)
        PROVE  CopyTrue(v)' /\ (u \in promoted' \/ (Exists(v.h)' => ~Current(v.h)'))
    <3>1. CopyTrue(v) /\ (u \in promoted \/ (Exists(v.h) => ~Current(v.h)))
      BY <2>1 DEF OldVersions
    <3>2. CopyTrue(v)'
      BY <3>1, CopyAges
    <3>3. Exists(v.h)' => v.h \in Handles /\ Exists(v.h)
      BY <3>1 DEF TreeAges, Exists, CopyTrue
    <3> QED
      BY <3>1, <3>2, <3>3 DEF Noticed
  <2> QED
    BY <2>2, <2>3
<1> QED
  BY <1>1, <1>2, <1>3 DEF LocalsTrue

-----------------------------------------------------------------------------
(* The steps of a command *)

(* What a command takes away is its to take: the three properties, for the  *)
(* command that makes the step.                                             *)
TakesItsOwn(t) ==
    /\ my[t].cmd.op \in {"mv", "cp"} =>
         \A h \in Handles : Gone(h) /\ Current(h) =>
           \E k \in my[t].placed :
             \/ t \in stirred
             \/ Exists(k) /\ ~Gone(k) /\ tree[k].parent = my[t].target.parent
    /\ my[t].cmd.op = "rm" =>
         \A h \in Handles : Gone(h) =>
           /\ h \in Subtree(Node(t).h)
           /\ \/ IsFile(Node(t).h)
              \/ /\ Has(t, "r")
                 /\ \/ Has(t, "f") \/ my[t].agreed \cap {Null, Node(t).h} # {}
                    \/ my[t].unasked
    /\ my[t].cmd.op = "deleteversions" /\ t \notin promoted =>
         \A h \in Handles : Gone(h) => ~Current(h)

StepIsGood(t) ==
    /\ TreeInv' /\ TakesItsOwn(t)
    /\ \A u \in Threads \ {t} : my'[u] = my[u]

(* What MakeRequest notes of the tree for the other commands. *)
Noted(t) ==
    /\ stirred' = IF \E h \in Handles : Exists(h) /\ \/ tree'[h].kind = "gone"
                                                     \/ tree'[h].parent # tree[h].parent
                                                     \/ tree'[h].name # tree[h].name
                    THEN stirred \cup (Threads \ {t}) ELSE stirred
    /\ promoted' = IF Promotes THEN promoted \cup (Threads \ {t}) ELSE promoted

(* The tree as it was. *)
LEMMA StandsStill ==
  ASSUME TreeTrue, tree' = tree
  PROVE  /\ TreeTrue' /\ TreeAges /\ NothingGoes
         /\ \A h : (Exists(h)' <=> Exists(h)) /\ (Current(h)' <=> Current(h))
<1>1. DOMAIN tree' = Handles
  BY DEF TreeTrue, NodesKnown
<1>2. TreeTrue' /\ TreeAges /\ NothingGoes
  BY <1>1, InPlaceKeeps
<1> QED
  BY <1>2 DEF Exists, Current, IsFile

(* The commands of the others are told what a request did. *)
LEMMA OthersNotice ==
  ASSUME NEW t, Noted(t), NEW u \in Threads \ {t}
  PROVE  Noticed(u)
<1>1. u \in stirred => u \in stirred'
  BY DEF Noted
<1>2. u \in promoted => u \in promoted'
  BY DEF Noted
<1>3. u \in promoted' \/ ~Promotes
  BY DEF Noted
<1>4. u \in stirred' \/ \A h \in Handles :
         Exists(h) => tree'[h].kind # "gone" /\ tree'[h].parent = tree[h].parent
  BY DEF Noted
<1> QED
  BY <1>1, <1>2, <1>3, <1>4 DEF Noticed, Promotes

(* Nothing is anybody's to take. *)
LEMMA NothingTaken ==
  ASSUME NothingGoes, NEW t
  PROVE  TakesItsOwn(t)
<1>1. \A h \in Handles : ~Gone(h)
  BY DEF NothingGoes, Gone, Exists
<1> QED
  BY <1>1 DEF TakesItsOwn

(* A step is right for all when it is for the thread that makes it. *)
LEMMA StepKeeps ==
  ASSUME TreeInv, NEW t \in Threads, NEW n, Become(t, n),
         TreeTrue', TreeAges, \A u \in Threads \ {t} : Noticed(u), LocalsTrue(t, n)'
  PROVE  TreeInv' /\ \A u \in Threads \ {t} : my'[u] = my[u]
<1>1. DOMAIN my' = Threads /\ my'[t] = n /\ \A u \in Threads \ {t} : my'[u] = my[u]
  BY DEF TreeInv, Become
<1>2. ASSUME NEW u \in Threads PROVE LocalsTrue(u, my[u])'
  <2>1. CASE u = t
    BY <1>1, <2>1
  <2>2. CASE u # t
    <3>1. PICK m : m = my[u]
      OBVIOUS
    <3>2. LocalsTrue(u, m)
      BY <3>1 DEF TreeInv
    <3>3. LocalsTrue(u, m)'
      BY <2>2, <3>2, LocalsAge
    <3> QED
      BY <1>1, <2>2, <3>1, <3>3
  <2> QED
    BY <2>1, <2>2
<1> QED
  BY <1>1, <1>2 DEF TreeInv

(* A step that changes nothing but what the command knows. *)
LEMMA ThinkStep ==
  ASSUME TreeInv, NEW t \in Threads, NEW n, Become(t, n), tree' = tree,
         \A u \in Threads : (u \in stirred => u \in stirred'),
         \A u \in Threads : (u \in promoted => u \in promoted'),
         LocalsTrue(t, n)
  PROVE  StepIsGood(t)
<1>1. TreeTrue' /\ TreeAges /\ NothingGoes
  BY StandsStill DEF TreeInv
<1>2. \A u \in Threads : Noticed(u)
  BY StandsStill DEF TreeInv, Noticed, Exists
<1>3. LocalsTrue(t, n)'
  BY <1>1, <1>2, LocalsAge
<1>4. TreeInv' /\ \A u \in Threads \ {t} : my'[u] = my[u]
  BY <1>1, <1>2, <1>3, StepKeeps
<1> QED
  BY <1>1, <1>4, NothingTaken DEF StepIsGood

(* Where nothing is said of the tree but what the nodes in hand are. *)
Plain(n) == n.at \notin {"replace", "copyRemove", "dvRemove"}

(* There nothing else needs to be shown. *)
LEMMA PlainTrue ==
  ASSUME NEW t, NEW n, Settled(n), Plain(n)
  PROVE  LocalsTrue(t, n)
BY DEF LocalsTrue, Arrived, OldVersions, Plain

(* A step that goes on to such a place. *)
LEMMA ThinkKeeps ==
  ASSUME TreeInv, NEW t \in Threads, NEW n, Think(t, n), Settled(n), Plain(n)
  PROVE  StepIsGood(t)
<1>1. Become(t, n) /\ tree' = tree /\ stirred' = stirred /\ promoted' = promoted
  BY DEF Think
<1> QED
  BY <1>1, PlainTrue, ThinkStep

(* A request that takes nothing away. *)
LEMMA RequestKeeps ==
  ASSUME TreeInv, NEW t \in Threads, NEW n, Become(t, n), Noted(t),
         TreeTrue', TreeAges, NothingGoes, Settled(n), Plain(n)
  PROVE  StepIsGood(t)
<1>1. Settled(n)'
  BY SettledAges
<1>2. LocalsTrue(t, n)'
  BY <1>1 DEF LocalsTrue, Arrived, OldVersions, Plain
<1>3. TreeInv' /\ \A u \in Threads \ {t} : my'[u] = my[u]
  BY <1>2, StepKeeps, OthersNotice
<1> QED
  BY <1>3, NothingTaken DEF StepIsGood

(* And one that was refused or that failed. *)
LEMMA RefusedKeeps ==
  ASSUME TreeInv, NEW t \in Threads, NEW n, Become(t, n), Noted(t), tree' = tree,
         Settled(n), Plain(n)
  PROVE  StepIsGood(t)
BY RequestKeeps, StandsStill DEF TreeInv

(* Going on to the next node. *)
LEMMA NextNodeSettled ==
  ASSUME NEW m, Settled(m), m.nodes # <<>>,
         NEW n, n = [m EXCEPT !.nodes = Tail(@), !.at = "node"]
  PROVE  Settled(n) /\ Plain(n)
<1>1. /\ DOMAIN n = DOMAIN m /\ n.nodes = Tail(m.nodes) /\ n.at = "node" /\ n.force = m.force
      /\ n.target = m.target /\ n.cmd = m.cmd /\ n.agreed = m.agreed /\ n.unasked = m.unasked
  BY DEF Settled, NoLocals
<1>2. IsList(n.nodes) /\ \A k \in ToSet(n.nodes) : CopyTrue(k)
  BY <1>1, HeadAndTail DEF Settled
<1> QED
  BY <1>1, <1>2 DEF Settled, Plain, Holding, AgreedTo

(* The same nodes, command and consent, elsewhere in the command. *)
Like(m, n) ==
    /\ DOMAIN n = DOMAIN m /\ n.nodes = m.nodes /\ n.target = m.target /\ n.cmd = m.cmd
    /\ n.force = m.force /\ n.agreed = m.agreed /\ n.unasked = m.unasked

LEMMA MovesOn ==
  ASSUME NEW m, Settled(m), NEW n, Like(m, n),
         n.at \in Holding => m.nodes # <<>>,
         n.at \notin {"rmAsk", "doDelete", "move", "replace", "copy", "copyRemove",
                      "dvAll", "dvAsk", "dvRead", "dvRemove"}
  PROVE  Settled(n) /\ Plain(n)
BY DEF Settled, AgreedTo, Plain, Like

(* A thread that runs no command. *)
LEMMA NoLocalsSettled == Settled(NoLocals)
<1>1. IsList(<<>>) /\ \A n \in ToSet(<<>>) : CopyTrue(n)
  BY DEF IsList, ToSet
<1>2. CopyTrue(NoCopy)
  BY HandlesAreFinite DEF CopyTrue, NoCopy, Handles, Null
<1>3. /\ NoLocals.nodes = <<>> /\ NoLocals.target = NoCopy /\ NoLocals.at = "idle"
      /\ NoLocals.force = FALSE
  BY DEF NoLocals
<1> QED
  BY <1>1, <1>2, <1>3 DEF Settled, AgreedTo, Holding

(* A command begins with nothing but, for cp, a copy of its target. *)
LEMMA StartKeeps ==
  ASSUME TreeInv, NEW t \in Threads, Start(t)
  PROVE  StepIsGood(t)
<1>1. PICK cmd, target : cmd = Head(todo[t]) /\ target = NamedTarget(cmd.to)
  OBVIOUS
<1>2. PICK f : f = ("f" \in cmd.flags)
  OBVIOUS
<1>3. PICK begun : begun = [NoLocals EXCEPT !.cmd = cmd, !.at = "arg", !.force = f]
  OBVIOUS
<1>4. /\ DOMAIN begun = DOMAIN NoLocals /\ begun.nodes = NoLocals.nodes /\ begun.at = "arg"
      /\ begun.target = NoLocals.target /\ begun.cmd = cmd /\ begun.force = f
  BY <1>3 DEF NoLocals
<1>5. Settled(begun)
  <2>1. f \in BOOLEAN
    BY <1>2
  <2>2. f => "f" \in begun.cmd.flags
    BY <1>2, <1>4
  <2> QED
    BY <1>4, <2>1, <2>2, NoLocalsSettled DEF Settled, AgreedTo, Holding
<1>6. ASSUME NEW m, m = [begun EXCEPT !.target = target.node, !.newname = target.newname]
      PROVE  Settled(m) /\ Plain(m)
  <2>1. /\ DOMAIN m = DOMAIN begun /\ m.nodes = begun.nodes /\ m.at = begun.at
        /\ m.target = target.node /\ m.cmd = begun.cmd /\ m.force = begun.force
        /\ m.agreed = begun.agreed /\ m.unasked = begun.unasked
    BY <1>4, <1>6 DEF NoLocals
  <2>2. CopyTrue(m.target)
    BY <1>1, <2>1, NodeCopied DEF NamedTarget
  <2> QED
    BY <1>4, <1>5, <2>1, <2>2 DEF Settled, AgreedTo, Holding, Plain
<1>7. ASSUME NEW m, m = [begun EXCEPT !.at = "dvAll"], cmd.op = "deleteversions"
      PROVE  Settled(m) /\ Plain(m)
  <2>1. /\ DOMAIN m = DOMAIN begun /\ m.nodes = begun.nodes /\ m.at = "dvAll"
        /\ m.target = begun.target /\ m.cmd = begun.cmd /\ m.force = begun.force
        /\ m.agreed = begun.agreed /\ m.unasked = begun.unasked
    BY <1>4, <1>7 DEF NoLocals
  <2> QED
    BY <1>4, <1>5, <1>7, <2>1 DEF Settled, AgreedTo, Holding, Plain
<1>8. Plain(begun) /\ Plain(NoLocals)
  BY <1>4 DEF Plain, NoLocals
<1>9. PICK n : n = IF /\ Len(cmd.args) > 1 /\ cmd.op \in {"mv", "cp"}
                      /\ ~isValidFolder(cmd.to) THEN NoLocals
                   ELSE IF cmd.op = "cp"
                     THEN [begun EXCEPT !.target = target.node, !.newname = target.newname]
                   ELSE IF cmd.op = "deleteversions" /\ "all" \in cmd.flags
                     THEN [begun EXCEPT !.at = "dvAll"]
                   ELSE begun
  OBVIOUS
<1>10. Become(t, n)
  BY <1>9, <1>1, <1>2, <1>3 DEF Start
<1>11. Settled(n) /\ Plain(n)
  BY <1>9, <1>5, <1>6, <1>7, <1>8, NoLocalsSettled
<1>12. tree' = tree /\ stirred' = stirred \ {t} /\ promoted' = promoted \ {t}
  BY DEF Start
<1>13. TreeTrue' /\ TreeAges /\ NothingGoes
  BY <1>12, StandsStill DEF TreeInv
<1>14. \A u \in Threads \ {t} : Noticed(u)
  BY <1>12, StandsStill DEF TreeInv, Noticed, Exists
<1>15. LocalsTrue(t, n)'
  BY <1>11, <1>13, SettledAges DEF LocalsTrue, Arrived, OldVersions, Plain
<1>16. TreeInv' /\ \A u \in Threads \ {t} : my'[u] = my[u]
  BY <1>10, <1>13, <1>14, <1>15, StepKeeps
<1> QED
  BY <1>13, <1>16, NothingTaken DEF StepIsGood

(* An argument is resolved into true copies. *)
LEMMA ResolveArgumentKeeps ==
  ASSUME TreeInv, NEW t \in Threads, ResolveArgument(t)
  PROVE  StepIsGood(t)
<1>1. PICK m : m = my[t] /\ Settled(m) /\ m.at = "arg"
  BY DEF TreeInv, LocalsTrue, ResolveArgument, AtStep
<1>2. PICK path, found : path = Path(t) /\ found = Resolved(path)
  OBVIOUS
<1>3. IsList(found) /\ \A n \in ToSet(found) : CopyTrue(n)
  <2>1. CASE found = <<>>
    BY <2>1 DEF IsList, ToSet
  <2>2. CASE \E S : found = Copies(S)
    BY <2>2, NodesCopied, NodeCopied
  <2>3. ASSUME NEW h, found = <<getNodeByHandle(h)>>
        PROVE  IsList(found) /\ \A n \in ToSet(found) : CopyTrue(n)
    <3>1. PICK k : k = getNodeByHandle(h) /\ CopyTrue(k)
      BY NodeCopied
    <3>2. found = <<k>> /\ DOMAIN found = {1} /\ found[1] = k
      BY <2>3, <3>1
    <3>3. ToSet(found) = {k}
      BY <3>2 DEF ToSet
    <3> QED
      BY <3>1, <3>2, <3>3 DEF IsList
  <2> QED
    BY <1>2, <2>1, <2>2, <2>3 DEF Resolved
<1>4. \/ Think(t, [m EXCEPT !.i = @ + 1])
      \/ Think(t, [m EXCEPT !.nodes = found, !.at = "node"]) /\ found # <<>>
  BY <1>1, <1>2 DEF ResolveArgument
<1>5. ASSUME NEW n, n = [m EXCEPT !.i = @ + 1] PROVE Settled(n) /\ Plain(n)
  <2>1. Like(m, n) /\ n.at = "arg"
    BY <1>1, <1>5 DEF Settled, NoLocals, Like
  <2> QED
    BY <1>1, <2>1, MovesOn DEF Holding
<1>6. ASSUME NEW n, n = [m EXCEPT !.nodes = found, !.at = "node"] PROVE Settled(n) /\ Plain(n)
  <2>1. /\ DOMAIN n = DOMAIN m /\ n.nodes = found /\ n.target = m.target /\ n.cmd = m.cmd
        /\ n.force = m.force /\ n.agreed = m.agreed /\ n.unasked = m.unasked /\ n.at = "node"
    BY <1>1, <1>6 DEF Settled, NoLocals, Like
  <2> QED
    BY <1>1, <1>3, <2>1 DEF Settled, AgreedTo, Holding, Plain
<1> QED
  BY <1>4, <1>5, <1>6, ThinkKeeps

(* On to the next argument, *)
LEMMA ArgumentDoneKeeps ==
  ASSUME TreeInv, NEW t \in Threads, ArgumentDone(t)
  PROVE  StepIsGood(t)
<1>1. PICK m : m = my[t] /\ Settled(m)
  BY DEF TreeInv, LocalsTrue
<1>2. PICK n : n = [m EXCEPT !.at = "arg", !.i = @ + 1]
  OBVIOUS
<1>3. Think(t, n)
  BY <1>1, <1>2 DEF ArgumentDone
<1>4. Like(m, n) /\ n.at = "arg"
  BY <1>1, <1>2 DEF Settled, NoLocals, Like
<1> QED
  BY <1>1, <1>3, <1>4, MovesOn, ThinkKeeps DEF Holding

(* and out of the command. *)
LEMMA FinishCommandKeeps ==
  ASSUME TreeInv, NEW t \in Threads, FinishCommand(t)
  PROVE  StepIsGood(t)
<1>1. Think(t, NoLocals)
  BY DEF FinishCommand
<1>2. Plain(NoLocals)
  BY DEF Plain, NoLocals
<1> QED
  BY <1>1, <1>2, NoLocalsSettled, ThinkKeeps

(* rm *)
LEMMA RmKeeps ==
  ASSUME TreeInv, NEW t \in Threads, Rm(t)
  PROVE  StepIsGood(t)
<1>1. PICK m : m = my[t] /\ Settled(m) /\ LocalsTrue(t, m)
  BY DEF TreeInv, LocalsTrue
<1>2. PICK node : node = Head(m.nodes)
  OBVIOUS
<1>3. NextNode(t) = [m EXCEPT !.nodes = Tail(@), !.at = "node"] /\ Node(t) = node
  BY <1>1, <1>2 DEF NextNode, Node
<1>4. PICK done : done = [m EXCEPT !.nodes = Tail(@), !.at = "node"]
  OBVIOUS
<1>5. m.nodes # <<>> => Settled(done) /\ Plain(done)
  BY <1>1, <1>4, NextNodeSettled
<1>6. CASE DeleteRefused(t)
  BY <1>1, <1>3, <1>4, <1>5, <1>6, ThinkKeeps DEF DeleteRefused
<1>7. CASE DeleteAsks(t)
  <2>1. PICK n : n = [m EXCEPT !.at = "rmAsk"]
    OBVIOUS
  <2>2. Think(t, n) /\ m.nodes # <<>> /\ m.cmd.op = "rm" /\ "r" \in m.cmd.flags
    BY <1>1, <1>7, <2>1 DEF DeleteAsks, AtOp, Has
  <2>3. Like(m, n) /\ n.at = "rmAsk"
    BY <1>1, <2>1 DEF Settled, NoLocals, Like
  <2>4. Settled(n) /\ Plain(n)
    BY <1>1, <2>2, <2>3 DEF Settled, AgreedTo, Plain, Like
  <2> QED
    BY <2>2, <2>4, ThinkKeeps
<1>8. CASE DeleteAnswered(t)
  <2>1. m.at = "rmAsk" /\ m.nodes # <<>> /\ m.cmd.op = "rm" /\ "r" \in m.cmd.flags /\ m.force \in BOOLEAN
    BY <1>1, <1>8 DEF DeleteAnswered, AtStep, Settled, Holding, AgreedTo
  <2>2. PICK answer \in {"yes", "no", "all", "none"} :
          Think(t, IF answer \in {"yes", "all"}
                     THEN [m EXCEPT !.at = "doDelete", !.force = @ \/ answer = "all",
                             !.agreed = @ \cup {IF answer = "all" THEN Null ELSE node.h}]
                     ELSE [done EXCEPT !.none = @ \/ answer = "none"])
    BY <1>1, <1>3, <1>4, <1>8 DEF DeleteAnswered
  <2>3. CASE answer \in {"yes", "all"}
    <3>1. PICK f \in BOOLEAN : f = (m.force \/ answer = "all")
      OBVIOUS
    <3>2. PICK g : g = IF answer = "all" THEN Null ELSE node.h
      OBVIOUS
    <3>3. PICK n : n = [m EXCEPT !.at = "doDelete", !.force = f, !.agreed = @ \cup {g}]
      OBVIOUS
    <3>4. Think(t, n)
      BY <2>2, <2>3, <3>1, <3>2, <3>3
    <3>5. /\ DOMAIN n = DOMAIN m /\ n.nodes = m.nodes /\ n.target = m.target /\ n.cmd = m.cmd
          /\ n.force = f /\ n.agreed = m.agreed \cup {g} /\ n.at = "doDelete"
          /\ n.unasked = m.unasked
      BY <1>1, <3>3 DEF Settled, NoLocals, Like
    <3>6. AgreedTo(n)
      BY <1>1, <1>2, <2>1, <2>3, <3>1, <3>2, <3>5 DEF Settled, AgreedTo, Like
    <3>7. Settled(n) /\ Plain(n)
      BY <1>1, <2>1, <3>5, <3>6 DEF Settled, Plain, Like
    <3> QED
      BY <3>4, <3>7, ThinkKeeps
  <2>4. CASE answer \notin {"yes", "all"}
    <3>1. PICK f : f = (done.none \/ answer = "none")
      OBVIOUS
    <3>2. PICK n : n = [done EXCEPT !.none = f]
      OBVIOUS
    <3>3. Think(t, n)
      BY <2>2, <2>4, <3>1, <3>2
    <3>4. Settled(done) /\ done.at = "node"
      BY <1>1, <1>4, <1>5, <2>1 DEF Settled, NoLocals, Like
    <3>5. Like(done, n) /\ n.at = "node"
      BY <3>2, <3>4 DEF Settled, NoLocals, Like
    <3> QED
      BY <3>3, <3>4, <3>5, MovesOn, ThinkKeeps DEF Holding
  <2> QED
    BY <2>3, <2>4
<1>9. CASE DeleteForced(t)
  <2>1. PICK g : g = IF m.force THEN m.unasked ELSE TRUE
    OBVIOUS
  <2>2. PICK n : n = [m EXCEPT !.at = "doDelete", !.force = TRUE, !.unasked = g]
    OBVIOUS
  <2>3. /\ Think(t, n) /\ m.nodes # <<>> /\ m.cmd.op = "rm"
        /\ node.kind = "file" \/ ("r" \in m.cmd.flags /\ m.force)
    BY <1>1, <1>3, <1>9, <2>1, <2>2 DEF DeleteForced, AtOp, Has
  <2>4. /\ DOMAIN n = DOMAIN m /\ n.nodes = m.nodes /\ n.target = m.target /\ n.cmd = m.cmd
        /\ n.force = TRUE /\ n.unasked = g /\ n.agreed = m.agreed /\ n.at = "doDelete"
    BY <1>1, <2>2 DEF Settled, NoLocals, Like
  <2>5. AgreedTo(n)
    BY <1>1, <1>2, <2>1, <2>3, <2>4 DEF Settled, AgreedTo, Like
  <2>6. Settled(n) /\ Plain(n)
    BY <1>1, <2>3, <2>4, <2>5 DEF Settled, Plain, Like
  <2> QED
    BY <2>3, <2>6, ThinkKeeps
<1>10. CASE doDeleteNode(t)
  <2>1. PICK h : h = node.h
    OBVIOUS
  <2>2. m.at = "doDelete" /\ m.nodes # <<>> /\ m.cmd.op = "rm"
    BY <1>1, <1>10 DEF doDeleteNode, AtStep, Settled, Holding
  <2>3. /\ Become(t, done) /\ Noted(t)
        /\ \/ tree' = tree
           \/ Movable(h) /\ tree' \in {VersionRemoved(h), Removed(h)}
    BY <1>3, <1>4, <1>10, <2>1 DEF doDeleteNode, MakeRequest, Noted
  <2>4. CASE tree' = tree
    BY <1>5, <2>2, <2>3, <2>4, RefusedKeeps
  <2>5. CASE Movable(h) /\ tree' \in {VersionRemoved(h), Removed(h)}
    <3>1. h \in Handles /\ Exists(h) /\ TreeTrue
      BY <2>5 DEF Movable, Exists, TreeInv
    <3>2. h \in Subtree(h)
      <4>1. PICK next \in [Handles -> SUBSET Handles] : next = [k \in Handles |-> Below(k)]
        BY DEF Below
      <4> QED
        BY <3>1, <4>1, ReachedSelf DEF Subtree
    <3>3. /\ TreeTrue' /\ TreeAges
          /\ \A k \in Handles : Exists(k) /\ tree'[k].kind = "gone" => k \in Subtree(h)
      BY <2>5, <3>1, <3>2, RemovedKeeps, VersionRemovedKeeps
    <3>4. LocalsTrue(t, done)'
      BY <1>5, <2>2, <3>3, SettledAges DEF LocalsTrue, Arrived, OldVersions, Plain
    <3>5. TreeInv' /\ \A u \in Threads \ {t} : my'[u] = my[u]
      BY <2>3, <3>3, <3>4, StepKeeps, OthersNotice
    <3>6. node.kind = "file" => IsFile(h)
      <4>1. CopyTrue(node)
        BY <1>1, <1>2, <2>2, HeadAndTail DEF Settled
      <4> QED
        BY <2>1, <3>1, <4>1 DEF CopyTrue, IsFile, Exists
    <3>7. \/ IsFile(h)
          \/ /\ Has(t, "r")
             /\ \/ Has(t, "f") \/ my[t].agreed \cap {Null, h} # {}
                \/ my[t].unasked
      BY <1>1, <1>2, <2>1, <2>2, <3>6 DEF Settled, AgreedTo, Has
    <3>8. TakesItsOwn(t)
      BY <1>1, <1>3, <2>1, <2>2, <3>3, <3>7 DEF TakesItsOwn, Gone
    <3> QED
      BY <3>5, <3>8 DEF StepIsGood
  <2> QED
    BY <2>3, <2>4, <2>5
<1> QED
  BY <1>6, <1>7, <1>8, <1>9, <1>10 DEF Rm

(* A name, a link or a share. *)
LEMMA MarkedKeeps ==
  ASSUME TreeTrue, NEW h, Exists(h), NEW v,
         \/ tree' = [tree EXCEPT ![h].name = v]
         \/ tree' = [tree EXCEPT ![h].link = v]
         \/ tree' = [tree EXCEPT ![h].users = v]
  PROVE  TreeTrue' /\ TreeAges /\ NothingGoes
<1>1. h \in Handles /\ DOMAIN tree = Handles /\ DOMAIN tree[h] = DOMAIN NoNode
  BY DEF Exists, TreeTrue, NodesKnown
<1>2. /\ DOMAIN tree' = Handles /\ DOMAIN tree'[h] = DOMAIN tree[h]
      /\ tree'[h].kind = tree[h].kind /\ tree'[h].parent = tree[h].parent
      /\ \A k \in Handles : k # h => tree'[k] = tree[k]
  BY <1>1 DEF NoNode
<1> QED
  BY <1>1, <1>2, InPlaceKeeps

(* The file that mv or cp replaces is removed, with its older versions: the *)
(* new one is not among them.                                               *)
LEMMA ReplacedRemovedKeeps ==
  ASSUME TreeInv, NEW t \in Threads, NEW m, m = my[t], m.at \in {"replace", "copyRemove"},
         NEW h, h = m.target.h, Movable(h), tree' = Removed(h),
         NEW n, Become(t, n), Noted(t), Settled(n), Plain(n)
  PROVE  StepIsGood(t)
<1>1. TreeTrue /\ Settled(m) /\ Arrived(t, m)
  BY DEF TreeInv, LocalsTrue
<1>2. h \in Handles /\ IsFile(h)
  <2>1. Exists(h) /\ CopyTrue(m.target) /\ m.target.kind = "file"
    BY <1>1 DEF Movable, Settled, Arrived
  <2> QED
    BY <2>1 DEF Exists, IsFile, CopyTrue
<1>3. /\ TreeTrue' /\ TreeAges
      /\ \A k \in Handles : Exists(k) /\ tree'[k].kind = "gone" => k \in Subtree(h)
  BY <1>1, RemovedKeeps
<1>4. LocalsTrue(t, n)'
  BY <1>3, SettledAges DEF LocalsTrue, Arrived, OldVersions, Plain
<1>5. TreeInv' /\ \A u \in Threads \ {t} : my'[u] = my[u]
  BY <1>3, <1>4, StepKeeps, OthersNotice
<1>6. PICK k \in Handles :
         /\ m.placed = {k} /\ k # h
         /\ t \in stirred \/ (Exists(k) /\ tree[k].parent = m.target.parent)
  BY <1>1 DEF Arrived
<1>7. Exists(k) /\ tree[k].parent = m.target.parent => ~Gone(k)
  <2> SUFFICES ASSUME Exists(k), tree[k].parent = m.target.parent, Gone(k) PROVE FALSE
    OBVIOUS
  <2>1. k \in Subtree(h)
    BY <1>3 DEF Gone
  <2>2. IsFile(tree[k].parent)
    BY <1>1, <1>2, <1>6, <2>1, SubtreeOfFile
  <2> QED
    BY <1>1, <2>2 DEF Arrived, IsFile
<1>8. m.cmd.op \in {"mv", "cp"}
  BY <1>1 DEF Settled
<1>9. TakesItsOwn(t)
  BY <1>6, <1>7, <1>8 DEF TakesItsOwn
<1> QED
  BY <1>5, <1>9 DEF StepIsGood

(* mv *)
LEMMA MvKeeps ==
  ASSUME TreeInv, NEW t \in Threads, Mv(t)
  PROVE  StepIsGood(t)
<1>1. PICK m : m = my[t] /\ Settled(m) /\ TreeTrue
  BY DEF TreeInv, LocalsTrue
<1>2. PICK node : node = Head(m.nodes)
  OBVIOUS
<1>3. PICK next : next = [m EXCEPT !.nodes = Tail(@), !.at = "node"]
  OBVIOUS
<1>4. NextNode(t) = next /\ Node(t) = node
  BY <1>1, <1>2, <1>3 DEF NextNode, Node
<1>5. m.nodes # <<>> => Settled(next) /\ Plain(next)
  BY <1>1, <1>3, NextNodeSettled
<1>6. CASE MoveToDestination(t)
  <2>1. PICK target : target = NamedTarget(m.cmd.to)
    OBVIOUS
  <2>2. PICK n : n = [m EXCEPT !.at = "move", !.target = target.node, !.newname = target.newname]
    OBVIOUS
  <2>3. /\ m.nodes # <<>> /\ m.cmd.op = "mv"
        /\ Think(t, next) \/ (Think(t, n) /\ target.node.h # node.h)
    BY <1>1, <1>4, <1>6, <2>1, <2>2 DEF MoveToDestination, AtOp
  <2>4. CASE Think(t, next)
    BY <1>5, <2>3, <2>4, ThinkKeeps
  <2>5. CASE Think(t, n) /\ target.node.h # node.h
    <3>1. /\ DOMAIN n = DOMAIN m /\ n.nodes = m.nodes /\ n.target = target.node /\ n.cmd = m.cmd
          /\ n.force = m.force /\ n.agreed = m.agreed /\ n.unasked = m.unasked /\ n.at = "move"
      BY <1>1, <2>2 DEF Settled, NoLocals, Like
    <3>2. CopyTrue(n.target)
      BY <2>1, <3>1, NodeCopied DEF NamedTarget
    <3>3. Settled(n) /\ Plain(n)
      BY <1>1, <1>2, <2>3, <2>5, <3>1, <3>2 DEF Settled, AgreedTo, Plain, Like
    <3> QED
      BY <2>5, <3>3, ThinkKeeps
  <2> QED
    BY <2>3, <2>4, <2>5
<1>7. CASE MoveRequest(t)
  <2>1. m.at = "move" /\ m.nodes # <<>> /\ m.cmd.op = "mv" /\ m.target.h # node.h
    BY <1>1, <1>2, <1>7 DEF MoveRequest, AtStep, Settled, Holding
  <2>2. PICK h, into : /\ h = node.h
                       /\ into = IF m.newname = "" /\ m.target.kind = "file" THEN m.target.parent
                                 ELSE m.target.h
    OBVIOUS
  <2>3. PICK arrived : arrived = [m EXCEPT !.placed = {h}]
    OBVIOUS
  <2>4. PICK beside : beside = [arrived EXCEPT !.at = "replace"]
    OBVIOUS
  <2>5. PICK inside : inside = [arrived EXCEPT !.at = "rename"]
    OBVIOUS
  <2>6. /\ Noted(t)
        /\ \/ tree' = tree /\ Become(t, next)
           \/ /\ CanMove(h, into) /\ tree' = Moved(h, into)
              /\ \/ Become(t, beside) /\ m.newname = "" /\ m.target.kind = "file"
                 \/ Become(t, inside)
                 \/ Become(t, next)
    BY <1>1, <1>4, <1>7, <2>2, <2>3, <2>4, <2>5 DEF MoveRequest, MakeRequest, Noted
  <2>7. CASE tree' = tree /\ Become(t, next)
    BY <1>5, <2>1, <2>6, <2>7, RefusedKeeps
  <2>8. CASE CanMove(h, into) /\ tree' = Moved(h, into)
    <3>1. /\ TreeTrue' /\ TreeAges /\ NothingGoes
          /\ tree'[h].parent = into /\ Exists(h)' /\ IsFolder(into)'
      BY <1>1, <2>8, MovedKeeps
    <3>2. Like(m, arrived) /\ arrived.placed = {h}
      BY <1>1, <2>3 DEF Settled, NoLocals, Like
    <3>3. CASE Become(t, next)
      BY <1>5, <2>1, <2>6, <3>1, <3>3, RequestKeeps
    <3>4. CASE Become(t, inside)
      <4>1. Like(m, inside) /\ inside.at = "rename"
        BY <1>1, <2>5, <3>2 DEF Settled, NoLocals, Like
      <4>2. Settled(inside) /\ Plain(inside)
        BY <1>1, <2>1, <4>1, MovesOn
      <4> QED
        BY <2>6, <3>1, <3>4, <4>2, RequestKeeps
    <3>5. CASE Become(t, beside) /\ m.newname = "" /\ m.target.kind = "file"
      <4>1. Like(m, beside) /\ beside.at = "replace" /\ beside.placed = {h}
        BY <1>1, <2>4, <3>2 DEF Settled, NoLocals, Like
      <4>2. Settled(beside)
        BY <1>1, <2>1, <4>1 DEF Settled, AgreedTo, Like
      <4>3. into = m.target.parent
        BY <2>2, <3>5
      <4>4. Arrived(t, beside)'
        BY <2>1, <2>2, <3>1, <3>5, <4>1, <4>3 DEF Arrived, Like, Exists, IsFolder, IsFile
      <4>5. LocalsTrue(t, beside)'
        BY <3>1, <4>1, <4>2, <4>4, SettledAges DEF LocalsTrue, OldVersions, Like
      <4>6. TreeInv' /\ \A u \in Threads \ {t} : my'[u] = my[u]
        BY <2>6, <3>1, <3>5, <4>5, StepKeeps, OthersNotice
      <4> QED
        BY <3>1, <4>6, NothingTaken DEF StepIsGood
    <3> QED
      BY <2>6, <2>7, <3>3, <3>4, <3>5
  <2> QED
    BY <2>6, <2>7, <2>8
<1>8. CASE RemoveReplaced(t)
  <2>1. m.at = "replace" /\ m.nodes # <<>>
    BY <1>1, <1>8 DEF RemoveReplaced, AtStep, Settled, Holding
  <2>2. PICK h : h = m.target.h
    OBVIOUS
  <2>3. PICK named : named = [m EXCEPT !.at = "rename", !.newname = m.target.name]
    OBVIOUS
  <2>4. PICK n : n = IF m.target.name # node.name THEN named ELSE next
    OBVIOUS
  <2>5. /\ Become(t, n) /\ Noted(t)
        /\ tree' = tree \/ (Movable(h) /\ tree' = Removed(h))
    BY <1>1, <1>4, <1>8, <2>2, <2>3, <2>4 DEF RemoveReplaced, MakeRequest, Noted
  <2>6. Like(m, named) /\ named.at = "rename"
    BY <1>1, <2>3 DEF Settled, NoLocals, Like
  <2>7. Settled(named) /\ Plain(named)
    BY <1>1, <2>1, <2>6, MovesOn
  <2>8. Settled(n) /\ Plain(n)
    BY <1>5, <2>1, <2>4, <2>7
  <2>9. CASE tree' = tree
    BY <2>5, <2>8, <2>9, RefusedKeeps
  <2>10. CASE Movable(h) /\ tree' = Removed(h)
    BY <1>1, <2>1, <2>2, <2>5, <2>8, <2>10, ReplacedRemovedKeeps
  <2> QED
    BY <2>5, <2>9, <2>10
<1>9. CASE RenameRequest(t)
  <2>1. m.nodes # <<>>
    BY <1>1, <1>9 DEF RenameRequest, AtStep, Settled, Holding
  <2>2. PICK h, name : h = node.h /\ name = m.newname
    OBVIOUS
  <2>3. /\ Become(t, next) /\ Noted(t)
        /\ tree' = tree \/ (Movable(h) /\ tree' = [tree EXCEPT ![h].name = name])
    BY <1>1, <1>4, <1>9, <2>2 DEF RenameRequest, MakeRequest, Noted, Renamed
  <2>4. CASE tree' = tree
    BY <1>5, <2>1, <2>3, <2>4, RefusedKeeps
  <2>5. CASE Movable(h) /\ tree' = [tree EXCEPT ![h].name = name]
    <3>1. Exists(h)
      BY <2>5 DEF Movable
    <3>2. TreeTrue' /\ TreeAges /\ NothingGoes
      BY <1>1, <2>5, <3>1, MarkedKeeps
    <3> QED
      BY <1>5, <2>1, <2>3, <3>2, RequestKeeps
  <2> QED
    BY <2>3, <2>4, <2>5
<1> QED
  BY <1>6, <1>7, <1>8, <1>9 DEF Mv

(* cp *)
LEMMA CpKeeps ==
  ASSUME TreeInv, NEW t \in Threads, Cp(t)
  PROVE  StepIsGood(t)
<1>1. PICK m : m = my[t] /\ Settled(m) /\ TreeTrue
  BY DEF TreeInv, LocalsTrue
<1>2. PICK node : node = Head(m.nodes)
  OBVIOUS
<1>3. PICK next : next = [m EXCEPT !.nodes = Tail(@), !.at = "node"]
  OBVIOUS
<1>4. NextNode(t) = next /\ Node(t) = node
  BY <1>1, <1>2, <1>3 DEF NextNode, Node
<1>5. m.nodes # <<>> => Settled(next) /\ Plain(next)
  BY <1>1, <1>3, NextNodeSettled
<1>6. CASE CopyNode(t)
  <2>1. PICK rest : rest = << Component(CASE m.newname # "" /\ node.kind = "file" -> m.newname
                                          [] m.newname = "" /\ m.target.kind = "file" -> m.target.name
                                          [] OTHER -> node.name) >>
    OBVIOUS
  <2>2. PICK n : n = [m EXCEPT !.at = "copy", !.rest = rest]
    OBVIOUS
  <2>3. m.nodes # <<>> /\ m.cmd.op = "cp" /\ (Think(t, next) \/ Think(t, n))
    BY <1>1, <1>4, <1>6, <2>1, <2>2 DEF CopyNode, AtOp
  <2>4. Like(m, n) /\ n.at = "copy"
    BY <1>1, <2>2 DEF Settled, NoLocals, Like
  <2>5. Settled(n) /\ Plain(n)
    BY <1>1, <2>3, <2>4 DEF Settled, AgreedTo, Plain, Like
  <2> QED
    BY <1>5, <2>3, <2>5, ThinkKeeps
<1>7. CASE CopyRequest(t)
  <2>1. m.at = "copy" /\ m.nodes # <<>> /\ m.cmd.op = "cp"
    BY <1>1, <1>7 DEF CopyRequest, AtStep, Settled, Holding
  <2>2. PICK h, name, into :
          /\ h = node.h /\ name = m.rest[1].name
          /\ into = IF m.newname = "" /\ m.target.kind = "file" THEN m.target.parent ELSE m.target.h
    OBVIOUS
  <2>3. PICK new : new = CopyHandle(h, into, name)
    OBVIOUS
  <2>4. PICK arrived : arrived = [m EXCEPT !.base = new, !.placed = {new}]
    OBVIOUS
  <2>5. PICK beside : beside = [arrived EXCEPT !.at = "copyRemove"]
    OBVIOUS
  <2>6. PICK inside : inside = [arrived EXCEPT !.at = "copyRename"]
    OBVIOUS
  <2>7. /\ Noted(t)
        /\ \/ tree' = tree /\ Become(t, next)
           \/ /\ CanCopy(h, into) /\ tree' = Copied(h, into, name)
              /\ \/ Become(t, beside) /\ m.newname = "" /\ m.target.kind = "file" /\ new # m.target.h
                 \/ Become(t, inside)
                 \/ Become(t, next)
    BY <1>1, <1>4, <1>7, <2>2, <2>3, <2>4, <2>5, <2>6 DEF CopyRequest, MakeRequest, Noted
  <2>8. CASE tree' = tree /\ Become(t, next)
    BY <1>5, <2>1, <2>7, <2>8, RefusedKeeps
  <2>9. CASE CanCopy(h, into) /\ tree' = Copied(h, into, name)
    <3>1. /\ TreeTrue' /\ TreeAges /\ NothingGoes
          /\ tree'[new].parent = into /\ Exists(new)' /\ IsFolder(into)'
      BY <1>1, <2>3, <2>9, CopiedKeeps
    <3>2. Like(m, arrived) /\ arrived.placed = {new}
      BY <1>1, <2>4 DEF Settled, NoLocals, Like
    <3>3. CASE Become(t, next)
      BY <1>5, <2>1, <2>7, <3>1, <3>3, RequestKeeps
    <3>4. CASE Become(t, inside)
      <4>1. Like(m, inside) /\ inside.at = "copyRename"
        BY <1>1, <2>6, <3>2 DEF Settled, NoLocals, Like
      <4>2. Settled(inside) /\ Plain(inside)
        BY <1>1, <2>1, <4>1, MovesOn
      <4> QED
        BY <2>7, <3>1, <3>4, <4>2, RequestKeeps
    <3>5. CASE Become(t, beside) /\ m.newname = "" /\ m.target.kind = "file" /\ new # m.target.h
      <4>1. Like(m, beside) /\ beside.at = "copyRemove" /\ beside.placed = {new}
        BY <1>1, <2>5, <3>2 DEF Settled, NoLocals, Like
      <4>2. Settled(beside)
        BY <1>1, <2>1, <4>1 DEF Settled, AgreedTo, Like
      <4>3. into = m.target.parent
        BY <2>2, <3>5
      <4>4. Arrived(t, beside)'
        BY <3>1, <3>5, <4>1, <4>3 DEF Arrived, Like, Exists, IsFolder, IsFile
      <4>5. LocalsTrue(t, beside)'
        BY <3>1, <4>1, <4>2, <4>4, SettledAges DEF LocalsTrue, OldVersions, Like
      <4>6. TreeInv' /\ \A u \in Threads \ {t} : my'[u] = my[u]
        BY <2>7, <3>1, <3>5, <4>5, StepKeeps, OthersNotice
      <4> QED
        BY <3>1, <4>6, NothingTaken DEF StepIsGood
    <3> QED
      BY <2>7, <2>8, <3>3, <3>4, <3>5
  <2> QED
    BY <2>7, <2>8, <2>9
<1>8. CASE CopyRemove(t)
  <2>1. m.at = "copyRemove" /\ m.nodes # <<>>
    BY <1>1, <1>8 DEF CopyRemove, AtStep, Settled, Holding
  <2>2. PICK h : h = m.target.h
    OBVIOUS
  <2>3. /\ Become(t, next) /\ Noted(t)
        /\ tree' = tree \/ (Movable(h) /\ tree' = Removed(h))
    BY <1>1, <1>4, <1>8, <2>2 DEF CopyRemove, MakeRequest, Noted
  <2>4. CASE tree' = tree
    BY <1>5, <2>1, <2>3, <2>4, RefusedKeeps
  <2>5. CASE Movable(h) /\ tree' = Removed(h)
    BY <1>1, <1>5, <2>1, <2>2, <2>3, <2>5, ReplacedRemovedKeeps
  <2> QED
    BY <2>3, <2>4, <2>5
<1>9. CASE CopyRename(t)
  <2>1. m.nodes # <<>>
    BY <1>1, <1>9 DEF CopyRename, AtStep, Settled, Holding
  <2>2. PICK h, name : h = m.base /\ name = m.newname
    OBVIOUS
  <2>3. /\ Become(t, next) /\ Noted(t)
        /\ tree' = tree \/ (Movable(h) /\ tree' = [tree EXCEPT ![h].name = name])
    BY <1>1, <1>4, <1>9, <2>2 DEF CopyRename, MakeRequest, Noted, Renamed
  <2>4. CASE tree' = tree
    BY <1>5, <2>1, <2>3, <2>4, RefusedKeeps
  <2>5. CASE Movable(h) /\ tree' = [tree EXCEPT ![h].name = name]
    <3>1. Exists(h)
      BY <2>5 DEF Movable
    <3>2. TreeTrue' /\ TreeAges /\ NothingGoes
      BY <1>1, <2>5, <3>1, MarkedKeeps
    <3> QED
      BY <1>5, <2>1, <2>3, <3>2, RequestKeeps
  <2> QED
    BY <2>3, <2>4, <2>5
<1> QED
  BY <1>6, <1>7, <1>8, <1>9 DEF Cp

(* mkdir: it knows nothing of nodes but where it stands. *)
MkdirLabels == {"arg", "mkLook", "mkCreate", "mkAfter", "mkDone"}

(* Its steps keep what it knows. *)
LEMMA MkdirMoves ==
  ASSUME NEW m, Settled(m), NEW n, Like(m, n), n.at \in MkdirLabels
  PROVE  Settled(n) /\ Plain(n)
BY MovesOn DEF MkdirLabels, Holding

LEMMA MkdirKeeps ==
  ASSUME TreeInv, NEW t \in Threads, Mkdir(t)
  PROVE  StepIsGood(t)
<1>1. PICK m : m = my[t] /\ Settled(m) /\ TreeTrue
  BY DEF TreeInv, LocalsTrue
<1>2. ASSUME NEW n, Think(t, n), Like(m, n), n.at \in MkdirLabels
      PROVE  StepIsGood(t)
  BY <1>1, <1>2, MkdirMoves, ThinkKeeps
<1>3. DOMAIN m = DOMAIN NoLocals
  BY <1>1 DEF Settled
<1>4. PICK argument : argument = MkdirArgument(t) /\ Like(m, argument) /\ argument.at \in MkdirLabels
  <2>1. PICK argument : argument = MkdirArgument(t)
    OBVIOUS
  <2>2. argument = [m EXCEPT !.at = "arg", !.i = @ + 1]
    BY <1>1, <2>1 DEF MkdirArgument
  <2>3. Like(m, argument) /\ argument.at \in MkdirLabels
    BY <1>3, <2>2 DEF Like, NoLocals, MkdirLabels
  <2> QED
    BY <2>1, <2>3
<1>5. CASE MkdirNavigate(t)
  <2>1. PICK found, last : found = Navigated(getBaseNode(Path(t)), Path(t).parts)
                           /\ last = Len(m.cmd.args) + 1
    OBVIOUS
  <2>2. PICK n : /\ Think(t, n) /\ m.at = "arg"
                 /\ \/ n = [m EXCEPT !.i = last]
                    \/ n = [m EXCEPT !.base = found.base, !.rest = found.rest, !.at = "mkLook"]
    BY <1>1, <1>5, <2>1 DEF MkdirNavigate, AtOp, AtStep
  <2>3. Like(m, n) /\ n.at \in MkdirLabels
    BY <1>3, <2>2 DEF Like, NoLocals, MkdirLabels
  <2> QED
    BY <1>2, <2>2, <2>3
<1>6. CASE MkdirLook(t)
  <2>1. PICK child, rest : child = getChildNode(m.base, Head(m.rest).name) /\ rest = Tail(m.rest)
    OBVIOUS
  <2>2. PICK n : /\ Think(t, n) /\ m.at = "mkLook"
                 /\ \/ n = [m EXCEPT !.at = "mkDone"]
                    \/ n = [m EXCEPT !.rest = rest]
                    \/ n = argument
                    \/ n = [m EXCEPT !.base = child, !.rest = rest]
                    \/ n = [m EXCEPT !.at = "mkCreate"]
    BY <1>1, <1>4, <1>6, <2>1 DEF MkdirLook, AtStep
  <2>3. Like(m, n) /\ n.at \in MkdirLabels
    <3>1. CASE n = [m EXCEPT !.at = "mkDone"] \/ n = [m EXCEPT !.at = "mkCreate"]
      BY <1>3, <3>1 DEF Like, NoLocals, MkdirLabels
    <3>2. CASE n = argument
      BY <1>4, <3>2
    <3>3. CASE n = [m EXCEPT !.rest = rest] \/ n = [m EXCEPT !.base = child, !.rest = rest]
      BY <1>3, <2>2, <3>3 DEF Like, NoLocals, MkdirLabels
    <3> QED
      BY <2>2, <3>1, <3>2, <3>3
  <2> QED
    BY <1>2, <2>2, <2>3
<1>7. CASE MkdirCreate(t)
  <2>1. PICK base, name : base = m.base /\ name = Head(m.rest).name
    OBVIOUS
  <2>2. PICK asked : asked = [m EXCEPT !.at = "mkAfter"]
    OBVIOUS
  <2>3. Settled(asked) /\ Plain(asked)
    <3>1. Like(m, asked) /\ asked.at \in MkdirLabels
      BY <1>3, <2>2 DEF Like, NoLocals, MkdirLabels
    <3> QED
      BY <1>1, <3>1, MkdirMoves
  <2>4. /\ Become(t, asked) /\ Noted(t)
        /\ tree' = tree \/ (CanCreate(base, name) /\ tree' = Created(base, name))
    BY <1>1, <1>7, <2>1, <2>2 DEF MkdirCreate, MakeRequest, Noted
  <2>5. CASE tree' = tree
    BY <2>3, <2>4, <2>5, RefusedKeeps
  <2>6. CASE CanCreate(base, name) /\ tree' = Created(base, name)
    <3>1. TreeTrue' /\ TreeAges /\ NothingGoes
      BY <1>1, <2>6, CreatedKeeps
    <3> QED
      BY <2>3, <2>4, <3>1, RequestKeeps
  <2> QED
    BY <2>4, <2>5, <2>6
<1>8. CASE MkdirAfter(t)
  <2>1. PICK child, rest : child = getChildNode(m.base, Head(m.rest).name) /\ rest = Tail(m.rest)
    OBVIOUS
  <2>2. PICK n : /\ Think(t, n)
                 /\ \/ n = argument
                    \/ n = [m EXCEPT !.at = "mkDone"]
                    \/ n = [m EXCEPT !.base = child, !.rest = rest, !.at = "mkLook"]
    BY <1>1, <1>4, <1>8, <2>1 DEF MkdirAfter
  <2>3. Like(m, n) /\ n.at \in MkdirLabels
    <3>1. CASE n = argument
      BY <1>4, <3>1
    <3>2. CASE \/ n = [m EXCEPT !.at = "mkDone"]
               \/ n = [m EXCEPT !.base = child, !.rest = rest, !.at = "mkLook"]
      BY <1>3, <3>2 DEF Like, NoLocals, MkdirLabels
    <3> QED
      BY <2>2, <3>1, <3>2
  <2> QED
    BY <1>2, <2>2, <2>3
<1>9. CASE MkdirDone(t)
  BY <1>2, <1>4, <1>9 DEF MkdirDone
<1> QED
  BY <1>5, <1>6, <1>7, <1>8, <1>9 DEF Mkdir

(* deleteversions: what it reads to remove are older versions, *)
LEMMA DeleteVersionsReadKeeps ==
  ASSUME TreeInv, NEW t \in Threads, DeleteVersionsRead(t)
  PROVE  StepIsGood(t)
<1>1. PICK m : m = my[t] /\ Settled(m) /\ TreeTrue
  BY DEF TreeInv, LocalsTrue
<1>2. PICK h, others : h = Head(m.rest).h /\ others = Tail(m.rest)
  OBVIOUS
<1>3. PICK versions : versions = Copies(getVersions(h) \ {h})
  OBVIOUS
<1>4. PICK rest : rest = Copies(getChildren(h)) \o others
  OBVIOUS
<1>5. PICK n : /\ Think(t, n) /\ m.at = "dvRead"
               /\ \/ n = [m EXCEPT !.at = "dvRemove", !.rest = others, !.versions = versions]
                  \/ n = [m EXCEPT !.rest = rest]
  BY <1>1, <1>2, <1>3, <1>4 DEF DeleteVersionsRead, AtStep
<1>6. m.nodes # <<>> /\ m.cmd.op = "deleteversions"
  BY <1>1, <1>5 DEF Settled, Holding
<1>7. CASE n = [m EXCEPT !.rest = rest]
  <2>1. Like(m, n) /\ n.at = "dvRead"
    BY <1>1, <1>5, <1>7 DEF Settled, NoLocals, Like
  <2>2. Settled(n) /\ Plain(n)
    BY <1>1, <1>6, <2>1 DEF Settled, AgreedTo, Plain, Like
  <2> QED
    BY <1>5, <2>2, ThinkKeeps
<1>8. CASE n = [m EXCEPT !.at = "dvRemove", !.rest = others, !.versions = versions]
  <2>1. Like(m, n) /\ n.at = "dvRemove" /\ n.versions = versions
    BY <1>1, <1>8 DEF Settled, NoLocals, Like
  <2>2. Settled(n)
    BY <1>1, <1>6, <2>1 DEF Settled, AgreedTo, Like
  <2>3. /\ IsList(versions)
        /\ \A v \in ToSet(versions) :
              \E k \in (getVersions(h) \ {h}) \cap Handles : v = getNodeByHandle(k)
    BY <1>3, NodesCopied
  <2>4. ASSUME NEW v \in ToSet(versions) PROVE CopyTrue(v) /\ (Exists(v.h) => ~Current(v.h))
    <3>1. PICK k \in Handles : k \in getVersions(h) /\ k # h /\ v = getNodeByHandle(k)
      BY <2>3
    <3>2. IsFile(h) /\ k \in Subtree(h)
      BY <3>1 DEF getVersions
    <3>3. IsFile(k) /\ ~Current(k)
      BY <1>1, <3>1, <3>2, SubtreeOfFile DEF Current
    <3>4. v.h = k
      BY <3>1, <3>3 DEF getNodeByHandle, IsFile
    <3> QED
      BY <3>1, <3>3, <3>4, NodeCopied
  <2>5. LocalsTrue(t, n)
    BY <2>1, <2>2, <2>3, <2>4 DEF LocalsTrue, Arrived, OldVersions
  <2> QED
    BY <1>5, <2>5, ThinkStep DEF Think
<1> QED
  BY <1>5, <1>7, <1>8

(* and they still are when one of them is removed. *)
LEMMA DeleteVersionsRemoveKeeps ==
  ASSUME TreeInv, NEW t \in Threads, DeleteVersionsRemove(t)
  PROVE  StepIsGood(t)
<1>1. PICK m : m = my[t] /\ Settled(m) /\ OldVersions(t, m) /\ TreeTrue
  BY DEF TreeInv, LocalsTrue
<1>2. PICK h : h = Head(m.versions).h
  OBVIOUS
<1>3. PICK n : n = [m EXCEPT !.versions = Tail(@)]
  OBVIOUS
<1>4. /\ Become(t, n) /\ Noted(t) /\ m.at = "dvRemove" /\ m.versions # <<>>
      /\ tree' = tree \/ (Movable(h) /\ tree' = VersionRemoved(h))
  BY <1>1, <1>2, <1>3 DEF DeleteVersionsRemove, AtStep, MakeRequest, Noted
<1>5. Like(m, n) /\ n.at = "dvRemove" /\ n.versions = Tail(m.versions)
  BY <1>1, <1>3, <1>4 DEF Settled, NoLocals, Like
<1>6. m.nodes # <<>> /\ m.cmd.op = "deleteversions"
  BY <1>1, <1>4 DEF Settled, Holding
<1>7. Settled(n)
  BY <1>1, <1>5, <1>6 DEF Settled, AgreedTo, Like
<1>8. /\ IsList(m.versions)
      /\ \A v \in ToSet(m.versions) :
            CopyTrue(v) /\ (t \in promoted \/ (Exists(v.h) => ~Current(v.h)))
  BY <1>1, <1>4 DEF OldVersions
<1>9. /\ Head(m.versions) \in ToSet(m.versions)
      /\ IsList(n.versions) /\ ToSet(n.versions) \subseteq ToSet(m.versions)
  BY <1>4, <1>5, <1>8, HeadAndTail
<1>10. \A u \in Threads : (u \in stirred => u \in stirred') /\ (u \in promoted => u \in promoted')
  BY <1>4 DEF Noted
<1>11. CASE tree' = tree
  <2>1. LocalsTrue(t, n)
    BY <1>5, <1>7, <1>8, <1>9 DEF LocalsTrue, Arrived, OldVersions
  <2> QED
    BY <1>4, <1>10, <1>11, <2>1, ThinkStep
<1>12. CASE Movable(h) /\ tree' = VersionRemoved(h)
  <2>1. /\ TreeTrue' /\ TreeAges
        /\ \A k \in Handles : Exists(k) /\ tree'[k].kind = "gone" => k = h
        /\ ~Current(h) => \A k \in Handles : Exists(k)' /\ ~Current(k) => ~Current(k)'
    BY <1>1, <1>12, VersionRemovedKeeps
  <2>2. t \in promoted \/ ~Current(h)
    BY <1>2, <1>8, <1>9 DEF Current
  <2>3. ASSUME NEW v \in ToSet(n.versions)
        PROVE  CopyTrue(v)' /\ (t \in promoted' \/ (Exists(v.h)' => ~Current(v.h)'))
    <3>1. CopyTrue(v) /\ (t \in promoted \/ (Exists(v.h) => ~Current(v.h)))
      BY <1>8, <1>9
    <3>2. CopyTrue(v)'
      BY <2>1, <3>1, CopyAges
    <3>3. Exists(v.h)' => v.h \in Handles /\ Exists(v.h)
      BY <2>1, <3>1 DEF TreeAges, Exists, CopyTrue
    <3> QED
      BY <1>10, <2>1, <2>2, <3>1, <3>2, <3>3
  <2>4. Settled(n)'
    BY <1>7, <2>1, SettledAges
  <2>5. LocalsTrue(t, n)'
    BY <1>5, <1>9, <2>3, <2>4 DEF LocalsTrue, Arrived, OldVersions
  <2>6. TreeInv' /\ \A u \in Threads \ {t} : my'[u] = my[u]
    BY <1>4, <2>1, <2>5, StepKeeps, OthersNotice
  <2>7. TakesItsOwn(t)
    BY <1>1, <1>6, <2>1, <2>2 DEF TakesItsOwn, Gone
  <2> QED
    BY <2>6, <2>7 DEF StepIsGood
<1> QED
  BY <1>4, <1>11, <1>12

LEMMA DeleteVersionsKeeps ==
  ASSUME TreeInv, NEW t \in Threads, DeleteVersions(t)
  PROVE  StepIsGood(t)
<1>1. PICK m : m = my[t] /\ Settled(m) /\ LocalsTrue(t, m) /\ TreeTrue
  BY DEF TreeInv, LocalsTrue
<1>2. PICK next : next = [m EXCEPT !.nodes = Tail(@), !.at = "node"]
  OBVIOUS
<1>3. NextNode(t) = next
  BY <1>1, <1>2 DEF NextNode
<1>4. m.nodes # <<>> => Settled(next) /\ Plain(next)
  BY <1>1, <1>2, NextNodeSettled
<1>5. Settled(NoLocals) /\ Plain(NoLocals)
  BY NoLocalsSettled DEF Plain, NoLocals
<1>6. CASE DeleteVersionsAll(t)
  <2>1. m.at = "dvAll" /\ m.cmd.op = "deleteversions"
    BY <1>1, <1>6 DEF DeleteVersionsAll, AtStep, Settled
  <2>2. PICK S : S = {h \in Handles : IsFile(tree[h].parent)}
    OBVIOUS
  <2>3. \/ Think(t, NoLocals) \/ Think(t, m)
        \/ /\ Become(t, NoLocals) /\ Noted(t)
           /\ \/ tree' = tree
              \/ tree' = [h \in Handles |-> IF IsFile(tree[h].parent) THEN GoneNode ELSE tree[h]]
    BY <1>1, <1>6 DEF DeleteVersionsAll, MakeRequest, Noted
  <2>4. CASE Think(t, NoLocals)
    BY <1>5, <2>4, ThinkKeeps
  <2>5. CASE Think(t, m)
    BY <1>1, <2>1, <2>5, ThinkKeeps DEF Plain
  <2>6. CASE Become(t, NoLocals) /\ Noted(t) /\ tree' = tree
    BY <1>5, <2>6, RefusedKeeps
  <2>7. CASE /\ Become(t, NoLocals) /\ Noted(t)
             /\ tree' = [h \in Handles |-> IF IsFile(tree[h].parent) THEN GoneNode ELSE tree[h]]
    <3>1. tree' = [h \in Handles |-> IF h \in S THEN GoneNode ELSE tree[h]]
      BY <2>2, <2>7
    <3>2. /\ TreeTrue' /\ TreeAges
          /\ \A h \in Handles : Exists(h) /\ tree'[h].kind = "gone" => h \in S
      BY <1>1, <3>1, GoingKeeps
    <3>3. LocalsTrue(t, NoLocals)'
      BY <1>5, <3>2, SettledAges DEF LocalsTrue, Arrived, OldVersions, Plain
    <3>4. TreeInv' /\ \A u \in Threads \ {t} : my'[u] = my[u]
      BY <2>7, <3>2, <3>3, StepKeeps, OthersNotice
    <3>5. TakesItsOwn(t)
      BY <1>1, <2>1, <2>2, <3>2 DEF TakesItsOwn, Gone, Current
    <3> QED
      BY <3>4, <3>5 DEF StepIsGood
  <2> QED
    BY <2>3, <2>4, <2>5, <2>6, <2>7
<1>7. CASE DeleteVersionsOf(t)
  <2>1. PICK n, rest : /\ rest = <<Node(t)>>
                       /\ n = [m EXCEPT !.at = IF m.force THEN "dvRead" ELSE "dvAsk", !.rest = rest]
    OBVIOUS
  <2>2. m.nodes # <<>> /\ m.cmd.op = "deleteversions" /\ (Think(t, next) \/ Think(t, n))
    BY <1>1, <1>3, <1>7, <2>1 DEF DeleteVersionsOf, AtOp
  <2>3. Like(m, n) /\ n.at \in {"dvRead", "dvAsk"}
    BY <1>1, <2>1 DEF Settled, NoLocals, Like
  <2>4. Settled(n) /\ Plain(n)
    BY <1>1, <2>2, <2>3 DEF Settled, AgreedTo, Plain, Like
  <2> QED
    BY <1>4, <2>2, <2>4, ThinkKeeps
<1>8. CASE DeleteVersionsAnswered(t)
  <2>1. m.at = "dvAsk" /\ m.nodes # <<>> /\ m.cmd.op = "deleteversions" /\ m.force \in BOOLEAN
    BY <1>1, <1>8 DEF DeleteVersionsAnswered, AtStep, Settled, Holding
  <2>2. PICK answer \in {"yes", "no", "all", "none"} :
          Think(t, IF answer \in {"yes", "all"}
                     THEN [m EXCEPT !.at = "dvRead", !.force = @ \/ answer = "all"]
                     ELSE next)
    BY <1>1, <1>3, <1>8 DEF DeleteVersionsAnswered
  <2>3. PICK f \in BOOLEAN : f = (m.force \/ answer = "all")
    OBVIOUS
  <2>4. PICK n : n = [m EXCEPT !.at = "dvRead", !.force = f]
    OBVIOUS
  <2>5. Think(t, n) \/ Think(t, next)
    BY <2>2, <2>3, <2>4
  <2>6. /\ DOMAIN n = DOMAIN m /\ n.nodes = m.nodes /\ n.target = m.target /\ n.cmd = m.cmd
        /\ n.force = f /\ n.at = "dvRead"
    BY <1>1, <2>4 DEF Settled, NoLocals
  <2>7. Settled(n) /\ Plain(n)
    BY <1>1, <2>1, <2>6 DEF Settled, AgreedTo, Plain
  <2> QED
    BY <1>4, <2>1, <2>5, <2>7, ThinkKeeps
<1>9. CASE DeleteVersionsNext(t)
  <2>1. PICK n : n = [m EXCEPT !.at = "dvRead"]
    OBVIOUS
  <2>2. /\ m.at \in {"dvRemove", "dvRead"}
        /\ Think(t, n) \/ Think(t, next)
    BY <1>1, <1>3, <1>9, <2>1 DEF DeleteVersionsNext, AtStep
  <2>3. m.nodes # <<>> /\ m.cmd.op = "deleteversions"
    BY <1>1, <2>2 DEF Settled, Holding
  <2>4. Like(m, n) /\ n.at = "dvRead"
    BY <1>1, <2>1 DEF Settled, NoLocals, Like
  <2>5. Settled(n) /\ Plain(n)
    BY <1>1, <2>3, <2>4 DEF Settled, AgreedTo, Plain, Like
  <2> QED
    BY <1>4, <2>2, <2>3, <2>5, ThinkKeeps
<1> QED
  BY <1>6, <1>7, <1>8, <1>9, DeleteVersionsReadKeeps, DeleteVersionsRemoveKeeps DEF DeleteVersions

(* export *)
LEMMA ExportKeeps ==
  ASSUME TreeInv, NEW t \in Threads, Export(t)
  PROVE  StepIsGood(t)
<1>1. PICK m : m = my[t] /\ Settled(m) /\ TreeTrue
  BY DEF TreeInv, LocalsTrue
<1>2. PICK next, node : next = [m EXCEPT !.nodes = Tail(@), !.at = "node"] /\ node = Head(m.nodes)
  OBVIOUS
<1>3. NextNode(t) = next /\ Node(t) = node
  BY <1>1, <1>2 DEF NextNode, Node
<1>4. m.nodes # <<>> => Settled(next) /\ Plain(next)
  BY <1>1, <1>2, NextNodeSettled
<1>5. PICK h : h = node.h
  OBVIOUS
<1>6. ASSUME m.nodes # <<>>, NEW label \in {"exportAccept", "exportAsk", "exportRequest"},
             NEW n, n = [m EXCEPT !.at = label]
      PROVE  Settled(n) /\ Plain(n)
  <2>1. Like(m, n) /\ n.at = label
    BY <1>1, <1>6 DEF Settled, NoLocals, Like
  <2> QED
    BY <1>1, <1>6, <2>1, MovesOn
<1>7. CASE ExportNode(t)
  <2>1. m.nodes # <<>> /\ \E n : /\ Think(t, n)
                                 /\ \/ n = next
                                    \/ n = [m EXCEPT !.at = "exportAccept"]
                                    \/ n = [m EXCEPT !.at = "exportAsk"]
    BY <1>1, <1>3, <1>7 DEF ExportNode
  <2> QED
    BY <1>4, <1>6, <2>1, ThinkKeeps
<1>8. CASE ExportAnswered(t)
  <2>1. m.nodes # <<>>
    BY <1>1, <1>8 DEF ExportAnswered, AtStep, Settled, Holding
  <2>2. \E n : Think(t, n) /\ (n = next \/ n = [m EXCEPT !.at = "exportAccept"])
    BY <1>1, <1>3, <1>8 DEF ExportAnswered
  <2> QED
    BY <1>4, <1>6, <2>1, <2>2, ThinkKeeps
<1>9. CASE ExportAccept(t)
  <2>1. m.nodes # <<>>
    BY <1>1, <1>9 DEF ExportAccept, AtStep, Settled, Holding
  <2>2. PICK n : n = [m EXCEPT !.at = "exportRequest"]
    OBVIOUS
  <2>3. Become(t, n) /\ tree' = tree /\ stirred' = stirred /\ promoted' = promoted
    BY <1>1, <1>9, <2>2 DEF ExportAccept
  <2>4. LocalsTrue(t, n)
    BY <1>6, <2>1, <2>2, PlainTrue
  <2> QED
    BY <2>3, <2>4, ThinkStep
<1>10. CASE ExportRequest(t)
  <2>1. m.nodes # <<>>
    BY <1>1, <1>10 DEF ExportRequest, AtStep, Settled, Holding
  <2>2. /\ Become(t, next) /\ Noted(t)
        /\ tree' = tree \/ (Movable(h) /\ tree' = [tree EXCEPT ![h].link = TRUE])
    BY <1>3, <1>5, <1>10 DEF ExportRequest, MakeRequest, Noted
  <2>3. CASE tree' = tree
    BY <1>4, <2>1, <2>2, <2>3, RefusedKeeps
  <2>4. CASE Movable(h) /\ tree' = [tree EXCEPT ![h].link = TRUE]
    <3>1. Exists(h)
      BY <2>4 DEF Movable
    <3>2. TreeTrue' /\ TreeAges /\ NothingGoes
      BY <1>1, <2>4, <3>1, MarkedKeeps
    <3> QED
      BY <1>4, <2>1, <2>2, <3>2, RequestKeeps
  <2> QED
    BY <2>2, <2>3, <2>4
<1>11. CASE DisableExport(t)
  <2>1. m.nodes # <<>>
    BY <1>1, <1>11 DEF DisableExport
  <2>2. \/ Think(t, next)
        \/ /\ Become(t, next) /\ Noted(t)
           /\ tree' = tree \/ (Movable(h) /\ tree' = [tree EXCEPT ![h].link = FALSE])
    BY <1>3, <1>5, <1>11 DEF DisableExport, MakeRequest, Noted
  <2>3. CASE Think(t, next)
    BY <1>4, <2>1, <2>3, ThinkKeeps
  <2>4. CASE Become(t, next) /\ Noted(t) /\ tree' = tree
    BY <1>4, <2>1, <2>4, RefusedKeeps
  <2>5. CASE /\ Become(t, next) /\ Noted(t)
             /\ Movable(h) /\ tree' = [tree EXCEPT ![h].link = FALSE]
    <3>1. Exists(h)
      BY <2>5 DEF Movable
    <3>2. TreeTrue' /\ TreeAges /\ NothingGoes
      BY <1>1, <2>5, <3>1, MarkedKeeps
    <3> QED
      BY <1>4, <2>1, <2>5, <3>2, RequestKeeps
  <2> QED
    BY <2>2, <2>3, <2>4, <2>5
<1> QED
  BY <1>7, <1>8, <1>9, <1>10, <1>11 DEF Export

(* share *)
LEMMA ShareKeeps ==
  ASSUME TreeInv, NEW t \in Threads, Share(t)
  PROVE  StepIsGood(t)
<1>1. PICK m : m = my[t] /\ Settled(m) /\ TreeTrue
  BY DEF TreeInv, LocalsTrue
<1>2. PICK next, node : next = [m EXCEPT !.nodes = Tail(@), !.at = "node"] /\ node = Head(m.nodes)
  OBVIOUS
<1>3. NextNode(t) = next /\ Node(t) = node
  BY <1>1, <1>2 DEF NextNode, Node
<1>4. m.nodes # <<>> => Settled(next) /\ Plain(next)
  BY <1>1, <1>2, NextNodeSettled
<1>5. PICK h : h = node.h
  OBVIOUS
<1>6. ASSUME m.nodes # <<>>, NEW n, Like(m, n), n.at \in {"shareNext", "shareRequest"}
      PROVE  Settled(n) /\ Plain(n)
  BY <1>1, <1>6, MovesOn
<1>7. CASE ShareNode(t)
  <2>1. PICK with : with = IF m.cmd.with # "" THEN {m.cmd.with} ELSE tree[h].users
    OBVIOUS
  <2>2. PICK n : n = [m EXCEPT !.at = "shareNext", !.users = with]
    OBVIOUS
  <2>3. m.nodes # <<>> /\ (Think(t, next) \/ Think(t, n))
    BY <1>1, <1>3, <1>5, <1>7, <2>1, <2>2 DEF ShareNode
  <2>4. Like(m, n) /\ n.at = "shareNext"
    BY <1>1, <2>2 DEF Settled, NoLocals, Like
  <2> QED
    BY <1>4, <1>6, <2>3, <2>4, ThinkKeeps
<1>8. CASE ShareNext(t)
  <2>1. PICK left : left = m.users \ {CHOOSE u \in m.users : TRUE}
    OBVIOUS
  <2>2. PICK skips, asks : skips = [m EXCEPT !.users = left] /\ asks = [m EXCEPT !.at = "shareRequest"]
    OBVIOUS
  <2>3. m.at = "shareNext" /\ m.nodes # <<>>
    BY <1>1, <1>8 DEF ShareNext, AtStep, Settled, Holding
  <2>4. \/ Think(t, next)
        \/ (Become(t, asks) \/ Become(t, skips)) /\ Noted(t) /\ tree' = tree
    BY <1>1, <1>3, <1>8, <2>1, <2>2 DEF ShareNext, MakeRequest, Noted
  <2>5. Like(m, skips) /\ skips.at = "shareNext" /\ Like(m, asks) /\ asks.at = "shareRequest"
    BY <1>1, <2>2, <2>3 DEF Settled, NoLocals, Like
  <2>6. Settled(skips) /\ Plain(skips) /\ Settled(asks) /\ Plain(asks)
    BY <1>6, <2>3, <2>5
  <2> QED
    BY <1>4, <2>3, <2>4, <2>6, ThinkKeeps, RefusedKeeps
<1>9. CASE ShareRequest(t)
  <2>1. PICK u : u = CHOOSE x \in m.users : TRUE
    OBVIOUS
  <2>2. PICK v : v = IF Has(t, "a") THEN tree[h].users \cup {u} ELSE tree[h].users \ {u}
    OBVIOUS
  <2>3. PICK left : left = m.users \ {u}
    OBVIOUS
  <2>4. PICK n : n = [m EXCEPT !.at = "shareNext", !.users = left]
    OBVIOUS
  <2>5. m.nodes # <<>>
    BY <1>1, <1>9 DEF ShareRequest, AtStep, Settled, Holding
  <2>6. /\ Become(t, n) /\ Noted(t)
        /\ tree' = tree \/ (IsFolder(h) /\ tree' = [tree EXCEPT ![h].users = v])
    BY <1>1, <1>3, <1>5, <1>9, <2>1, <2>2, <2>3, <2>4 DEF ShareRequest, MakeRequest, Noted
  <2>7. Like(m, n) /\ n.at = "shareNext"
    BY <1>1, <2>4 DEF Settled, NoLocals, Like
  <2>8. Settled(n) /\ Plain(n)
    BY <1>6, <2>5, <2>7
  <2>9. CASE tree' = tree
    BY <2>6, <2>8, <2>9, RefusedKeeps
  <2>10. CASE IsFolder(h) /\ tree' = [tree EXCEPT ![h].users = v]
    <3>1. Exists(h)
      BY <2>10 DEF IsFolder
    <3>2. TreeTrue' /\ TreeAges /\ NothingGoes
      BY <1>1, <2>10, <3>1, MarkedKeeps
    <3> QED
      BY <2>6, <2>8, <3>2, RequestKeeps
  <2> QED
    BY <2>6, <2>9, <2>10
<1> QED
  BY <1>7, <1>8, <1>9 DEF Share

(* cd and ls *)
LEMMA CdAndLsKeep ==
  ASSUME TreeInv, NEW t \in Threads, cd(t) \/ LsPaths(t) \/ LsNext(t)
  PROVE  StepIsGood(t)
<1>1. PICK m : m = my[t] /\ Settled(m) /\ TreeTrue
  BY DEF TreeInv, LocalsTrue
<1>2. ASSUME NEW n, Like(m, n), n.at \in {"arg", "lsNext"} PROVE Settled(n) /\ Plain(n)
  BY <1>1, <1>2, MovesOn DEF Holding
<1>3. CASE cd(t)
  <2>1. PICK n : n = [m EXCEPT !.i = 2]
    OBVIOUS
  <2>2. Become(t, n) /\ tree' = tree /\ stirred' = Threads /\ promoted' = promoted /\ m.at = "arg"
    BY <1>1, <1>3, <2>1 DEF cd, AtOp, AtStep
  <2>3. Like(m, n) /\ n.at = "arg"
    BY <1>1, <2>1, <2>2 DEF Settled, NoLocals, Like
  <2>4. LocalsTrue(t, n)
    BY <1>2, <2>3, PlainTrue
  <2> QED
    BY <2>2, <2>4, ThinkStep
<1>4. CASE LsPaths(t)
  <2>1. PICK paths : paths = IF isRegExp(Path(t)) THEN nodesPathsbypath(Path(t)) ELSE {Path(t)}
    OBVIOUS
  <2>2. PICK n : n = [m EXCEPT !.at = "lsNext", !.paths = paths]
    OBVIOUS
  <2>3. Think(t, n)
    BY <1>1, <1>4, <2>1, <2>2 DEF LsPaths
  <2>4. Like(m, n) /\ n.at = "lsNext"
    BY <1>1, <2>2 DEF Settled, NoLocals, Like
  <2> QED
    BY <1>2, <2>3, <2>4, ThinkKeeps
<1>5. CASE LsNext(t)
  <2>1. m.at = "lsNext" /\ \E n : /\ Think(t, n)
                                  /\ \/ n = [m EXCEPT !.at = "arg", !.i = @ + 1]
                                     \/ \E p : n = [m EXCEPT !.paths = @ \ {p}]
    BY <1>1, <1>5 DEF LsNext, AtStep
  <2>2. PICK n, p : /\ Think(t, n)
                    /\ n = [m EXCEPT !.at = "arg", !.i = @ + 1] \/ n = [m EXCEPT !.paths = @ \ {p}]
    BY <2>1
  <2>3. Like(m, n) /\ n.at \in {"arg", "lsNext"}
    BY <1>1, <2>1, <2>2 DEF Settled, NoLocals, Like
  <2> QED
    BY <1>2, <2>2, <2>3, ThinkKeeps
<1> QED
  BY <1>3, <1>4, <1>5

-----------------------------------------------------------------------------
(* The other devices, and the steps that change nothing *)

(* Nobody's locals change. *)
LEMMA NobodySteps ==
  ASSUME TreeInv, my' = my, TreeTrue', TreeAges, \A u \in Threads : Noticed(u)
  PROVE  TreeInv'
<1>1. ASSUME NEW u \in Threads PROVE LocalsTrue(u, my[u])'
  <2>1. PICK m : m = my[u] /\ LocalsTrue(u, m)
    BY DEF TreeInv
  <2>2. LocalsTrue(u, m)'
    BY <2>1, LocalsAge
  <2> QED
    BY <2>1, <2>2
<1> QED
  BY <1>1 DEF TreeInv

(* A new version takes the place of the file, which is below it from then on. *)
LEMMA UploadedKeeps ==
  ASSUME TreeTrue, NEW h, Current(h), IsFile(h), Unused # {}, tree' = Uploaded(h)
  PROVE  TreeTrue' /\ TreeAges
<1>1. PICK new \in Handles : new = NewHandle /\ tree[new].kind = "none" /\ ~Exists(new)
  BY FreshHandle
<1>2. /\ h \in Handles /\ h # new /\ Exists(h) /\ DOMAIN tree = Handles
      /\ \A k \in Handles : DOMAIN tree[k] = DOMAIN NoNode
  BY <1>1 DEF IsFile, Exists, TreeTrue, NodesKnown
<1>3. /\ DOMAIN tree' = Handles
      /\ DOMAIN tree'[new] = DOMAIN NoNode /\ tree'[new].kind = tree[h].kind
      /\ tree'[new].parent = tree[h].parent
      /\ DOMAIN tree'[h] = DOMAIN NoNode /\ tree'[h].kind = tree[h].kind /\ tree'[h].parent = new
      /\ \A k \in Handles : k # h /\ k # new => tree'[k] = tree[k]
  BY <1>1, <1>2 DEF NoNode, Uploaded
<1>4. \A k \in Handles : tree[k].kind # "none" => k # new /\ tree'[k].kind = tree[k].kind
  BY <1>1, <1>2, <1>3
<1>5. tree[h].kind # "none"
  BY <1>2 DEF Exists
<1>6. NodesKnown'
  <2>1. ASSUME NEW k \in Handles, Exists(k)', tree'[k].parent # Null
        PROVE  tree'[k].parent \in Handles /\ tree'[tree'[k].parent].kind # "none"
    <3>1. CASE k = h
      BY <1>1, <1>3, <1>5, <3>1
    <3>2. CASE k = new
      BY <1>2, <1>3, <1>4, <2>1, <3>2 DEF TreeTrue, NodesKnown
    <3>3. CASE k # h /\ k # new
      <4>1. tree'[k] = tree[k] /\ Exists(k)
        BY <1>3, <2>1, <3>3 DEF Exists
      <4>2. tree[k].parent \in Handles /\ tree[tree[k].parent].kind # "none"
        BY <2>1, <4>1 DEF TreeTrue, NodesKnown
      <4> QED
        BY <1>4, <4>1, <4>2
    <3> QED
      BY <3>1, <3>2, <3>3
  <2> QED
    BY <1>2, <1>3, <2>1 DEF NodesKnown
<1>7. VersionsBelow'
  <2>1. \A k \in Handles : Exists(k)' /\ IsFile(tree[k].parent)' =>
          /\ IsFile(k)' /\ k # new
          /\ \/ k = h /\ tree'[k].parent = new
             \/ /\ tree'[k].parent # new /\ Exists(k) /\ IsFile(tree[k].parent)
                /\ tree'[k].parent = tree[k].parent
    <3> SUFFICES ASSUME NEW k \in Handles, Exists(k)', IsFile(tree[k].parent)'
                 PROVE  /\ IsFile(k)' /\ k # new
                        /\ \/ k = h /\ tree'[k].parent = new
                           \/ /\ tree'[k].parent # new /\ Exists(k) /\ IsFile(tree[k].parent)
                              /\ tree'[k].parent = tree[k].parent
      OBVIOUS
    <3>1. PICK p \in Handles : p = tree'[k].parent /\ tree'[p].kind = "file"
      BY DEF IsFile, Exists
    <3>2. CASE k = h
      BY <1>2, <1>3, <3>2 DEF IsFile, Exists
    <3>3. k # new
      <4> SUFFICES ASSUME k = new PROVE FALSE
        OBVIOUS
      <4>1. p = tree[h].parent /\ p # Null
        BY <1>3, <3>1, HandlesAreFinite DEF Handles, Null
      <4>2. tree[p].kind = "file"
        BY <1>2, <1>4, <3>1, <4>1 DEF TreeTrue, NodesKnown
      <4> QED
        BY <4>1, <4>2 DEF Current, IsFile, Exists
    <3>4. CASE k # h
      <4>1. tree'[k] = tree[k] /\ Exists(k) /\ p = tree[k].parent /\ p # Null
        BY <1>3, <3>1, <3>3, <3>4, HandlesAreFinite DEF Exists, Handles, Null
      <4>2. tree[p].kind = "file" /\ p # new
        BY <1>4, <3>1, <4>1 DEF TreeTrue, NodesKnown
      <4>3. IsFile(tree[k].parent)
        BY <4>1, <4>2 DEF IsFile, Exists
      <4>4. IsFile(k)
        BY <4>1, <4>3 DEF TreeTrue, VersionsBelow
      <4> QED
        BY <3>3, <4>1, <4>2, <4>3, <4>4 DEF IsFile, Exists
    <3> QED
      BY <3>2, <3>4
  <2> QED
    BY <2>1, VersionsStay
<1> QED
  BY <1>4, <1>6, <1>7 DEF TreeTrue, TreeAges

(* What other devices do stirs everybody. *)
LEMMA ElsewhereKeeps ==
  ASSUME TreeInv, Elsewhere
  PROVE  TreeInv' /\ my' = my
<1>1. PICK h \in Handles :
        /\ Current(h) /\ IsFile(h)
        /\ tree' = Removed(h) \/ (Unused # {} /\ tree' = Uploaded(h))
  BY DEF Elsewhere
<1>2. TreeTrue' /\ TreeAges
  BY <1>1, RemovedKeeps, UploadedKeeps DEF TreeInv
<1>3. my' = my /\ stirred' = Threads /\ promoted' = IF Promotes THEN Threads ELSE promoted
  BY DEF Elsewhere
<1>4. \A u \in Threads : Noticed(u)
  BY <1>3 DEF Noticed, Promotes
<1> QED
  BY <1>2, <1>3, <1>4, NobodySteps

(* A stuttering step. *)
LEMMA NothingHappens ==
  ASSUME TreeInv, UNCHANGED treeVars
  PROVE  TreeInv' /\ my' = my
<1>1. tree' = tree /\ my' = my /\ stirred' = stirred /\ promoted' = promoted
  BY DEF treeVars
<1>2. TreeTrue' /\ TreeAges
  BY <1>1, StandsStill DEF TreeInv
<1>3. \A u \in Threads : Noticed(u)
  BY <1>1, StandsStill DEF TreeInv, Noticed, Exists
<1> QED
  BY <1>1, <1>2, <1>3, NobodySteps

(* Every step keeps TreeInv, and takes only what is its own. *)
LEMMA CommandSteps ==
  ASSUME TreeInv, TreeNext
  PROVE  TreeInv' /\ (my' = my \/ \E t \in Threads : StepIsGood(t))
<1>1. CASE \E t \in Threads :
             \/ Start(t) \/ ResolveArgument(t) \/ ArgumentDone(t) \/ FinishCommand(t)
             \/ Rm(t) \/ Mv(t) \/ Cp(t) \/ Mkdir(t) \/ DeleteVersions(t) \/ Export(t) \/ Share(t)
             \/ cd(t) \/ LsPaths(t) \/ LsNext(t)
  <2>1. PICK t \in Threads : StepIsGood(t)
    BY <1>1, StartKeeps, ResolveArgumentKeeps, ArgumentDoneKeeps, FinishCommandKeeps, RmKeeps,
       MvKeeps, CpKeeps, MkdirKeeps, DeleteVersionsKeeps, ExportKeeps, ShareKeeps, CdAndLsKeep
  <2> QED
    BY <2>1 DEF StepIsGood
<1>2. CASE Elsewhere
  BY <1>2, ElsewhereKeeps
<1>3. CASE Done
  BY <1>3, NothingHappens DEF Done
<1> QED
  BY <1>1, <1>2, <1>3 DEF TreeNext

(* TreeInv holds at the start, *)
LEMMA InitTreeInv == TreeInit => TreeInv
<1> SUFFICES ASSUME TreeInit PROVE TreeInv
  OBVIOUS
<1>1. TreeTrue
  BY InitTreeTrue
<1>2. DOMAIN my = Threads /\ \A t \in Threads : my[t] = NoLocals
  BY DEF TreeInit
<1>3. \A t \in Threads : LocalsTrue(t, NoLocals)
  BY NoLocalsSettled, PlainTrue DEF Plain, NoLocals
<1> QED
  BY <1>1, <1>2, <1>3 DEF TreeInv

(* and always. *)
LEMMA TreeInvHolds == TreeSpec => []TreeInv
<1>1. TreeInv /\ [TreeNext]_treeVars => TreeInv'
  BY CommandSteps, NothingHappens
<1> QED
  BY <1>1, InitTreeInv, PTL DEF TreeSpec

-----------------------------------------------------------------------------
(* What mv and cp, rm, and deleteversions take away *)

(* mv and cp remove a file only once what replaces it is beside it, or      *)
(* after somebody else moved things about meanwhile: for any tree, commands *)
(* and clients.                                                             *)
THEOREM ReplacedOnlyByArrivalHolds == TreeSpec => ReplacedOnlyByArrival
<1> DEFINE Kept ==
      \A t \in Threads : Steps(t) /\ my[t].cmd.op \in {"mv", "cp"} =>
         \A h \in Handles : Gone(h) /\ Current(h) =>
           \E k \in my[t].placed :
             \/ t \in stirred
             \/ Exists(k) /\ ~Gone(k) /\ tree[k].parent = my[t].target.parent
<1>1. TreeInv /\ [TreeNext]_treeVars => Kept
  <2> SUFFICES ASSUME TreeInv, [TreeNext]_treeVars PROVE Kept
    OBVIOUS
  <2>1. my' = my \/ \E t \in Threads : StepIsGood(t)
    BY CommandSteps, NothingHappens
  <2> QED
    BY <2>1 DEF Steps, StepIsGood, TakesItsOwn
<1> QED
  BY <1>1, TreeInvHolds, PTL DEF TreeSpec, ReplacedOnlyByArrival

(* rm removes nothing but what its argument led to and what is inside, and  *)
(* a folder only with -r and the user's consent to that folder or to        *)
(* everything, but for the folders that follow a file in the same command:  *)
(* for any tree, commands and clients.                                      *)
THEOREM RemovesOnlyWhatWasAgreedHolds == TreeSpec => RemovesOnlyWhatWasAgreed
<1> DEFINE Kept ==
      \A t \in Threads : Steps(t) /\ my[t].cmd.op = "rm" =>
         \A h \in Handles : Gone(h) =>
           /\ h \in Subtree(Node(t).h)
           /\ \/ IsFile(Node(t).h)
              \/ /\ Has(t, "r")
                 /\ \/ Has(t, "f") \/ my[t].agreed \cap {Null, Node(t).h} # {}
                    \/ my[t].unasked
<1>1. TreeInv /\ [TreeNext]_treeVars => Kept
  <2> SUFFICES ASSUME TreeInv, [TreeNext]_treeVars PROVE Kept
    OBVIOUS
  <2>1. my' = my \/ \E t \in Threads : StepIsGood(t)
    BY CommandSteps, NothingHappens
  <2> QED
    BY <2>1 DEF Steps, StepIsGood, TakesItsOwn
<1> QED
  BY <1>1, TreeInvHolds, PTL DEF TreeSpec, RemovesOnlyWhatWasAgreed

(* deleteversions removes no last version, unless another command has taken *)
(* a version out of its file meanwhile: for any tree, commands and clients. *)
THEOREM LastVersionsSurviveHolds == TreeSpec => LastVersionsSurvive
<1> DEFINE Kept ==
      \A t \in Threads : Steps(t) /\ my[t].cmd.op = "deleteversions" /\ t \notin promoted =>
         \A h \in Handles : Gone(h) => ~Current(h)
<1>1. TreeInv /\ [TreeNext]_treeVars => Kept
  <2> SUFFICES ASSUME TreeInv, [TreeNext]_treeVars PROVE Kept
    OBVIOUS
  <2>1. my' = my \/ \E t \in Threads : StepIsGood(t)
    BY CommandSteps, NothingHappens
  <2> QED
    BY <2>1 DEF Steps, StepIsGood, TakesItsOwn
<1> QED
  BY <1>1, TreeInvHolds, PTL DEF TreeSpec, LastVersionsSurvive

===============================================================================
