---------------------------- MODULE SessionProofs ----------------------------
(***************************************************************************)
(* Proofs about Session, for any threads, commands, ways of being blocked   *)
(* and numbers of sessions and events.                                      *)
(*                                                                         *)
(* LoginGreetingHasLogin needs that the guard of a login is only entered by *)
(* a login (GuardsAreOfLogins), and that a new process has no greetings     *)
(* (DownIsSilent).  The same steps show who will tell a shell that waits    *)
(* for the login it was told of.                                            *)
(***************************************************************************)
EXTENDS Session, TLAPS

-----------------------------------------------------------------------------
(* The inductive invariant *)

States == {"idle", "greet", "checking", "dispatch", "guard", "unguardTell", "clear", "done"}
          \cup Guarded

Typed ==
    /\ server \in {"up", "down"}
    /\ pc \in [Actors -> States]
    /\ cmd \in [Threads -> Commands \cup {"resume", "none"}]
    /\ loginGreetings \in Nat
    /\ shell \in {"none", "ready", "resuming"}

GuardsAreOfLogins == \A t \in Threads : pc[t] = "guard" => LoggingIn(t)

DownIsSilent ==
    server = "down" => loginGreetings = 0 /\ shell = "none"

Guards(t) == LoggingIn(t) /\ pc[t] \in Guarded

(* Whoever is between the greeting and the broadcast of its end. *)
WillTell(t) == LoggingIn(t) /\ pc[t] \in Guarded \cup {"unguardTell"}

ResumingShellIsTold ==
    shell = "resuming" => \E t \in Threads : WillTell(t)

IInv ==
    /\ Typed
    /\ GuardsAreOfLogins
    /\ DownIsSilent
    /\ LoginGreetingHasLogin
    /\ ResumingShellIsTold

LEMMA InitIInv == Init => IInv
BY ActorsAssumption
DEF Init, InitProcess, IInv, Typed, States, GuardsAreOfLogins, DownIsSilent,
    LoginGreetingHasLogin, ResumingShellIsTold, Actors

LEMMA DieKeeps ==
    ASSUME IInv, Die
    PROVE  IInv'
<1>1. Typed'
  BY DEF Die, IInv, Typed, States
<1>2. GuardsAreOfLogins' /\ DownIsSilent' /\ LoginGreetingHasLogin' /\ ResumingShellIsTold'
  BY DEF Die, GuardsAreOfLogins, DownIsSilent, LoginGreetingHasLogin, ResumingShellIsTold, Actors
<1> QED
  BY <1>1, <1>2 DEF IInv

-----------------------------------------------------------------------------
(* Steps of one thread *)

(* A step of a thread that goes on being what it was to the greetings and   *)
(* to the shell, or sees to them.                                           *)
LEMMA ThreadKeeps ==
    ASSUME IInv, NEW t \in Threads, server = "up", server' = server,
           NEW label \in States, Goto(t, label),
           NEW c \in Commands \cup {"resume", "none"}, cmd' = [cmd EXCEPT ![t] = c],
           label = "guard" => c \in {"login", "resume"},
           \/ loginGreetings' \in {0, loginGreetings}
           \/ label \in Guarded /\ c \in {"login", "resume"} /\ loginGreetings' \in Nat,
           shell' = shell \/ shell' = "ready",
           Guards(t) => Guards(t)' \/ loginGreetings' = 0,
           WillTell(t) => WillTell(t)' \/ shell' # "resuming"
    PROVE  IInv'
<1>1. t \in Actors /\ Threads \subseteq Actors
  BY DEF Actors
<1>2. Typed'
  BY <1>1 DEF IInv, Typed, Goto
<1>3. \A u \in Threads \ {t} : pc'[u] = pc[u] /\ cmd'[u] = cmd[u]
  BY <1>1 DEF IInv, Typed, Goto
<1>4. pc'[t] = label /\ cmd'[t] = c
  BY <1>1 DEF IInv, Typed, Goto
<1>5. GuardsAreOfLogins'
  BY <1>3, <1>4 DEF IInv, GuardsAreOfLogins, LoggingIn
<1>6. LoginGreetingHasLogin'
  <2> SUFFICES ASSUME loginGreetings' > 0
               PROVE  \E u \in Threads : Guards(u)'
    BY DEF LoginGreetingHasLogin, Guards
  <2>1. CASE Guards(t)'
    BY <2>1
  <2>2. CASE ~Guards(t)'
    <3>1. loginGreetings > 0 /\ ~Guards(t)
      BY <1>4, <2>2 DEF IInv, Typed, Guards, LoggingIn
    <3>2. PICK u \in Threads : Guards(u)
      BY <3>1 DEF IInv, LoginGreetingHasLogin, Guards
    <3> QED
      BY <1>3, <3>1, <3>2 DEF Guards, LoggingIn
  <2> QED
    BY <2>1, <2>2
<1>7. ResumingShellIsTold'
  <2> SUFFICES ASSUME shell' = "resuming"
               PROVE  \E u \in Threads : WillTell(u)'
    BY DEF ResumingShellIsTold
  <2>1. CASE WillTell(t)
    BY <2>1
  <2>2. CASE ~WillTell(t)
    <3>1. PICK u \in Threads : WillTell(u)
      BY DEF IInv, ResumingShellIsTold
    <3> QED
      BY <1>3, <2>2, <3>1 DEF WillTell, LoggingIn
  <2> QED
    BY <2>1, <2>2
<1> QED
  BY <1>2, <1>5, <1>6, <1>7 DEF IInv, DownIsSilent

(* ... and stays in its command.                                            *)
LEMMA StepInCommand ==
    ASSUME IInv, NEW t \in Threads, server = "up", NEW label \in States, Goto(t, label),
           UNCHANGED <<server, cmd>>,
           label = "guard" => LoggingIn(t),
           \/ loginGreetings' \in {0, loginGreetings}
           \/ label \in Guarded /\ LoggingIn(t) /\ loginGreetings' \in Nat,
           shell' = shell \/ shell' = "ready",
           Guards(t) => label \in Guarded \/ loginGreetings' = 0,
           WillTell(t) => label \in Guarded \cup {"unguardTell"} \/ shell' # "resuming"
    PROVE  IInv'
<1>1. cmd[t] \in Commands \cup {"resume", "none"} /\ cmd' = [cmd EXCEPT ![t] = cmd[t]]
  BY DEF IInv, Typed
<1>2. pc'[t] = label
  BY DEF Goto, IInv, Typed, Actors
<1>3. Guards(t) => Guards(t)' \/ loginGreetings' = 0
  BY <1>2 DEF Guards, LoggingIn
<1>4. WillTell(t) => WillTell(t)' \/ shell' # "resuming"
  BY <1>2 DEF WillTell, LoggingIn
<1> QED
  BY <1>1, <1>3, <1>4, ThreadKeeps DEF LoggingIn

(* A step that says nothing to a shell, and leaves no login.                *)
LEMMA QuietStep ==
    ASSUME IInv, NEW t \in Threads, server = "up", NEW label \in States, Goto(t, label),
           UNCHANGED <<server, cmd, loginGreetings, shell>>,
           label = "guard" => LoggingIn(t),
           Guards(t) => label \in Guarded,
           WillTell(t) => label \in Guarded \cup {"unguardTell"}
    PROVE  IInv'
BY StepInCommand

(* A login goes from its middle to its end, anything else is done.          *)
LEMMA LeaveKeeps ==
    ASSUME IInv, NEW t \in Threads, server = "up", Leave(t),
           UNCHANGED <<server, cmd, loginGreetings, shell>>
    PROVE  IInv'
<1>1. CASE LoggingIn(t)
  <2>1. Goto(t, "unguard")
    BY <1>1, ActorsAssumption DEF Leave
  <2> QED
    BY <1>1, <2>1, QuietStep DEF States, Guarded
<1>2. CASE ~LoggingIn(t)
  <2>1. Goto(t, "done")
    BY <1>2, ActorsAssumption DEF Leave
  <2> QED
    BY <1>2, <2>1, QuietStep DEF States, Guards, WillTell
<1> QED
  BY <1>1, <1>2

-----------------------------------------------------------------------------
(* Petition threads *)

LEMMA ThreadStepKeeps ==
    ASSUME IInv, NEW t \in Threads, ThreadStep(t)
    PROVE  IInv'
<1>1. CASE BlockStatusChecked(t)
  BY <1>1, QuietStep DEF BlockStatusChecked, At, States, Guarded, Guards, WillTell, greetingVars
<1>2. CASE executecommand(t)
  <2>1. server = "up" /\ pc[t] = "dispatch" /\ ~Guards(t) /\ ~WillTell(t)
    BY <1>2 DEF executecommand, At, Guards, WillTell, Guarded
  <2>2. PICK label \in {"done", "fetch", "guard", "requested"} :
           Goto(t, label) /\ (label = "guard" => LoggingIn(t))
    BY <1>2 DEF executecommand, Request, LoggingIn
  <2> QED
    BY <1>2, <2>1, <2>2, QuietStep DEF executecommand, States, Guarded, greetingVars
<1>3. CASE EndCommand(t)
  <2>1. ~Guards(t) /\ ~WillTell(t)
    BY <1>3 DEF EndCommand, At, Guards, WillTell, Guarded
  <2>2. /\ server = "up" /\ "idle" \in States /\ "none" \in Commands \cup {"resume", "none"}
        /\ Goto(t, "idle") /\ cmd' = [cmd EXCEPT ![t] = "none"]
        /\ UNCHANGED <<server, loginGreetings, shell>>
    BY <1>3 DEF EndCommand, At, States, greetingVars
  <2> QED
    BY <2>1, <2>2, ThreadKeeps
<1>4. CASE LoginGuard(t)
  <2>1. LoggingIn(t)
    BY <1>4 DEF LoginGuard, At, IInv, GuardsAreOfLogins
  <2>2. ~WillTell(t) /\ ~Guards(t)
    BY <1>4 DEF LoginGuard, At, Guards, WillTell, Guarded
  <2>3. loginGreetings' \in Nat
    BY <1>4 DEF LoginGuard, IInv, Typed
  <2> QED
    BY <1>4, <2>1, <2>2, <2>3, StepInCommand DEF LoginGuard, At, States, Guarded
<1>5. CASE isLoggedIn(t)
  <2>1. CASE Leave(t)
    BY <1>5, <2>1, LeaveKeeps DEF isLoggedIn, At
  <2>2. CASE Goto(t, "requested")
    BY <1>5, <2>2, QuietStep DEF isLoggedIn, At, States, Guarded
  <2> QED
    BY <1>5, <2>1, <2>2 DEF isLoggedIn, Request
<1>6. CASE actUponLogin(t)
  <2>1. CASE Leave(t)
    BY <1>6, <2>1, LeaveKeeps DEF actUponLogin, At, greetingVars
  <2>2. CASE Goto(t, "fetch")
    BY <1>6, <2>2, QuietStep DEF actUponLogin, At, States, Guarded, greetingVars
  <2> QED
    BY <1>6, <2>1, <2>2 DEF actUponLogin
<1>7. CASE fetchNodes(t)
  BY <1>7, QuietStep DEF fetchNodes, Request, At, States, Guarded, greetingVars
<1>8. CASE FetchFailed(t)
  <2>1. CASE Leave(t)
    BY <1>8, <2>1, LeaveKeeps DEF FetchFailed, At, greetingVars
  <2>2. CASE Goto(t, "asking")
    BY <1>8, <2>2, QuietStep DEF FetchFailed, At, States, Guarded, greetingVars
  <2> QED
    BY <1>8, <2>1, <2>2 DEF FetchFailed
<1>9. CASE BlockReasonArrived(t)
  BY <1>9, QuietStep DEF BlockReasonArrived, At, States, Guarded, greetingVars
<1>10. CASE actUponFetchNodes(t)
  <2>1. CASE Goto(t, "current") /\ UNCHANGED <<server, cmd, greetingVars>>
    BY <1>10, <2>1, QuietStep DEF actUponFetchNodes, At, States, Guarded, greetingVars
  <2> QED
    BY <1>10, <2>1, DieKeeps DEF actUponFetchNodes
<1>11. CASE WaitNodesCurrent(t)
  <2>1. CASE Goto(t, IF LoggingIn(t) THEN "ready" ELSE "done")
             /\ UNCHANGED <<server, cmd, greetingVars>>
    BY <1>11, <2>1, QuietStep
    DEF WaitNodesCurrent, At, States, Guarded, greetingVars, Guards, WillTell
  <2> QED
    BY <1>11, <2>1, DieKeeps DEF WaitNodesCurrent
<1>12. CASE GreenLight(t)
  <2>1. /\ server = "up"
        /\ UNCHANGED <<server, cmd, loginGreetings>>
        /\ shell' = shell \/ shell' = "ready"
    BY <1>12 DEF GreenLight, At, TellShell
  <2>2. CASE LoggingIn(t)
    <3>1. Goto(t, "unguard") /\ "unguard" \in States \cap Guarded
      BY <1>12, <2>2, ActorsAssumption DEF GreenLight, Leave, States, Guarded
    <3> QED
      BY <2>1, <2>2, <3>1, StepInCommand
  <2>3. CASE ~LoggingIn(t)
    <3>1. Goto(t, "done") /\ "done" \in States
      BY <1>12, <2>3, ActorsAssumption DEF GreenLight, Leave, States
    <3> QED
      BY <2>1, <2>3, <3>1, StepInCommand DEF Guards, WillTell
  <2> QED
    BY <2>2, <2>3
<1>13. CASE EndLogin(t)
  <2>1. CASE /\ At(t, "unguard") /\ loginGreetings' = 0 /\ Goto(t, "unguardTell")
             /\ UNCHANGED shell
    BY <1>13, <2>1, StepInCommand DEF EndLogin, At, States
  <2>2. CASE /\ At(t, "unguardTell") /\ TellShell /\ Goto(t, "done")
             /\ UNCHANGED loginGreetings
    <3>1. ~Guards(t)
      BY <2>2 DEF At, Guards, Guarded
    <3>2. shell' # "resuming" /\ (shell' = shell \/ shell' = "ready")
      BY <2>2 DEF TellShell
    <3> QED
      BY <1>13, <2>2, <3>1, <3>2, StepInCommand DEF EndLogin, At, States
  <2> QED
    BY <1>13, <2>1, <2>2 DEF EndLogin
<1>14. CASE actUponLogout(t)
  <2>1. ~Guards(t) /\ ~WillTell(t)
    BY <1>14 DEF actUponLogout, At, Guards, WillTell, LoggingIn, Guarded
  <2>2. PICK label \in {"clear", "done"} : Goto(t, label)
    BY <1>14 DEF actUponLogout
  <2> QED
    BY <1>14, <2>1, <2>2, StepInCommand DEF actUponLogout, At, States
<1>15. CASE CommandReplied(t)
  <2>1. ~Guards(t) /\ ~WillTell(t)
    BY <1>15 DEF CommandReplied, Guards, WillTell, LoggingIn
  <2> QED
    BY <1>15, <2>1, QuietStep DEF CommandReplied, At, States, Guarded, greetingVars
<1>16. CASE getReasonblocked(t)
  <2>1. CASE Leave(t) /\ UNCHANGED <<server, cmd, greetingVars>>
    BY <1>16, <2>1, LeaveKeeps DEF getReasonblocked, At, greetingVars
  <2>2. CASE Goto(t, "reasonWait") /\ UNCHANGED <<server, cmd, greetingVars>>
    BY <1>16, <2>2, QuietStep DEF getReasonblocked, At, States, Guarded, greetingVars
  <2> QED
    BY <1>16, <2>1, <2>2, DieKeeps DEF getReasonblocked
<1>17. CASE ReasonReceived(t)
  BY <1>17, LeaveKeeps DEF ReasonReceived, At, greetingVars
<1> QED
  BY <1>1, <1>2, <1>3, <1>4, <1>5, <1>6, <1>7, <1>8, <1>9, <1>10, <1>11, <1>12, <1>13,
     <1>14, <1>15, <1>16, <1>17
  DEF ThreadStep

(* A command that arrives is none that is under way.                        *)
LEMMA SubmitKeeps ==
    ASSUME IInv, NEW t \in Threads, Submit(t)
    PROVE  IInv'
<1>1. PICK c \in Commands : cmd' = [cmd EXCEPT ![t] = c]
  BY DEF Submit
<1>2. PICK label \in {"dispatch", "checking"} : Goto(t, label)
  BY DEF Submit
<1>3. ~Guards(t) /\ ~WillTell(t)
  BY DEF Submit, At, Guards, WillTell, Guarded
<1>4. /\ server = "up" /\ label \in States /\ label # "guard"
      /\ c \in Commands \cup {"resume", "none"}
      /\ UNCHANGED <<server, loginGreetings, shell>>
  BY DEF Submit, At, States, greetingVars
<1> QED
  BY <1>1, <1>2, <1>3, <1>4, ThreadKeeps

-----------------------------------------------------------------------------
(* The other threads, crashes and restarts *)

(* The main thread is not one of those that log in.  A shell is told of a   *)
(* login only when its greeting is there.                                   *)
LEMMA MainKeeps ==
    ASSUME IInv, RegisterShell \/ MainStep
    PROVE  IInv'
<1>1. CASE Die
  BY <1>1, DieKeeps
<1>2. CASE /\ \E label \in States : Goto(Main, label)
           /\ server = "up"
           /\ UNCHANGED <<server, cmd, loginGreetings>>
           /\ shell' \in {shell, "ready"} \/ (shell' = "resuming" /\ loginGreetings > 0)
  <2>1. \A t \in Threads : pc'[t] = pc[t]
    BY <1>2, ActorsAssumption DEF Goto, IInv, Typed, Actors
  <2>2. Typed'
    BY <1>2 DEF Goto, IInv, Typed, Actors
  <2>3. \A t \in Threads : Guards(t) => WillTell(t)
    BY DEF Guards, WillTell
  <2>4. (\E t \in Threads : WillTell(t)) => (\E t \in Threads : WillTell(t)')
    BY <1>2, <2>1 DEF WillTell, LoggingIn
  <2>5. LoginGreetingHasLogin' /\ GuardsAreOfLogins' /\ DownIsSilent'
    BY <1>2, <2>1
    DEF IInv, LoginGreetingHasLogin, GuardsAreOfLogins, DownIsSilent, LoggingIn
  <2>6. loginGreetings > 0 => \E t \in Threads : Guards(t)
    BY DEF IInv, LoginGreetingHasLogin, Guards
  <2>7. ResumingShellIsTold'
    BY <1>2, <2>3, <2>4, <2>6 DEF IInv, ResumingShellIsTold
  <2> QED
    BY <2>2, <2>5, <2>7 DEF IInv
<1>3. CASE RegisterShell
  BY <1>2, <1>3 DEF RegisterShell, At, States
<1>4. CASE Greet
  BY <1>2, <1>4 DEF Greet, At, States, Guarded
<1>5. CASE getReasonblocked(Main) /\ ~Die
  BY <1>2, <1>5 DEF getReasonblocked, Leave, At, States, Guarded, greetingVars
<1>6. CASE ReasonReceived(Main)
  BY <1>2, <1>6 DEF ReasonReceived, Leave, At, States, Guarded, greetingVars
<1> QED
  BY <1>1, <1>3, <1>4, <1>5, <1>6 DEF MainStep

(* The thread of the SDK changes none of it, unless it ends the process.    *)
LEMMA SdkKeeps ==
    ASSUME IInv, SdkStep \/ NodesCurrent \/ MegaBlocks
    PROVE  IInv'
<1>1. CASE UNCHANGED <<server, pc, cmd, loginGreetings, shell>>
  BY <1>1 DEF IInv, Typed, GuardsAreOfLogins, DownIsSilent, LoginGreetingHasLogin,
     ResumingShellIsTold, WillTell, LoggingIn
<1>2. CASE Die
  BY <1>2, DieKeeps
<1>3. CASE \E t \in Threads : FinishLogin(t) \/ FinishRequest(t) \/ FinishLogout(t)
  BY <1>1, <1>3 DEF FinishLogin, FinishRequest, FinishLogout, greetingVars
<1>4. CASE AccountBlocked \/ UrlArrived
  BY <1>1, <1>4 DEF AccountBlocked, UrlArrived, threadVars
<1>5. CASE WhyAnswered
  BY <1>1, <1>2, <1>5 DEF WhyAnswered, threadVars, greetingVars
<1>6. CASE NodesCurrent
  BY <1>1, <1>6 DEF NodesCurrent, greetingVars
<1>7. CASE MegaBlocks
  BY <1>1, <1>7 DEF MegaBlocks, threadVars, greetingVars
<1> QED
  BY <1>3, <1>4, <1>5, <1>6, <1>7 DEF SdkStep

LEMMA RestartKeeps ==
    ASSUME IInv, Restart
    PROVE  IInv'
<1>1. loginGreetings' = 0 /\ shell' = "none" /\ server' = "up"
  BY DEF IInv, DownIsSilent, Restart, greetingVars
<1>2. Typed'
  BY <1>1, ActorsAssumption DEF IInv, Typed, Restart, Goto, Actors, States
<1>3. GuardsAreOfLogins'
  <2>1. CASE UNCHANGED <<pc, cmd>>
    BY <2>1 DEF IInv, GuardsAreOfLogins, LoggingIn
  <2>2. CASE Goto(StartupLogin, "dispatch") /\ cmd' = [cmd EXCEPT ![StartupLogin] = "resume"]
    BY <2>2 DEF IInv, Typed, GuardsAreOfLogins, LoggingIn, Goto, Actors
  <2> QED
    BY <2>1, <2>2 DEF Restart
<1> QED
  BY <1>1, <1>2, <1>3
  DEF IInv, DownIsSilent, LoginGreetingHasLogin, ResumingShellIsTold

-----------------------------------------------------------------------------
(* The theorems *)

LEMMA NextIInv == IInv /\ [Next]_vars => IInv'
<1> SUFFICES ASSUME IInv, [Next]_vars PROVE IInv'
  OBVIOUS
<1>1. CASE \E t \in Threads : Submit(t) \/ ThreadStep(t)
  BY <1>1, SubmitKeeps, ThreadStepKeeps
<1>2. CASE RegisterShell \/ MainStep
  BY <1>2, MainKeeps
<1>3. CASE SdkStep \/ NodesCurrent \/ MegaBlocks
  BY <1>3, SdkKeeps
<1>4. CASE Crash
  BY <1>4, DieKeeps DEF Crash
<1>5. CASE Restart
  BY <1>5, RestartKeeps
<1>6. CASE UNCHANGED vars
  BY <1>6 DEF vars, threadVars, greetingVars, IInv, Typed, GuardsAreOfLogins, DownIsSilent,
     LoginGreetingHasLogin, ResumingShellIsTold, WillTell, LoggingIn
<1> QED
  BY <1>1, <1>2, <1>3, <1>4, <1>5, <1>6 DEF Next

(* A shell is only greeted with "login:" while a login is in course, also   *)
(* when logins fail, overlap, meet a logout or a blocked account, or the    *)
(* process ends (LoginGuard, megacmdexecuter.cpp).                          *)
THEOREM LoginGreetingHasLoginHolds == Spec => []LoginGreetingHasLogin
<1>1. IInv => LoginGreetingHasLogin
  BY DEF IInv
<1> QED
  BY <1>1, InitIInv, NextIInv, PTL DEF Spec

(* A shell that takes the server for busy with a login is never forgotten:  *)
(* a thread is in a login that has not told the shells yet that it ended.   *)
THEOREM ResumingShellIsToldHolds == Spec => []ResumingShellIsTold
<1>1. IInv => ResumingShellIsTold
  BY DEF IInv
<1> QED
  BY <1>1, InitIInv, NextIInv, PTL DEF Spec

=============================================================================
