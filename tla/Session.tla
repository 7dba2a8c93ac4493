------------------------------- MODULE Session -------------------------------
(***************************************************************************)
(* The session of the server: login, resumption, reload and logout          *)
(* (megacmdexecuter.cpp), the answers the SDK's thread hands to             *)
(* MegaCmdGlobalListener and MegaCmdMegaListener (listeners.cpp), the       *)
(* promises of MegaCmdSandbox that petition threads wait for, the set of    *)
(* valid commands and the greetings (megacmd.cpp), and the session file     *)
(* that a restarted server resumes (configurationmanager.cpp).              *)
(*                                                                          *)
(* Actors: the petition threads, the main thread (which registers a shell   *)
(* and greets it), the thread of the SDK, and the crash of the process.     *)
(* What MEGA and the SDK answer is external: any pending request may be     *)
(* the next to be answered, and an answer is any that the code handles.     *)
(* Builds are release builds: an assert of the code does nothing, and is a  *)
(* property here.  Folder links, whose login differs in the early save of   *)
(* the session only, and two factor codes are left out.                     *)
(***************************************************************************)
EXTENDS Naturals, FiniteSets

CONSTANTS
    Threads,      \* petition threads
    StartupLogin, \* the thread that resumes the session of the last run
    Main,         \* the main thread
    Commands,     \* what clients may ask for
    Blocks,       \* the kinds of blocking that MEGA may impose
    MaxSessions,  \* bound on the number of sessions MEGA hands out
    MaxEvents     \* bound on the number of commands, blockings and crashes

ASSUME ActorsAssumption == StartupLogin \in Threads /\ Main \notin Threads
ASSUME CommandsAssumption ==
    /\ Commands \subseteq {"login", "reload", "logout", "keep", "other"}
    /\ Blocks \subseteq {"email", "sms"}
ASSUME BoundsAssumption ==
    MaxSessions \in Nat /\ MaxEvents \in Nat

Actors == Threads \cup {Main}
NoSession == 0
Sessions == 1 .. MaxSessions

VARIABLES
    server,            \* the process: up or down
    pc,                \* control state of the petition threads and of Main
    cmd,               \* the command of each petition thread
    dumped,            \* the session string a thread holds in a local
    reply,             \* the answer to the request a thread waits for
    future,            \* what a thread has of the "nodes current" future
    loginInAtStartup, blocked, validCommands,
    reasonblocked, reasonPending, reasonPromise,
    ongoing,           \* the URL to unlock the account has been asked for
    loginGreetings,    \* "login:" messages among the greetings
    reasonGreetings,   \* reasons of blocking among the greetings
    shell,             \* what the shell was told
    nodesPromise,      \* mNodesCurrentPromise
    sdk,               \* control state of the SDK's thread in a callback
    sdkSession,        \* the session the SDK is logged into
    filesystem,        \* api->isFilesystemAvailable()
    nodesCurrentDue,   \* an EVENT_NODES_CURRENT will come
    why,               \* a whyAmIBlocked is on its way
    accountBlocked,    \* MEGA blocks the account
    validSessions,     \* the sessions that MEGA accepts
    sessionFile,       \* contents of the file "session"
    lastSession,       \* the last session that MEGA has handed out
    events             \* commands, blockings and crashes so far

threadVars == <<pc, cmd, dumped, reply, future>>
flagVars == <<loginInAtStartup, blocked, validCommands>>
reasonVars == <<reasonblocked, reasonPending, reasonPromise, ongoing>>
greetingVars == <<loginGreetings, reasonGreetings, shell>>
sdkVars == <<sdk, sdkSession, filesystem, nodesCurrentDue, why>>
megaVars == <<accountBlocked, validSessions, lastSession, events>>
vars == <<server, threadVars, flagVars, reasonVars, greetingVars, nodesPromise,
          sdkVars, megaVars, sessionFile>>

(* The state of a server process that has just been started. *)
InitProcess ==
    /\ pc = [a \in Actors |-> "idle"]
    /\ cmd = [t \in Threads |-> "none"]
    /\ dumped = [t \in Threads |-> NoSession]
    /\ reply = [t \in Threads |-> "none"]
    /\ future = [t \in Threads |-> "none"]
    /\ loginInAtStartup = FALSE
    /\ blocked = "no"
    /\ validCommands = "all"
    /\ reasonblocked = "no"
    /\ reasonPending = FALSE
    /\ reasonPromise = [retrieved |-> FALSE, set |-> FALSE]
    /\ ongoing = FALSE
    /\ loginGreetings = 0
    /\ reasonGreetings = {}
    /\ shell = "none"
    /\ nodesPromise = [pending |-> FALSE, retrieved |-> FALSE, value |-> "unset"]
    /\ sdk = "idle"
    /\ sdkSession = NoSession
    /\ filesystem = FALSE
    /\ nodesCurrentDue = FALSE
    /\ why = FALSE

(* The server is about to start: for the first time, or after a run that    *)
(* left a session in the file.                                              *)
Init ==
    /\ server = "down"
    /\ InitProcess
    /\ accountBlocked = "no"
    /\ sessionFile \in {NoSession} \cup {s \in Sessions : s = 1}
    /\ lastSession = sessionFile
    /\ validSessions = {sessionFile} \ {NoSession}
    /\ events = 0

-----------------------------------------------------------------------------
At(a, state) == server = "up" /\ pc[a] = state
Goto(a, state) == pc' = [pc EXCEPT ![a] = state]

CountEvent ==
    /\ events < MaxEvents
    /\ events' = events + 1

(* std::terminate, or the process is killed: what it had in memory is gone. *)
Die ==
    /\ server' = "down"
    /\ pc' = [a \in Actors |-> "idle"]
    /\ cmd' = [t \in Threads |-> "none"]
    /\ dumped' = [t \in Threads |-> NoSession]
    /\ reply' = [t \in Threads |-> "none"]
    /\ future' = [t \in Threads |-> "none"]
    /\ loginInAtStartup' = FALSE
    /\ blocked' = "no"
    /\ validCommands' = "all"
    /\ reasonblocked' = "no"
    /\ reasonPending' = FALSE
    /\ reasonPromise' = [retrieved |-> FALSE, set |-> FALSE]
    /\ ongoing' = FALSE
    /\ loginGreetings' = 0
    /\ reasonGreetings' = {}
    /\ shell' = "none"
    /\ nodesPromise' = [pending |-> FALSE, retrieved |-> FALSE, value |-> "unset"]
    /\ sdk' = "idle"
    /\ sdkSession' = NoSession
    /\ filesystem' = FALSE
    /\ nodesCurrentDue' = FALSE
    /\ why' = FALSE

(* The two flags that restrict the commands, each with the                  *)
(* updatevalidCommands that follows.                                        *)
updatevalidCommands(loggingIn, isBlocked) ==
    validCommands' = IF loggingIn \/ isBlocked # "no" THEN "login" ELSE "all"

setloginInAtStartup(value) ==
    /\ loginInAtStartup' = value
    /\ updatevalidCommands(value, blocked)
    /\ UNCHANGED blocked

setBlocked(value) ==
    \/ blocked = value /\ UNCHANGED flagVars
    \/ /\ blocked # value
       /\ blocked' = value
       /\ updatevalidCommands(loginInAtStartup, value)
       /\ UNCHANGED loginInAtStartup

(* The process starts and resumes the session it finds in its folder. *)
Restart ==
    /\ server = "down"
    /\ server' = "up"
    /\ IF sessionFile = NoSession
       THEN UNCHANGED <<pc, cmd, dumped, loginInAtStartup>>
       ELSE /\ Goto(StartupLogin, "dispatch")
            /\ cmd' = [cmd EXCEPT ![StartupLogin] = "resume"]
            /\ dumped' = [dumped EXCEPT ![StartupLogin] = sessionFile]
            /\ loginInAtStartup' = TRUE
    /\ UNCHANGED <<reply, future, blocked, validCommands, reasonVars,
                   greetingVars, nodesPromise, sdkVars, megaVars, sessionFile>>

Crash ==
    /\ server = "up"
    /\ CountEvent
    /\ Die
    /\ UNCHANGED <<accountBlocked, validSessions, lastSession, sessionFile>>

-----------------------------------------------------------------------------
(* Petition threads: the beginning and the end of a command *)

Valid(t, c) == validCommands = "all" \/ c \in {"logout", "keep"}

(* A command arrives.  If the account is blocked, checkBlockStatus asks why *)
(* (once in 30 seconds), and waits for the answer only if the command is    *)
(* not valid now.                                                           *)
Submit(t) ==
    /\ At(t, "idle")
    /\ CountEvent
    /\ \E c \in Commands :
          /\ cmd' = [cmd EXCEPT ![t] = c]
          /\ \/ UNCHANGED why /\ Goto(t, "dispatch")
             \/ /\ blocked # "no"
                /\ why' = TRUE
                /\ Goto(t, IF Valid(t, c) THEN "dispatch" ELSE "checking")
    /\ UNCHANGED <<server, dumped, reply, future, flagVars, reasonVars, greetingVars,
                   nodesPromise, sdk, sdkSession, filesystem, nodesCurrentDue,
                   accountBlocked, validSessions, lastSession, sessionFile>>

(* The end of the petition: the locals of its thread die. *)
EndCommand(t) ==
    /\ At(t, "done")
    /\ Goto(t, "idle")
    /\ cmd' = [cmd EXCEPT ![t] = "none"]
    /\ dumped' = [dumped EXCEPT ![t] = NoSession]
    /\ reply' = [reply EXCEPT ![t] = "none"]
    /\ UNCHANGED <<server, future, flagVars, reasonVars, greetingVars, nodesPromise,
                   sdkVars, megaVars, sessionFile>>

BlockStatusChecked(t) ==
    /\ At(t, "checking")
    /\ ~why
    /\ Goto(t, "dispatch")
    /\ UNCHANGED <<server, cmd, dumped, reply, future, flagVars, reasonVars,
                   greetingVars, nodesPromise, sdkVars, megaVars, sessionFile>>

Request(t, state) ==
    /\ reply' = [reply EXCEPT ![t] = "pending"]
    /\ Goto(t, state)

(* executecommand: a command that is not valid is refused; logout and an    *)
(* ordinary command send their request at once.                             *)
executecommand(t) ==
    /\ At(t, "dispatch")
    /\ \/ /\ ~Valid(t, cmd[t])
          /\ Goto(t, "done")
          /\ UNCHANGED reply
       \/ /\ Valid(t, cmd[t])
          /\ cmd[t] \in {"login", "resume", "reload"}
          /\ Goto(t, IF cmd[t] = "reload" THEN "fetch" ELSE "guard")
          /\ UNCHANGED reply
       \/ /\ Valid(t, cmd[t])
          /\ cmd[t] \in {"logout", "keep", "other"}
          /\ Request(t, "requested")
    /\ UNCHANGED <<server, cmd, dumped, future, flagVars, reasonVars, greetingVars,
                   nodesPromise, sdkVars, megaVars, sessionFile>>

-----------------------------------------------------------------------------
(* Login *)

LoggingIn(t) == cmd[t] \in {"login", "resume"}

(* Mutant of Leave: the end of a login that failed forgets the guard. *)
MutLeave(a) == Goto(a, IF a = Main THEN "idle" ELSE "done")

(* Where a thread goes once it has nothing else to do: the destructor of    *)
(* the LoginGuard is the end of a login.                                    *)
Leave(a) == Goto(a, IF a = Main THEN "idle" ELSE IF LoggingIn(a) THEN "unguard" ELSE "done")

(* LoginGuard: the greeting, the flag, and the commands. *)
LoginGuard(t) ==
    /\ At(t, "guard")
    /\ loginGreetings' = loginGreetings + 1
    /\ setloginInAtStartup(TRUE)
    /\ Goto(t, "isLoggedIn")
    /\ UNCHANGED <<server, cmd, dumped, reply, future, reasonVars, reasonGreetings,
                   shell, nodesPromise, sdkVars, megaVars, sessionFile>>

(* Unless the SDK has a session already, resetSandBox, which takes no lock, *)
(* and then login() or fastLogin().                                         *)
isLoggedIn(t) ==
    /\ At(t, "isLoggedIn")
    /\ IF sdkSession # NoSession
       THEN Leave(t) /\ UNCHANGED <<reply, reasonVars, reasonGreetings>>
       ELSE /\ reasonGreetings' = reasonGreetings \ {reasonblocked}
            /\ reasonblocked' = "no"
            /\ reasonPending' = FALSE
            /\ Request(t, "requested")
            /\ UNCHANGED <<reasonPromise, ongoing>>
    /\ UNCHANGED <<server, cmd, dumped, future, flagVars, loginGreetings, shell,
                   nodesPromise, sdkVars, megaVars, sessionFile>>

(* actUponLogin: after an error the login ends; after a login by email the  *)
(* session is saved at once, a resumed one is taken to be stored.           *)
actUponLogin(t) ==
    /\ At(t, "requested")
    /\ LoggingIn(t)
    /\ reply[t] \in {"ok", "error"}
    /\ IF reply[t] = "error" THEN Leave(t) ELSE Goto(t, "fetch")
    /\ sessionFile' = IF reply[t] = "ok" /\ cmd[t] = "login" THEN sdkSession
                      ELSE sessionFile
    /\ UNCHANGED <<server, cmd, dumped, reply, future, flagVars, reasonVars,
                   greetingVars, nodesPromise, sdkVars, megaVars>>

-----------------------------------------------------------------------------
(* Fetching the nodes, in a login and in a reload *)

(* initiatePromise replaces the promise: whoever still waits for the former *)
(* one is left with a broken promise.                                       *)
initiatePromise ==
    /\ nodesPromise' = [pending |-> TRUE, retrieved |-> FALSE, value |-> "unset"]
    /\ future' = [t \in Threads |-> IF future[t] = "unset" THEN "broken" ELSE future[t]]

(* A value for the promise reaches the futures taken from it. *)
SetNodesPromise(value) ==
    /\ nodesPromise' = [nodesPromise EXCEPT !.pending = FALSE, !.value = value]
    /\ future' = [t \in Threads |-> IF future[t] = "unset" THEN value ELSE future[t]]

fetchNodes(t) ==
    /\ At(t, "fetch")
    /\ initiatePromise
    /\ Request(t, "fetching")
    /\ UNCHANGED <<server, cmd, dumped, flagVars, reasonVars, greetingVars, sdkVars,
                   megaVars, sessionFile>>

(* actUponFetchNodes, when the nodes could not be fetched: a blocked account *)
(* is asked about and the promise left as it is; an error resets it.        *)
FetchFailed(t) ==
    /\ At(t, "fetching")
    /\ \/ /\ reply[t] = "blocked"
          /\ why' = TRUE
          /\ Goto(t, "asking")
          /\ UNCHANGED <<nodesPromise, future>>
       \/ /\ reply[t] = "error"
          /\ IF nodesPromise.pending
             THEN SetNodesPromise("false") ELSE UNCHANGED <<nodesPromise, future>>
          /\ Leave(t)
          /\ UNCHANGED why
    /\ UNCHANGED <<server, cmd, dumped, reply, flagVars, reasonVars, greetingVars, sdk,
                   sdkSession, filesystem, nodesCurrentDue, megaVars, sessionFile>>

BlockReasonArrived(t) ==
    /\ At(t, "asking")
    /\ ~why
    /\ Goto(t, "reason")
    /\ UNCHANGED <<server, cmd, dumped, reply, future, flagVars, reasonVars,
                   greetingVars, nodesPromise, sdkVars, megaVars, sessionFile>>

(* actUponFetchNodes, when they have been: save the session (no session     *)
(* empties the file), and getFuture, where a second future of one promise   *)
(* is an exception that nobody catches.                                     *)
actUponFetchNodes(t) ==
    /\ At(t, "fetching")
    /\ reply[t] = "ok"
    /\ sessionFile' = sdkSession
    /\ \/ /\ nodesPromise.retrieved
          /\ Die
       \/ /\ ~nodesPromise.retrieved
          /\ nodesPromise' = [nodesPromise EXCEPT !.retrieved = TRUE]
          /\ future' = [future EXCEPT ![t] = nodesPromise.value]
          /\ Goto(t, "current")
          /\ UNCHANGED <<server, cmd, dumped, reply, flagVars, reasonVars,
                         greetingVars, sdkVars>>
    /\ UNCHANGED megaVars

(* The wait for EVENT_NODES_CURRENT, at most 150 seconds; get() throws on a *)
(* broken promise.                                                          *)
WaitNodesCurrent(t) ==
    /\ At(t, "current")
    /\ \/ /\ future[t] = "broken"
          /\ Die /\ UNCHANGED <<megaVars, sessionFile>>
       \/ /\ future[t] # "broken"
          /\ future' = [future EXCEPT ![t] = "none"]
          /\ Goto(t, IF LoggingIn(t) THEN "ready" ELSE "done")
          /\ UNCHANGED <<server, cmd, dumped, reply, flagVars, reasonVars,
                         greetingVars, nodesPromise, sdkVars, megaVars, sessionFile>>

TellShell == shell' = IF shell = "resuming" THEN "ready" ELSE shell

(* The tail of fetchNodes: all commands, then "loged:" to every shell. *)
GreenLight(t) ==
    /\ At(t, "ready")
    /\ setloginInAtStartup(FALSE)
    /\ TellShell
    /\ Leave(t)
    /\ UNCHANGED <<server, cmd, dumped, reply, future, reasonVars, loginGreetings,
                   reasonGreetings, nodesPromise, sdkVars, megaVars, sessionFile>>

(* Mutant of EndLogin: the shells are told before the greeting is removed. *)
MutTellFirst(t) ==
    /\ \/ /\ At(t, "unguard")
          /\ TellShell
          /\ setloginInAtStartup(FALSE)
          /\ Goto(t, "unguardTell")
          /\ UNCHANGED loginGreetings
       \/ /\ At(t, "unguardTell")
          /\ loginGreetings' = 0
          /\ Goto(t, "done")
          /\ UNCHANGED <<flagVars, shell>>
    /\ UNCHANGED <<server, cmd, dumped, reply, future, reasonVars, reasonGreetings,
                   nodesPromise, sdkVars, megaVars, sessionFile>>

(* ~LoginGuard: every "login:" greeting goes, whoever put it there; then    *)
(* the shells are told, and the commands come back.                         *)
EndLogin(t) ==
    /\ \/ /\ At(t, "unguard")
          /\ loginGreetings' = 0
          /\ Goto(t, "unguardTell")
          /\ UNCHANGED <<flagVars, shell>>
       \/ /\ At(t, "unguardTell")
          /\ TellShell
          /\ setloginInAtStartup(FALSE)
          /\ Goto(t, "done")
          /\ UNCHANGED loginGreetings
    /\ UNCHANGED <<server, cmd, dumped, reply, future, reasonVars, reasonGreetings,
                   nodesPromise, sdkVars, megaVars, sessionFile>>

-----------------------------------------------------------------------------
(* Logout, and an ordinary command *)

(* actUponLogout: forget the session, also in the file unless it is kept,   *)
(* then drop all greetings.                                                 *)
actUponLogout(t) ==
    /\ \/ /\ At(t, "requested")
          /\ cmd[t] \in {"logout", "keep"}
          /\ reply[t] = "error"
          /\ Goto(t, "done")
          /\ UNCHANGED <<sessionFile, loginGreetings, reasonGreetings>>
       \/ /\ At(t, "requested")
          /\ cmd[t] \in {"logout", "keep"}
          /\ reply[t] = "ok"
          /\ sessionFile' = IF cmd[t] = "keep" THEN sessionFile ELSE NoSession
          /\ Goto(t, "clear")
          /\ UNCHANGED <<loginGreetings, reasonGreetings>>
       \/ /\ At(t, "clear")
          /\ loginGreetings' = 0
          /\ reasonGreetings' = {}
          /\ Goto(t, "done")
          /\ UNCHANGED sessionFile
    /\ UNCHANGED <<server, cmd, dumped, reply, future, flagVars, reasonVars, shell,
                   nodesPromise, sdkVars, megaVars>>

(* checkNoErrors: the error of a blocked account is told with its reason. *)
CommandReplied(t) ==
    /\ At(t, "requested")
    /\ cmd[t] = "other"
    /\ reply[t] # "pending"
    /\ Goto(t, IF reply[t] = "blocked" THEN "reason" ELSE "done")
    /\ UNCHANGED <<server, cmd, dumped, reply, future, flagVars, reasonVars,
                   greetingVars, nodesPromise, sdkVars, megaVars, sessionFile>>

-----------------------------------------------------------------------------
(* The reason of a blocked account *)

(* getReasonblocked: while a reason is promised, get_future, which throws   *)
(* for all but its first caller, outside the try block.                     *)
getReasonblocked(a) ==
    /\ At(a, "reason")
    /\ \/ /\ reasonPending /\ reasonPromise.retrieved
          /\ Die /\ UNCHANGED <<megaVars, sessionFile>>
       \/ /\ \/ ~reasonPending /\ Leave(a) /\ UNCHANGED reasonPromise
             \/ /\ reasonPending /\ ~reasonPromise.retrieved
                /\ reasonPromise' = [reasonPromise EXCEPT !.retrieved = TRUE]
                /\ Goto(a, "reasonWait")
          /\ UNCHANGED <<server, cmd, dumped, reply, future, flagVars, reasonblocked,
                         reasonPending, ongoing, greetingVars, nodesPromise, sdkVars,
                         megaVars, sessionFile>>

ReasonReceived(a) ==
    /\ At(a, "reasonWait")
    /\ reasonPromise.set
    /\ Leave(a)
    /\ UNCHANGED <<server, cmd, dumped, reply, future, flagVars, reasonVars,
                   greetingVars, nodesPromise, sdkVars, megaVars, sessionFile>>

(* The main thread registers a shell, hands it the greetings and, to send   *)
(* it the prompt, reads the reason.                                         *)
RegisterShell ==
    /\ At(Main, "idle")
    /\ shell = "none"
    /\ CountEvent
    /\ shell' = "ready"
    /\ Goto(Main, "greet")
    /\ UNCHANGED <<server, cmd, dumped, reply, future, flagVars, reasonVars,
                   loginGreetings, reasonGreetings, nodesPromise, sdkVars,
                   accountBlocked, validSessions, lastSession, sessionFile>>

Greet ==
    /\ At(Main, "greet")
    /\ shell' = IF loginGreetings > 0 THEN "resuming" ELSE shell
    /\ Goto(Main, "reason")
    /\ UNCHANGED <<server, cmd, dumped, reply, future, flagVars, reasonVars,
                   loginGreetings, reasonGreetings, nodesPromise, sdkVars, megaVars,
                   sessionFile>>

-----------------------------------------------------------------------------
(* The thread of the SDK: its callbacks run one at a time *)

SdkIdle == server = "up" /\ sdk = "idle"
Answer(t, answer) == reply' = [reply EXCEPT ![t] = answer]
Waiting(t, c) == reply[t] = "pending" /\ cmd[t] \in c

(* A login is accepted or not; one that comes while another has logged in   *)
(* replaces it or is refused.                                               *)
FinishLogin(t) ==
    /\ SdkIdle
    /\ pc[t] = "requested"
    /\ Waiting(t, {"login", "resume"})
    /\ \/ Answer(t, "error") /\ UNCHANGED <<sdkSession, filesystem, megaVars>>
       \/ /\ Answer(t, "ok")
          /\ filesystem' = FALSE
          /\ \/ /\ cmd[t] = "login"
                /\ lastSession < MaxSessions
                /\ lastSession' = lastSession + 1
                /\ sdkSession' = lastSession'
                /\ validSessions' = validSessions \cup {sdkSession'}
             \/ /\ cmd[t] = "resume"
                /\ dumped[t] \in validSessions
                /\ sdkSession' = dumped[t]
                /\ UNCHANGED <<lastSession, validSessions>>
          /\ UNCHANGED <<accountBlocked, events>>
    /\ UNCHANGED <<server, pc, cmd, dumped, future, flagVars, reasonVars, greetingVars,
                   nodesPromise, sdk, nodesCurrentDue, why, sessionFile>>

(* fetchNodes, and the request of an ordinary command. *)
FinishRequest(t) ==
    /\ SdkIdle
    /\ \/ /\ pc[t] = "fetching" /\ reply[t] = "pending"
          /\ \/ /\ sdkSession # NoSession /\ accountBlocked = "no"
                /\ Answer(t, "ok")
                /\ filesystem' = TRUE
                /\ nodesCurrentDue' = TRUE
             \/ Answer(t, "error") /\ UNCHANGED <<filesystem, nodesCurrentDue>>
             \/ /\ sdkSession # NoSession /\ accountBlocked # "no"
                /\ Answer(t, "blocked")
                /\ UNCHANGED <<filesystem, nodesCurrentDue>>
       \/ /\ pc[t] = "requested" /\ Waiting(t, {"other"})
          /\ Answer(t, IF sdkSession # NoSession /\ accountBlocked # "no"
                       THEN "blocked" ELSE "ok")
          /\ UNCHANGED <<filesystem, nodesCurrentDue>>
    /\ UNCHANGED <<server, pc, cmd, dumped, future, flagVars, reasonVars, greetingVars,
                   nodesPromise, sdk, sdkSession, why, megaVars, sessionFile>>

(* onRequestFinish of a logout: resetSandBox and reset() before the thread  *)
(* that asked goes on.                                                      *)
FinishLogout(t) ==
    /\ SdkIdle
    /\ Waiting(t, {"logout", "keep"})
    /\ pc[t] = "requested"
    /\ \/ /\ sdkSession = NoSession
          /\ Answer(t, "error")
          /\ UNCHANGED <<flagVars, reasonVars, reasonGreetings, sdkSession,
                         filesystem, nodesCurrentDue, validSessions>>
       \/ /\ sdkSession # NoSession
          /\ sdkSession' = NoSession
          /\ filesystem' = FALSE
          /\ nodesCurrentDue' = FALSE
          /\ validSessions' = IF cmd[t] = "keep" THEN validSessions
                              ELSE validSessions \ {sdkSession}
          /\ reasonGreetings' = reasonGreetings \ {reasonblocked}
          /\ reasonblocked' = "no"
          /\ reasonPending' = FALSE
          /\ setBlocked("no")
          /\ Answer(t, "ok")
          /\ UNCHANGED <<reasonPromise, ongoing>>
    /\ UNCHANGED <<server, pc, cmd, dumped, future, loginGreetings, shell, nodesPromise,
                   sdk, why, accountBlocked, lastSession, events, sessionFile>>

(* EVENT_NODES_CURRENT *)
NodesCurrent ==
    /\ SdkIdle
    /\ nodesCurrentDue
    /\ nodesCurrentDue' = FALSE
    /\ IF nodesPromise.pending
       THEN SetNodesPromise("true") ELSE UNCHANGED <<nodesPromise, future>>
    /\ UNCHANGED <<server, pc, cmd, dumped, reply, flagVars, reasonVars, greetingVars,
                   sdk, sdkSession, filesystem, why, megaVars, sessionFile>>

(* doSetReasonBlocked, under reasonBlockedMutex. *)
doSetReasonBlocked(value) ==
    /\ reasonGreetings' = (reasonGreetings \ {reasonblocked}) \cup ({value} \ {"no"})
    /\ reasonblocked' = value

(* setReasonPendingPromise, unless the URL has been asked for. *)
Promise ==
    IF ongoing
    THEN UNCHANGED <<ongoing, reasonPending, reasonPromise>>
    ELSE /\ ongoing' = TRUE
         /\ reasonPending' = TRUE
         /\ reasonPromise' = [retrieved |-> FALSE, set |-> FALSE]

(* EVENT_ACCOUNT_BLOCKED: the flag and the commands, then the reason: at    *)
(* once, or promised for when the URL to unlock the account arrives.        *)
AccountBlocked ==
    /\ server = "up"
    /\ \/ /\ sdk = "idle"
          /\ sdkSession # NoSession
          /\ accountBlocked \notin {"no", blocked}
          /\ setBlocked(accountBlocked)
          /\ sdk' = "blockedReason"
          /\ UNCHANGED <<reasonVars, reasonGreetings>>
       \/ /\ sdk = "blockedReason"
          /\ IF blocked = "sms"
             THEN Promise /\ UNCHANGED <<reasonblocked, reasonGreetings>>
             ELSE /\ doSetReasonBlocked(blocked)
                  /\ UNCHANGED <<ongoing, reasonPending, reasonPromise>>
          /\ sdk' = "idle"
          /\ UNCHANGED flagVars
    /\ UNCHANGED <<server, threadVars, loginGreetings, shell, nodesPromise, sdkSession,
                   filesystem, nodesCurrentDue, why, megaVars, sessionFile>>

(* Mutant of UrlArrived: no value when the request for the URL failed. *)
MutUrlMayFail ==
    /\ SdkIdle
    /\ ongoing
    /\ doSetReasonBlocked("sms")
    /\ reasonPending' = FALSE
    /\ reasonPromise' \in {reasonPromise, [reasonPromise EXCEPT !.set = TRUE]}
    /\ ongoing' = FALSE
    /\ UNCHANGED <<server, threadVars, flagVars, loginGreetings, shell, nodesPromise,
                   sdkVars, megaVars, sessionFile>>

(* The callback of getSessionTransferURL: setPromisedReasonblocked, whether *)
(* there is a URL or not.                                                   *)
UrlArrived ==
    /\ SdkIdle
    /\ ongoing
    /\ doSetReasonBlocked("sms")
    /\ reasonPending' = FALSE
    /\ reasonPromise' = [reasonPromise EXCEPT !.set = TRUE]
    /\ ongoing' = FALSE
    /\ UNCHANGED <<server, threadVars, flagVars, loginGreetings, shell, nodesPromise,
                   sdkVars, megaVars, sessionFile>>

(* The answer to whyAmIBlocked: the event of a blocked account has come     *)
(* before; if it is blocked no more, unblock(), which creates a thread to   *)
(* fetch the nodes if there are none and destroys it unjoined.              *)
WhyAnswered ==
    /\ server = "up"
    /\ \/ /\ sdk = "idle" /\ why
          /\ accountBlocked \in {"no", blocked} \/ sdkSession = NoSession
          /\ IF accountBlocked = "no" /\ blocked # "no"
             THEN setBlocked("no") /\ sdk' = "unblockedReason" /\ UNCHANGED why
             ELSE why' = FALSE /\ UNCHANGED <<flagVars, sdk>>
          /\ UNCHANGED <<server, threadVars, reasonVars, greetingVars, nodesPromise,
                         sdkSession, filesystem, nodesCurrentDue, megaVars, sessionFile>>
       \/ /\ sdk = "unblockedReason" /\ filesystem
          /\ doSetReasonBlocked("no")
          /\ sdk' = "idle"
          /\ why' = FALSE
          /\ UNCHANGED <<server, threadVars, flagVars, reasonPending, reasonPromise,
                         ongoing, loginGreetings, shell, nodesPromise, sdkSession,
                         filesystem, nodesCurrentDue, megaVars, sessionFile>>
       \/ /\ sdk = "unblockedReason" /\ ~filesystem
          /\ Die /\ UNCHANGED <<megaVars, sessionFile>>

(* MEGA blocks the account and unblocks it. *)
MegaBlocks ==
    /\ \/ /\ accountBlocked = "no"
          /\ accountBlocked' \in Blocks
          /\ CountEvent
       \/ /\ accountBlocked # "no"
          /\ accountBlocked' = "no"
          /\ UNCHANGED events
    /\ UNCHANGED <<server, threadVars, flagVars, reasonVars, greetingVars, nodesPromise,
                   sdkVars, validSessions, lastSession, sessionFile>>

-----------------------------------------------------------------------------
ThreadStep(t) ==
    \/ BlockStatusChecked(t) \/ executecommand(t) \/ EndCommand(t)
    \/ LoginGuard(t) \/ isLoggedIn(t) \/ actUponLogin(t)
    \/ fetchNodes(t) \/ FetchFailed(t) \/ BlockReasonArrived(t)
    \/ actUponFetchNodes(t) \/ WaitNodesCurrent(t)
    \/ GreenLight(t) \/ EndLogin(t) \/ actUponLogout(t) \/ CommandReplied(t)
    \/ getReasonblocked(t) \/ ReasonReceived(t)

MainStep == Greet \/ getReasonblocked(Main) \/ ReasonReceived(Main)

SdkStep ==
    \/ \E t \in Threads : FinishLogin(t) \/ FinishRequest(t) \/ FinishLogout(t)
    \/ AccountBlocked \/ UrlArrived \/ WhyAnswered

Next ==
    \/ \E t \in Threads : Submit(t) \/ ThreadStep(t)
    \/ RegisterShell \/ MainStep
    \/ SdkStep \/ NodesCurrent
    \/ MegaBlocks \/ Crash \/ Restart

Spec == Init /\ [][Next]_vars

(* Threads run, and the SDK answers every request and delivers the events   *)
(* of a blocked account.  EVENT_NODES_CURRENT may never come.               *)
Fairness ==
    /\ \A t \in Threads : WF_vars(ThreadStep(t))
    /\ WF_vars(MainStep)
    /\ \A t \in Threads : WF_vars(FinishLogin(t) \/ FinishRequest(t) \/ FinishLogout(t))
    /\ WF_vars(AccountBlocked)
    /\ WF_vars(UrlArrived)
    /\ WF_vars(WhyAnswered)

FairSpec == Spec /\ Fairness

-----------------------------------------------------------------------------
(* Properties *)

Answers == {"none", "pending", "ok", "error", "blocked"}

Guarded == {"isLoggedIn", "requested", "fetch", "fetching", "asking", "reason",
            "reasonWait", "current", "ready", "unguard"}

(* A new shell is only told "login:" (and then takes the server for busy)   *)
(* while a login is in course.                                              *)
LoginGreetingHasLogin ==
    loginGreetings > 0 => \E t \in Threads : LoggingIn(t) /\ pc[t] \in Guarded

(* A shell that was told that a session is being resumed is later told that *)
(* the login has ended, whatever happens to the login.                      *)
ShellLeavesResuming == (shell = "resuming") ~> (shell # "resuming")

(* No command of a client hangs, and neither does the main thread.          *)
SessionCommandsEnd ==
    \A a \in Actors : (pc[a] # "idle") ~> (pc[a] = "idle")

=============================================================================
