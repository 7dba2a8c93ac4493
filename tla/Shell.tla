-------------------------------- MODULE Shell --------------------------------
(***************************************************************************)
(* The interactive shell (megacmdshell.cpp) and its registration for state  *)
(* changes (megacmdshellcommunications.cpp), composed with the server that  *)
(* tells it things (Broadcasts).  A shell is two threads: the main thread,  *)
(* which reads lines and sends commands, and the listener thread, which     *)
(* reads what the server tells and notices when the server goes away.       *)
(*                                                                          *)
(* A command is one exchange with the server (its protocol is the subject   *)
(* of CommandProtocol); connecting to a server that is down starts one, or  *)
(* fails.  A line is its first word and what process_line looks at.  The    *)
(* Posix build with readline is modelled, without the layout of what is     *)
(* printed.  The threads of a shell share its fields without a lock, all    *)
(* but the prompt; each step here reads and writes them at one time.        *)
(***************************************************************************)
EXTENDS Broadcasts

VARIABLES
    shell,     \* the memory of every shell process
    lines,     \* the lines its user has still to type
    faults,    \* crashes, failures to connect and other faults still to come
    loggedIn,  \* the server is logged into an account
    sent       \* history: the last command a shell has sent, what its
               \* password was asked for, and which questions were given up

shellVars == <<shell, lines, faults, loggedIn, sent>>
systemVars == <<vars, plan, serverVars, shellVars>>

Nothing == [name |-> "none", asked |-> "none", abandoned |-> {}]

(* A shell process that has just been started. *)
FreshShell ==
    [pc |-> "register", back |-> "waiting",
     listener |-> "none", mStopListener |-> FALSE, mUpdating |-> FALSE,
     mRegisterRequired |-> TRUE, recentFailure |-> FALSE, refused |-> FALSE,
     prompt |-> "COMMAND", line |-> [word |-> ""], answer |-> "none",
     loginname |-> "", signingup |-> FALSE, confirminglink |-> FALSE,
     confirmingcancellink |-> FALSE, newpasswd |-> "", asked |-> "none",
     dynamicprompt |-> "", clientID |-> 0, lastMessage |-> "",
     handler |-> FALSE, doExit |-> FALSE, doReboot |-> FALSE]

SystemInit ==
    /\ ServerInit
    /\ shell = [s \in Shells |->
                  IF s \in plan.shells THEN FreshShell
                                       ELSE [FreshShell EXCEPT !.pc = "exited"]]
    /\ lines = plan.lines
    /\ faults = plan.faults
    /\ loggedIn = plan.loggedIn
    /\ sent = [s \in Shells |-> Nothing]

In(s, place) == shell[s].pc = place
serverState == <<vars, plan, listenerVars, greetingVars, delayedVars, hand,
                 mainVars, storageStatus, sdk, issueVars, commands, verified,
                 seen>>

-----------------------------------------------------------------------------
(* Connections *)

Spend(fault) ==
    /\ faults[fault] > 0
    /\ faults' = [faults EXCEPT ![fault] = @ - 1]

(* createSocket: when nobody accepts, and the command is one that may start *)
(* the server, the server is started and given a number of attempts.        *)
createSocket(starts, ok) ==
    \/ up /\ ok /\ UNCHANGED <<up, faults>>
    \/ ~up /\ starts /\ ok /\ up' = TRUE /\ UNCHANGED faults
    \/ ~up /\ starts /\ ~ok /\ Spend("refusals") /\ UNCHANGED up
    \/ ~up /\ ~starts /\ ~ok /\ UNCHANGED <<up, faults>>

(* The shell that has started a server is to register with it, at once.     *)
(* (setForRegisterAgain; up' is what createSocket has made of the server.)  *)
setForRegisterAgain(me) ==
    IF ~up /\ up' THEN [me EXCEPT !.mRegisterRequired = TRUE,
                                  !.recentFailure = FALSE]
                  ELSE me

(* What a command may do to the session of the server. *)
SessionAfter(name) ==
    IF name \in {"login", "logout"} THEN {loggedIn, name = "login"} ELSE {loggedIn}

executeCommand(s, name) ==
    \E ok \in BOOLEAN :
        /\ createSocket(name \notin {"exit", "quit"}, ok)
        /\ IF ok
           THEN /\ loggedIn' \in SessionAfter(name)
                /\ sent' = [sent EXCEPT ![s] =
                      [name |-> name, asked |-> shell[s].asked,
                       abandoned |-> @.abandoned]]
           ELSE UNCHANGED <<loggedIn, sent>>

-----------------------------------------------------------------------------
(* Registration for state changes, by the main thread *)

(* The first half of registerForStateChanges: it may be too early, and a    *)
(* listener thread that is still there is stopped.                          *)
MayRegister(s) ==
    ~shell[s].mStopListener /\ ~shell[s].mUpdating /\ ~shell[s].recentFailure

registerForStateChanges(s) ==
    /\ In(s, "register")
    /\ IF MayRegister(s)
       THEN /\ shell' = [shell EXCEPT
                   ![s].pc = "joining",
                   ![s].mStopListener = shell[s].listener # "none"]
            /\ socket' = [socket EXCEPT ![s] =
                             IF shell[s].listener = "running" THEN "hungup" ELSE @]
       ELSE /\ shell' = [shell EXCEPT ![s].pc = shell[s].back]
            /\ UNCHANGED socket
    /\ UNCHANGED <<serverState, up, inbox, lines, faults, loggedIn, sent>>

Registered(s) ==
    [shell EXCEPT ![s].pc = shell[s].back, ![s].mRegisterRequired = FALSE,
                  ![s].mStopListener = FALSE, ![s].listener = "running"]

(* The second half: the old thread is joined, and a new one started once    *)
(* the server has been asked to register.  When it cannot be reached the    *)
(* call returns as it is, with the request to stop still in force.          *)
JoinAndRegister(s) ==
    /\ In(s, "joining") /\ shell[s].listener # "running"
    /\ \E ok \in BOOLEAN :
          /\ createSocket(TRUE, ok)
          /\ IF ok
             THEN /\ shell' = Registered(s)
                  /\ socket' = [socket EXCEPT ![s] = "pending"]
                  /\ inbox' = [inbox EXCEPT ![s] = <<>>]
             ELSE /\ shell' = [shell EXCEPT
                         ![s].pc = shell[s].back,
                         ![s].refused = shell[s].listener # "none"]
                  /\ UNCHANGED wireVars
    /\ UNCHANGED <<serverState, lines, loggedIn, sent>>

(* waitForServerReadyOrRegistrationFailed, which also ends by a timeout. *)
WaitForServer(s) ==
    /\ In(s, "waiting")
    /\ shell' = [shell EXCEPT ![s].pc = "typing", ![s].back = "typing"]
    /\ UNCHANGED <<serverState, up, wireVars, lines, faults, loggedIn, sent>>

(* Thirty seconds have passed since the listener thread ended. *)
FailureForgotten(s) ==
    /\ shell[s].recentFailure /\ shell[s].pc # "exited"
    /\ shell' = [shell EXCEPT ![s].recentFailure = FALSE]
    /\ UNCHANGED <<serverState, up, wireVars, lines, faults, loggedIn, sent>>

-----------------------------------------------------------------------------
(* The listener thread *)

(* changeprompt of the shell; its first call takes Ctrl-C over. *)
PromptChanged(me, prompt) ==
    [me EXCEPT !.dynamicprompt = prompt, !.handler = TRUE]

(* statechangehandle *)
Handled(me, state) ==
    IF state.type = "prompt" THEN PromptChanged(me, state.text)
    ELSE IF state.type = "message" THEN [me EXCEPT !.lastMessage = state.text]
    ELSE IF state.type = "clientID" THEN [me EXCEPT !.clientID = state.id]
    ELSE [PromptChanged(me, "restart required") EXCEPT
             !.doExit = TRUE, !.doReboot = TRUE, !.mUpdating = TRUE]

ReadState(s) ==
    /\ shell[s].listener = "running" /\ ~shell[s].mStopListener
    /\ inbox[s] # <<>>
    /\ shell' = [shell EXCEPT ![s] = Handled(@, Head(inbox[s]))]
    /\ inbox' = [inbox EXCEPT ![s] = Tail(@)]
    /\ UNCHANGED <<serverState, up, socket, lines, faults, loggedIn, sent>>

(* Mutant of ListenerEnded: the shell is not told to register again. *)
MutForgetsToRegister(s) ==
    [shell EXCEPT ![s].listener = "ended", ![s].recentFailure = TRUE]

(* The server has closed the connection, and the shell did not mean to end  *)
(* it: the main thread will have to register again, but not at once.        *)
ListenerEnded(s) ==
    [shell EXCEPT ![s].listener = "ended", ![s].recentFailure = TRUE,
                  ![s].mRegisterRequired = TRUE]

listenToStateChanges(s) ==
    /\ shell[s].listener = "running"
    /\ \/ shell[s].mStopListener
       \/ inbox[s] = <<>> /\ socket[s] \in {"dropped", "hungup"}
    /\ shell' = IF shell[s].mStopListener \/ shell[s].mUpdating
                THEN [shell EXCEPT ![s].listener = "ended"]
                ELSE ListenerEnded(s)
    /\ socket' = [socket EXCEPT ![s] = "none"]
    /\ UNCHANGED <<serverState, up, inbox, lines, faults, loggedIn, sent>>

-----------------------------------------------------------------------------
(* The main loop *)

(* A character is typed: every few seconds it also makes the shell ask the  *)
(* server to retry its connections, which starts a server that is down.     *)
RetryConnections(s) ==
    /\ In(s, "typing") /\ ~shell[s].doExit /\ ~shell[s].mUpdating /\ ~up
    /\ \E ok \in BOOLEAN : createSocket(TRUE, ok)
    /\ shell' = [shell EXCEPT ![s] = setForRegisterAgain(@)]
    /\ UNCHANGED <<serverState, wireVars, lines, loggedIn, sent>>

Ls == [word |-> "other", words |-> 1]

(* A line is entered.  Users in plan.typists type on for ever. *)
TypeLine(s) ==
    /\ In(s, "typing") /\ ~shell[s].doExit
    /\ \/ lines[s] # <<>> /\ lines' = [lines EXCEPT ![s] = Tail(@)]
       \/ lines[s] = <<>> /\ s \in plan.typists /\ UNCHANGED lines
    /\ LET line == IF lines[s] = <<>> THEN Ls ELSE Head(lines[s])
       IN shell' = IF line.word = "EOF"
                   THEN [shell EXCEPT ![s].doExit = TRUE]
                   ELSE [shell EXCEPT ![s].pc = "processing", ![s].line = line,
                                      ![s].lastMessage = ""]
    /\ UNCHANGED <<serverState, up, wireVars, faults, loggedIn, sent>>

(* The line has been processed. *)
Processed(s, me) ==
    shell' = [shell EXCEPT ![s] =
        [me EXCEPT !.pc = IF me.mRegisterRequired THEN "register" ELSE "typing",
                   !.answer = "none"]]

(* readloop returns, shutdown() stops the listener, and a shell that has    *)
(* been told to restarts itself.                                            *)
LeaveLoop(s) ==
    /\ In(s, "typing") /\ shell[s].doExit
    /\ shell' = [shell EXCEPT ![s].pc = "leaving",
                              ![s].mStopListener = shell[s].listener # "none"]
    /\ socket' = [socket EXCEPT ![s] =
                     IF shell[s].listener = "running" THEN "hungup" ELSE @]
    /\ UNCHANGED <<serverState, up, inbox, lines, faults, loggedIn, sent>>

ShellEnds(s) ==
    /\ In(s, "leaving") /\ shell[s].listener # "running"
    /\ shell' = [shell EXCEPT ![s] =
                    IF @.doReboot THEN FreshShell
                                  ELSE [FreshShell EXCEPT !.pc = "exited"]]
    /\ UNCHANGED <<serverState, up, wireVars, lines, faults, loggedIn, sent>>

(* History: the command that a password was asked for will not be sent. *)
Abandon(s) ==
    sent' = [sent EXCEPT ![s].abandoned = @ \cup {shell[s].asked}]

(* Ctrl-C: a password is no longer asked for, and nothing else is reset. *)
sigint_handler(s) ==
    /\ shell[s].handler /\ In(s, "typing") /\ shell[s].prompt # "COMMAND"
    /\ Spend("interrupts")
    /\ shell' = [shell EXCEPT ![s].prompt = "COMMAND", ![s].asked = "none"]
    /\ Abandon(s)
    /\ UNCHANGED <<serverState, up, wireVars, lines, loggedIn>>

-----------------------------------------------------------------------------
(* process_line *)

Line(s) == shell[s].line
Asking(s, prompt) == In(s, "processing") /\ shell[s].prompt = prompt
Word(s, words) == Asking(s, "COMMAND") /\ Line(s).word \in words

(* The prompt is to read a password for the command called name. *)
Ask(me, prompt, name) == [me EXCEPT !.prompt = prompt, !.asked = name]

(* Mutant of PasswordTaken: the link is taken to be still confirmed. *)
MutKeepsLink(me) == [me EXCEPT !.prompt = "COMMAND", !.asked = "none"]

(* What the shell forgets once it has sent the password. *)
PasswordTaken(me) ==
    [me EXCEPT !.confirminglink = FALSE, !.confirmingcancellink = FALSE,
               !.prompt = "COMMAND", !.asked = "none"]

LoginPassword(s) ==
    /\ Asking(s, "LOGINPASSWORD")
    /\ LET name == IF shell[s].confirminglink THEN "confirm"
                   ELSE IF shell[s].confirmingcancellink THEN "confirmcancel"
                   ELSE "login"
       IN executeCommand(s, name)
    /\ Processed(s, setForRegisterAgain(PasswordTaken(shell[s])))
    /\ UNCHANGED <<serverState, wireVars, lines>>

NewPassword(s) ==
    /\ Asking(s, "NEWPASSWORD")
    /\ Processed(s, [shell[s] EXCEPT !.newpasswd = Line(s).word,
                                     !.prompt = "PASSWORDCONFIRM"])
    /\ UNCHANGED <<serverState, up, wireVars, lines, faults, loggedIn, sent>>

(* The second password decides; when it differs signingup stays as it is. *)
ConfirmPassword(s) ==
    /\ Asking(s, "PASSWORDCONFIRM")
    /\ IF Line(s).word # shell[s].newpasswd
       THEN /\ Processed(s, [shell[s] EXCEPT !.prompt = "COMMAND",
                                             !.asked = "none"])
            /\ Abandon(s)
            /\ UNCHANGED <<up, faults, loggedIn>>
       ELSE /\ executeCommand(s, IF shell[s].signingup THEN "signup" ELSE "passwd")
            /\ Processed(s, [setForRegisterAgain(shell[s]) EXCEPT
                                !.prompt = "COMMAND", !.asked = "none",
                                !.signingup = FALSE])
    /\ UNCHANGED <<serverState, wireVars, lines>>

(* exit and quit: they may be refused, may spare the server or the shell,   *)
(* and do not start a server.                                               *)
Exit(s) ==
    /\ Word(s, {"exit", "quit"})
    /\ IF Line(s).only = "shell"
       THEN UNCHANGED <<up, faults, loggedIn, sent>>
       ELSE executeCommand(s, "exit")
    /\ \/ Processed(s, [shell[s] EXCEPT !.doExit = @ \/ Line(s).only # "server"])
       \/ Line(s).only # "shell" /\ up /\ Processed(s, shell[s])
    /\ UNCHANGED <<serverState, wireVars, lines>>

(* history, clear and a line for help need no server. *)
LocalLine(s) ==
    /\ Word(s, {"history", "clear"})
    /\ Processed(s, shell[s])
    /\ UNCHANGED <<serverState, up, wireVars, lines, faults, loggedIn, sent>>

(* isserverloggedin, which takes a server that does not answer for one that *)
(* is logged in.                                                            *)
isserverloggedin(s) ==
    /\ Word(s, {"passwd", "login", "signup"}) /\ shell[s].answer = "none"
    /\ \E ok \in BOOLEAN :
          /\ createSocket(TRUE, ok)
          /\ shell' = [shell EXCEPT ![s] =
                 [setForRegisterAgain(@) EXCEPT
                     !.answer = IF ok /\ ~loggedIn THEN "no" ELSE "yes"]]
    /\ UNCHANGED <<serverState, wireVars, lines, loggedIn, sent>>

(* passwd, login and signup: refused in the wrong session, sent as they are *)
(* when they name a password, or else the user is asked for it.             *)
AccountLine(s) ==
    /\ Word(s, {"passwd", "login", "signup"}) /\ shell[s].answer # "none"
    /\ LET me == shell[s]
           name == me.line.word
           allowed == me.answer = IF name = "passwd" THEN "yes" ELSE "no"
           asks == Line(s).words = IF name = "passwd" THEN 1 ELSE 2
       IN \/ /\ ~allowed
             /\ Processed(s, me)
             /\ UNCHANGED <<up, faults, loggedIn, sent>>
          \/ /\ allowed /\ ~asks
             /\ executeCommand(s, name)
             /\ Processed(s, setForRegisterAgain(me))
          \/ /\ allowed /\ asks
             /\ Processed(s, IF name = "login"
                             THEN Ask(me, "LOGINPASSWORD", name)
                             ELSE [Ask(me, "NEWPASSWORD", name) EXCEPT
                                      !.signingup = @ \/ name = "signup"])
             /\ UNCHANGED <<up, faults, loggedIn, sent>>
    /\ UNCHANGED <<serverState, wireVars, lines>>

(* confirm and confirmcancel of a link, without a password. *)
ConfirmLine(s) ==
    /\ Word(s, {"confirm", "confirmcancel"})
    /\ LET name == Line(s).word
       IN IF Line(s).words = IF name = "confirm" THEN 3 ELSE 2
          THEN /\ Processed(s, IF name = "confirm"
                               THEN [Ask(shell[s], "LOGINPASSWORD", name) EXCEPT
                                        !.confirminglink = TRUE]
                               ELSE [Ask(shell[s], "LOGINPASSWORD", name) EXCEPT
                                        !.confirmingcancellink = TRUE])
               /\ UNCHANGED <<up, faults, loggedIn, sent>>
          ELSE /\ executeCommand(s, name)
               /\ Processed(s, setForRegisterAgain(shell[s]))
    /\ UNCHANGED <<serverState, wireVars, lines>>

(* transfers, du, sync, mediainfo and backup get the width of a path; get,  *)
(* put and reload the id of the client (the data of a command is left out   *)
(* here); the others are sent as they are.                                  *)
SentLine(s) ==
    /\ Word(s, {"other", "transfers", "get", "put", "reload", "logout"})
    /\ executeCommand(s, Line(s).word)
    /\ Processed(s, setForRegisterAgain(shell[s]))
    /\ UNCHANGED <<serverState, wireVars, lines>>

-----------------------------------------------------------------------------
(* Faults *)

(* A shell is killed, or its terminal is closed. *)
ShellDies(s) ==
    /\ Spend("deaths") /\ shell[s].pc # "exited"
    /\ shell' = [shell EXCEPT ![s] = [FreshShell EXCEPT !.pc = "exited"]]
    /\ socket' = [socket EXCEPT ![s] = IF @ \in {"open", "pending"} THEN "hungup"
                                                                   ELSE @]
    /\ UNCHANGED <<serverState, up, inbox, lines, loggedIn, sent>>

(* The server ends or crashes: its memory and its sockets are gone; whether *)
(* to warn is saved.  It does not end here while a verification is pending. *)
ServerDies ==
    /\ up /\ mCounter = 0 /\ Spend("crashes")
    /\ up' = FALSE
    /\ ForgetEverything
    /\ socket' = [s \in Shells |-> IF socket[s] \in {"open", "pending"}
                                   THEN "dropped" ELSE socket[s]]
    /\ sdk' = [sdk EXCEPT !.paywall = "none", !.logout = "none"]
    /\ stalls' = [stalls EXCEPT !.requests = 0, !.failed = TRUE,
                                !.mSyncStalled = FALSE]
    /\ commands' = <<>>
    /\ loggedIn' \in {loggedIn, FALSE}
    /\ seen' = [seen EXCEPT !.kept = {}, !.security = FALSE, !.queued = <<>>,
                            !.delivered = <<>>]
    /\ UNCHANGED <<vars, plan, inbox, mWarningEnabled, shell, lines, sent>>

-----------------------------------------------------------------------------
ListenerThread(s) == ReadState(s) \/ listenToStateChanges(s)

ProcessLine(s) ==
    \/ LoginPassword(s) \/ NewPassword(s) \/ ConfirmPassword(s)
    \/ Exit(s) \/ LocalLine(s) \/ isserverloggedin(s) \/ AccountLine(s)
    \/ ConfirmLine(s) \/ SentLine(s)

MainThread(s) ==
    \/ registerForStateChanges(s) \/ JoinAndRegister(s) \/ WaitForServer(s)
    \/ LeaveLoop(s) \/ ShellEnds(s) \/ ProcessLine(s)

SystemNext ==
    \/ ServerNext /\ UNCHANGED <<plan, shellVars>>
    \/ \E s \in Shells :
          \/ ListenerThread(s) \/ MainThread(s) \/ TypeLine(s)
          \/ RetryConnections(s) \/ FailureForgotten(s) \/ sigint_handler(s)
          \/ ShellDies(s)
    \/ ServerDies

SystemSpec == SystemInit /\ [][SystemNext]_systemVars

(* Every thread goes on, time passes, and a user who types does not stop.   *)
(* One condition for all threads of the server is enough: what they have to *)
(* do is finite.  Faults, and the events of the SDK, need never come.       *)
ServerProgress ==
    /\ \/ MainStep \/ BroadcastStep
       \/ \E t \in DelayedThreads : DelayedStep(t)
       \/ onGlobalSyncStateChanged \/ StallListAnswer \/ actUponLogout
       \/ DebouncerTriggers \/ DebouncerReturns
    /\ UNCHANGED <<vars, plan, shellVars>>

Fairness ==
    /\ WF_systemVars(ServerProgress)
    /\ \A s \in Shells :
          /\ WF_systemVars(ListenerThread(s) \/ FailureForgotten(s))
          /\ WF_systemVars(MainThread(s) \/ TypeLine(s))

FairSystem == SystemSpec /\ Fairness

-----------------------------------------------------------------------------
(* Properties *)

(* When the stalled syncs have settled and the server could be asked for    *)
(* them, the shells' warning has been decided on the list as it is: no      *)
(* change is lost between the SDK and the debouncer (sync_issues.cpp).      *)
LatestStallsAnnounced ==
    \A n \in 0 .. 2 :
        (<>[](stalls.size = n /\ ~stalls.failed)) => <>[](seen.announced = n)

Listens(s) == shell[s].listener = "running" /\ socket[s] \in {"pending", "open"}
Leaving(s) == shell[s].doExit \/ shell[s].pc \in {"leaving", "exited"}

(* A shell whose server went away, or would not register it, listens again  *)
(* as its user types on, "Type to respawn or reconnect to it", unless an    *)
(* earlier attempt to register again found no server: then the request to   *)
(* stop is never taken back (registerForStateChanges).                      *)
ListensAgain ==
    \A s \in Shells :
        (s \in plan.typists /\ ~Listens(s)) ~>
            (Listens(s) \/ Leaving(s) \/ shell[s].refused)

(* The password that a user enters for a command is sent with that command, *)
(* or with one that was given up when its password was asked for: Ctrl-C,   *)
(* and a second password that differs, leave signingup, confirminglink and  *)
(* confirmingcancellink as they are (process_line and sigint_handler).      *)
PasswordGoesToItsCommand ==
    \A s \in Shells :
        sent[s].asked # "none" =>
            sent[s].name \in {sent[s].asked} \cup sent[s].abandoned

=============================================================================
