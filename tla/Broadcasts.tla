----------------------------- MODULE Broadcasts -----------------------------
(***************************************************************************)
(* What the server tells its shells unasked: the list of state listeners    *)
(* (comunicationsmanager.cpp and its file socket subclass), broadcasts,     *)
(* delayed broadcasts and greetings (megacmd.cpp), and their sources: the   *)
(* events of the SDK (listeners.cpp), the debounced warning about sync      *)
(* issues (sync_issues.cpp) and the verification of shared folders, which   *)
(* the executer runs as the callback of a DeferredSingleTrigger.            *)
(*                                                                          *)
(* Actors: the main thread, which registers listeners; the thread of the    *)
(* SDK; a petition thread; the threads of delayed broadcasts; the debouncer *)
(* thread; the callers and the worker of the trigger.  A broadcast is two   *)
(* steps, because the message is kept for the next shell after              *)
(* mStateListenersMutex has been released.                                  *)
(*                                                                          *)
(* A message is its text, abbreviated.  Acks, which a shell ignores, are    *)
(* not put in its socket.  A send fails only when the shell has closed its  *)
(* end: a shell that stops reading, and torn reads of dynamicprompt, are    *)
(* not modelled.  A listener that another thread erases while the main      *)
(* thread still registers it is freed memory; what the main thread then     *)
(* sends reaches no shell here.                                             *)
(***************************************************************************)
EXTENDS DeferredSingleTrigger, SequencesExt

CONSTANTS
    Shells,      \* interactive shells
    Scenarios    \* what happens to the server and to the shells, see plan

GREEN == 0
ORANGE == 1
RED == 2
PAYWALL == 4

(* What the SDK may report. *)
SdkEvents ==
    [type : {"syncOrMount"}, bad : {FALSE}]
    \cup [type : {"syncOrMount"}, bad : {TRUE}, text : STRING]
    \cup [type : {"syncsDisabled", "upgradeSecurity"}]
    \cup [type : {"storage"}, level : {GREEN, ORANGE, RED, PAYWALL}]
    \cup [type : {"fatal"}, reaction : {"tell", "log out", "none"}]

ASSUME ScenariosAssumption ==
    \A p \in Scenarios : p.maxStateListeners \in Nat \ {0} /\ p.events \in Seq(SdkEvents)

VARIABLES
    plan,        \* the scenario: events, commands and numbers of faults
    up,          \* the server process is running
    stateListenersPetitions,  \* in any order: all get the same states
    clientID, currentclientID,
    socket,      \* the socket between a shell and the server
    inbox,       \* states sent to a shell that it has not read
    greetingsFirstClientMsgs, greetingsAllClientMsgs,
    delayedBroadCastMessages, ongoing,
    delayed,     \* control state of the threads of broadcastDelayedMessage
    hand,        \* the message that a thread is broadcasting
    registration,\* control state and locals of the main thread
    dynamicprompt, storageStatus,
    sdk,         \* the SDK: events to come and requests it has to answer
    stalls,      \* the SDK's stalled syncs, and mSyncStalled
    debouncer,   \* SyncIssuesBroadcastListener
    mWarningEnabled,
    commands,    \* what the petition thread has still to do
    verified,    \* the running callback has called verifySharedFolders
    seen         \* history, for the properties

listenerVars == <<stateListenersPetitions, clientID, currentclientID>>
wireVars == <<socket, inbox>>
greetingVars == <<greetingsFirstClientMsgs, greetingsAllClientMsgs>>
delayedVars == <<delayedBroadCastMessages, ongoing, delayed>>
mainVars == <<registration, dynamicprompt>>
issueVars == <<stalls, debouncer, mWarningEnabled>>
serverVars == <<up, listenerVars, wireVars, greetingVars, delayedVars, hand,
                mainVars, storageStatus, sdk, issueVars, commands, verified,
                seen>>

DelayedThreads == {"delayed1", "delayed2"}
Broadcasters == {"sdk", "petition", "debouncer", "verifier"} \cup DelayedThreads
NoMessage == [type |-> "none"]

Idle == [pc |-> "idle"]

(* The memory of a server process that has just been started. *)
StartedServer ==
    /\ stateListenersPetitions = {}
    /\ clientID = [s \in Shells |-> 0]
    /\ currentclientID = 1
    /\ greetingsFirstClientMsgs = <<>>
    /\ greetingsAllClientMsgs = <<>>
    /\ delayedBroadCastMessages = <<>>
    /\ ongoing = FALSE
    /\ delayed = [t \in DelayedThreads |-> "none"]
    /\ hand = [t \in Broadcasters |-> NoMessage]
    /\ registration = Idle
    /\ dynamicprompt = "MEGA CMD"
    /\ storageStatus = GREEN
    /\ debouncer = [pc |-> "waiting", mSyncIssuesSize |-> 0,
                    mLastTriggerTime |-> "never"]
    /\ verified = FALSE

(* The same, of the next state: what was in memory is gone. *)
ForgetEverything ==
    /\ stateListenersPetitions' = {}
    /\ clientID' = [s \in Shells |-> 0]
    /\ currentclientID' = 1
    /\ greetingsFirstClientMsgs' = <<>>
    /\ greetingsAllClientMsgs' = <<>>
    /\ delayedBroadCastMessages' = <<>>
    /\ ongoing' = FALSE
    /\ delayed' = [t \in DelayedThreads |-> "none"]
    /\ hand' = [t \in Broadcasters |-> NoMessage]
    /\ registration' = Idle
    /\ dynamicprompt' = "MEGA CMD"
    /\ storageStatus' = GREEN
    /\ debouncer' = [pc |-> "waiting", mSyncIssuesSize |-> 0,
                    mLastTriggerTime |-> "never"]
    /\ verified' = FALSE

ServerInit ==
    /\ Init
    /\ plan \in Scenarios
    /\ up = TRUE
    /\ StartedServer
    /\ socket = [s \in Shells |-> "none"]
    /\ inbox = [s \in Shells |-> <<>>]
    /\ sdk = [events |-> plan.events, paywall |-> "none", logout |-> "none"]
    /\ stalls = [toCome |-> plan.stalls, size |-> 0, changed |-> FALSE,
                 mSyncStalled |-> FALSE, requests |-> 0, failed |-> FALSE]
    /\ mWarningEnabled = TRUE
    /\ commands = plan.commands
    /\ seen = [told |-> [s \in Shells |-> {}], warned |-> [s \in Shells |-> GREEN],
               security |-> FALSE, kept |-> {}, handed |-> {}, unheard |-> {},
               queued |-> <<>>, delivered |-> <<>>, announced |-> 0,
               paywallFailed |-> FALSE]

-----------------------------------------------------------------------------
(* Listeners *)

Listening == {s \in stateListenersPetitions : socket[s] = "open"}

(* Puts states into the sockets of a set of shells. *)
Send(receivers, states) ==
    inbox' = [s \in Shells |-> IF s \in receivers THEN inbox[s] \o states
                                                  ELSE inbox[s]]

Told(receivers, texts) ==
    [s \in Shells |-> seen.told[s] \cup IF s \in receivers THEN texts ELSE {}]

Warning(level) == IF level = ORANGE THEN "running out"
                  ELSE IF level = RED THEN "exceeded"
                  ELSE "paywall"
LevelOf(text) == IF \E l \in {ORANGE, RED, PAYWALL} : Warning(l) = text
                 THEN CHOOSE l \in {ORANGE, RED, PAYWALL} : Warning(l) = text
                 ELSE GREEN
Warned(receivers, level) ==
    [s \in Shells |-> IF s \in receivers /\ level > seen.warned[s]
                      THEN level ELSE seen.warned[s]]

(* informStateListeners: every listener gets the state; one whose send      *)
(* fails is erased.                                                         *)
informStateListeners(state) ==
    /\ stateListenersPetitions' = Listening
    /\ Send(Listening, <<state>>)
    /\ UNCHANGED <<clientID, currentclientID, socket>>

-----------------------------------------------------------------------------
(* Broadcasts *)

(* Thread t starts broadcastMessage(text, keep). *)
broadcastMessage(t, text, keep) ==
    hand' = [hand EXCEPT ![t] = [type |-> "message", text |-> text,
                                 keep |-> keep, step |-> "inform"]]
(* changeprompt: the prompt is set, then told. *)
changeprompt(t, prompt) ==
    /\ dynamicprompt' = prompt
    /\ hand' = [hand EXCEPT ![t] = [type |-> "prompt", text |-> prompt,
                                    keep |-> FALSE, step |-> "inform"]]

(* History: a message is to be kept that nobody hears; what became of the   *)
(* same message before does not count any more.                             *)
Keeping(text) ==
    [seen EXCEPT !.kept = @ \cup {text}, !.handed = @ \ {text},
                 !.unheard = @ \ {text}]

(* Mutant of NobodyListens: the listeners are counted before they are told. *)
MutCountedBefore == stateListenersPetitions = {}

(* The answer of informStateListeners, once closed listeners are erased. *)
NobodyListens == Listening = {}

InformStep(t) ==
    /\ hand[t].type # "none" /\ hand[t].step = "inform"
    /\ LET m == hand[t]
           keeping == m.keep /\ NobodyListens
       IN /\ informStateListeners([type |-> m.type, text |-> m.text])
          /\ hand' = [hand EXCEPT ![t] = IF keeping THEN [m EXCEPT !.step = "keep"]
                                                    ELSE NoMessage]
          /\ seen' = [seen EXCEPT
                 !.told = Told(Listening, {m.text}),
                 !.warned = Warned(Listening, LevelOf(m.text)),
                 !.handed = @ \cup IF Listening = {} THEN {} ELSE {m.text},
                 !.delivered = IF t \in DelayedThreads THEN Append(@, m.text)
                                                       ELSE @]
    /\ UNCHANGED <<up, greetingVars, delayedVars, mainVars, storageStatus, sdk,
                   issueVars, commands, verified>>

(* appendGreetingStatusFirstListener: nobody was there to be told. *)
KeepStep(t) ==
    /\ hand[t].type # "none" /\ hand[t].step = "keep"
    /\ greetingsFirstClientMsgs' = <<hand[t].text>> \o greetingsFirstClientMsgs
    /\ hand' = [hand EXCEPT ![t] = NoMessage]
    /\ UNCHANGED <<up, listenerVars, wireVars, greetingsAllClientMsgs,
                   delayedVars, mainVars, storageStatus, sdk, issueVars,
                   commands, verified, seen>>

(* Mutant of broadcastDelayedMessage: every call starts a thread. *)
MutThreadPerMessage(text) ==
    /\ delayedBroadCastMessages' = Append(delayedBroadCastMessages, text)
    /\ seen' = [Keeping(text) EXCEPT !.queued = Append(@, text)]
    /\ \E t \in DelayedThreads :
          /\ delayed[t] = "none"
          /\ delayed' = [delayed EXCEPT ![t] = "sleeping"]
          /\ ongoing' = TRUE

broadcastDelayedMessage(text) ==
    /\ delayedBroadCastMessages' = Append(delayedBroadCastMessages, text)
    /\ seen' = [Keeping(text) EXCEPT !.queued = Append(@, text)]
    /\ IF ongoing
       THEN UNCHANGED <<ongoing, delayed>>
       ELSE \E t \in DelayedThreads :
               /\ delayed[t] = "none"
               /\ delayed' = [delayed EXCEPT ![t] = "sleeping"]
               /\ ongoing' = TRUE

(* The thread has slept its four seconds, or has told a message: it takes   *)
(* the next one, or ends.                                                   *)
DelayedStep(t) ==
    /\ delayed[t] # "none" /\ hand[t] = NoMessage
    /\ IF delayedBroadCastMessages # <<>>
       THEN /\ broadcastMessage(t, Head(delayedBroadCastMessages), TRUE)
            /\ delayedBroadCastMessages' = Tail(delayedBroadCastMessages)
            /\ delayed' = [delayed EXCEPT ![t] = "telling"]
            /\ UNCHANGED ongoing
       ELSE /\ ongoing' = FALSE
            /\ delayed' = [delayed EXCEPT ![t] = "none"]
            /\ UNCHANGED <<hand, delayedBroadCastMessages>>
    /\ UNCHANGED <<up, listenerVars, wireVars, greetingVars, mainVars,
                   storageStatus, sdk, issueVars, commands, verified, seen>>

-----------------------------------------------------------------------------
(* Registration of a listener, by the main thread *)

Registering(s) == registration.pc # "idle" /\ registration.shell = s
At(place) == registration.pc = place
To(place) == registration' = [registration EXCEPT !.pc = place]

(* The main thread talks to the listener it registers.  The send has no     *)
(* effect when the shell has gone.                                          *)
Reachable == {registration.shell} \cap Listening

registerStateListener(s) ==
    /\ up /\ At("idle") /\ socket[s] = "pending"
    /\ IF Cardinality(Listening) >= plan.maxStateListeners
       THEN /\ stateListenersPetitions' = Listening
            /\ socket' = [socket EXCEPT ![s] = "dropped"]
            /\ UNCHANGED registration
       ELSE /\ stateListenersPetitions' = Listening \cup {s}
            /\ socket' = [socket EXCEPT ![s] = "open"]
            /\ registration' = [pc |-> "id", shell |-> s, level |-> GREEN,
                                prompt |-> ""]
    /\ seen' = [seen EXCEPT !.told[s] = {}, !.warned[s] = GREEN]
    /\ UNCHANGED <<up, clientID, currentclientID, inbox, greetingVars,
                   delayedVars, hand, dynamicprompt, storageStatus, sdk,
                   issueVars, commands, verified>>

TellClientId ==
    /\ At("id")
    /\ clientID' = [clientID EXCEPT ![registration.shell] = currentclientID]
    /\ currentclientID' = currentclientID + 1
    /\ Send(Reachable, <<[type |-> "clientID", id |-> currentclientID]>>)
    /\ To("storage")
    /\ UNCHANGED <<up, stateListenersPetitions, socket, greetingVars,
                   delayedVars, hand, dynamicprompt, storageStatus, sdk,
                   issueVars, commands, verified, seen>>

(* The warning about the storage is prepared here and sent with the prompt. *)
PrepareStorageWarning ==
    /\ At("storage")
    /\ registration' = [registration EXCEPT !.pc = "greet",
                                            !.level = storageStatus]
    /\ UNCHANGED <<up, listenerVars, wireVars, greetingVars, delayedVars, hand,
                   dynamicprompt, storageStatus, sdk, issueVars, commands,
                   verified, seen>>

Message(text) == [type |-> "message", text |-> text]
Messages(texts) == [i \in DOMAIN texts |-> Message(texts[i])]

(* Under greetingsmsgsMutex: what was kept for the first shell is taken,    *)
(* whether or not the shell is still there to hear it.                      *)
Greet ==
    /\ At("greet")
    /\ LET texts == greetingsFirstClientMsgs \o greetingsAllClientMsgs
           first == ToSet(greetingsFirstClientMsgs)
       IN /\ Send(Reachable, Messages(texts))
          /\ seen' = [seen EXCEPT
                 !.told = Told(Reachable, ToSet(texts)),
                 !.handed = @ \cup IF Reachable = {} THEN {} ELSE first,
                 !.unheard = @ \cup IF Reachable = {} THEN first ELSE {}]
    /\ greetingsFirstClientMsgs' = <<>>
    /\ To("prompt")
    /\ UNCHANGED <<up, listenerVars, socket, greetingsAllClientMsgs,
                   delayedVars, hand, dynamicprompt, storageStatus, sdk,
                   issueVars, commands, verified>>

ReadPrompt ==
    /\ At("prompt")
    /\ registration' = [registration EXCEPT !.pc = "send",
                                            !.prompt = dynamicprompt]
    /\ UNCHANGED <<up, listenerVars, wireVars, greetingVars, delayedVars, hand,
                   dynamicprompt, storageStatus, sdk, issueVars, commands,
                   verified, seen>>

SendPrompt ==
    /\ At("send")
    /\ LET level == registration.level
           warning == IF level = GREEN THEN <<>> ELSE <<Message(Warning(level))>>
       IN /\ Send(Reachable, Append(warning, [type |-> "prompt",
                                              text |-> registration.prompt]))
          /\ seen' = [seen EXCEPT !.warned = Warned(Reachable, level)]
    /\ registration' = Idle
    /\ UNCHANGED <<up, listenerVars, socket, greetingVars, delayedVars, hand,
                   dynamicprompt, storageStatus, sdk, issueVars, commands,
                   verified>>

-----------------------------------------------------------------------------
(* Events of the SDK.  One thread delivers them, one after the other. *)

SdkIdle == up /\ hand["sdk"] = NoMessage /\ sdk.logout # "done"
Event == Head(sdk.events)
Take == [sdk EXCEPT !.events = Tail(@)]
EventIs(type) == SdkIdle /\ sdk.events # <<>> /\ Event.type = type

(* onSyncStateChanged and onMountEvent: only what went wrong is told. *)
SyncOrMountEvent ==
    /\ EventIs("syncOrMount")
    /\ IF Event.bad
       THEN broadcastDelayedMessage(Event.text)
       ELSE UNCHANGED <<delayedVars, seen>>
    /\ sdk' = Take
    /\ UNCHANGED <<up, listenerVars, wireVars, greetingVars, hand, mainVars,
                   storageStatus, issueVars, commands, verified>>

(* The messages of a list but those that match a pattern. *)
NotMatching(list, pattern) ==
    LET rest[i \in 0 .. Len(list)] ==
            IF i = 0 THEN <<>>
            ELSE IF list[i] = pattern THEN rest[i - 1]
            ELSE Append(rest[i - 1], list[i])
    IN rest[Len(list)]

SyncDisabled == "Your sync has been disabled"

(* removeDelayedBroadcastMatching: what is not queued any more is superseded. *)
NotDisabled == NotMatching(delayedBroadCastMessages, SyncDisabled)
Taken ==
    SubSeq(seen.queued, 1, Len(seen.queued) - Len(delayedBroadCastMessages))

SyncsDisabledEvent ==
    /\ EventIs("syncsDisabled")
    /\ delayedBroadCastMessages' = NotDisabled
    /\ broadcastMessage("sdk", "syncs disabled", TRUE)
    /\ seen' = [Keeping("syncs disabled") EXCEPT !.kept = @ \ {SyncDisabled},
                                                 !.queued = Taken \o NotDisabled]
    /\ sdk' = Take
    /\ UNCHANGED <<up, listenerVars, wireVars, greetingVars, ongoing, delayed,
                   mainVars, storageStatus, issueVars, commands, verified>>

(* Mutant of Rises: only the first warning is broadcast. *)
MutLeavesGreen(level) == storageStatus = GREEN /\ level # GREEN

Rises(level) == storageStatus < level

StorageEvent ==
    /\ EventIs("storage")
    /\ storageStatus' = Event.level
    /\ IF Rises(Event.level) /\ Event.level # PAYWALL
       THEN broadcastMessage("sdk", Warning(Event.level), FALSE)
       ELSE UNCHANGED hand
    /\ sdk' = [Take EXCEPT !.paywall = IF Rises(PAYWALL) /\ Event.level = PAYWALL
                                       THEN "user data" ELSE @]
    /\ seen' = [seen EXCEPT !.warned = [s \in Shells |->
                   IF Event.level = GREEN THEN GREEN ELSE @[s]]]
    /\ UNCHANGED <<up, listenerVars, wireVars, greetingVars, delayedVars,
                   mainVars, issueVars, commands, verified>>

(* Before the shells hear of the paywall the server asks MEGA two questions; *)
(* when one of them fails they are not told.                                *)
PaywallAnswer ==
    /\ SdkIdle /\ sdk.paywall # "none"
    /\ \E ok \in BOOLEAN :
          /\ sdk' = [sdk EXCEPT !.paywall =
                        IF ok /\ @ = "user data" THEN "details" ELSE "none"]
          /\ IF ok /\ sdk.paywall = "details"
             THEN broadcastMessage("sdk", Warning(PAYWALL), FALSE)
             ELSE UNCHANGED hand
          /\ seen' = [seen EXCEPT !.paywallFailed = @ \/ ~ok]
    /\ UNCHANGED <<up, listenerVars, wireVars, greetingVars, delayedVars,
                   mainVars, storageStatus, issueVars, commands, verified>>

(* The greeting for later shells comes before the broadcast to present ones. *)
SecurityEvent ==
    /\ EventIs("upgradeSecurity")
    /\ greetingsAllClientMsgs' = <<"security">> \o greetingsAllClientMsgs
    /\ broadcastMessage("sdk", "security", FALSE)
    /\ seen' = [seen EXCEPT !.security = TRUE]
    /\ sdk' = Take
    /\ UNCHANGED <<up, listenerVars, wireVars, greetingsFirstClientMsgs,
                   delayedVars, mainVars, storageStatus, issueVars, commands,
                   verified>>

(* MegaCmdFatalErrorListener: some errors are told at once, some make the   *)
(* server log out, and are told when it has.                                *)
FatalErrorEvent ==
    /\ EventIs("fatal")
    /\ \/ /\ Event.reaction = "tell"
          /\ broadcastMessage("sdk", "fatal", FALSE)
          /\ sdk' = Take
       \/ /\ Event.reaction = "log out"
          /\ sdk' = [Take EXCEPT !.logout = "requested"]
          /\ UNCHANGED hand
       \/ /\ Event.reaction = "none"
          /\ sdk' = Take
          /\ UNCHANGED hand
    /\ UNCHANGED <<up, listenerVars, wireVars, greetingVars, delayedVars,
                   mainVars, storageStatus, issueVars, commands, verified, seen>>

(* The listener of all requests resets the sandbox before the answer gets   *)
(* to the request's own listener, which tells the shells why.               *)
LogoutAnswer ==
    /\ SdkIdle /\ sdk.logout = "requested"
    /\ storageStatus' = GREEN
    /\ broadcastMessage("sdk", "fatal", FALSE)
    /\ sdk' = [sdk EXCEPT !.logout = "done"]
    /\ seen' = [seen EXCEPT !.warned = [s \in Shells |-> GREEN]]
    /\ UNCHANGED <<up, listenerVars, wireVars, greetingVars, delayedVars,
                   mainVars, issueVars, commands, verified>>

(* actUponLogout: the greetings, taken to be about the account, are dropped *)
(* unless the logout failed; the prompt is set and told in any case.        *)
actUponLogout ==
    /\ up /\ hand["sdk"] = NoMessage /\ sdk.logout = "done"
    /\ sdk' = [sdk EXCEPT !.logout = "none"]
    /\ \/ /\ greetingsFirstClientMsgs' = <<>>
          /\ greetingsAllClientMsgs' = <<>>
          /\ seen' = [seen EXCEPT !.security = FALSE,
                                  !.kept = @ \ ToSet(greetingsFirstClientMsgs)]
          /\ changeprompt("sdk", "MEGA CMD")
       \/ /\ changeprompt("sdk", dynamicprompt)
          /\ UNCHANGED <<greetingVars, seen>>
    /\ UNCHANGED <<up, listenerVars, wireVars, delayedVars, registration,
                   storageStatus, issueVars, commands, verified>>

-----------------------------------------------------------------------------
(* Sync issues *)

(* External: the stalled syncs change. *)
SyncsStall ==
    /\ up /\ stalls.toCome # <<>>
    /\ stalls' = [stalls EXCEPT !.toCome = Tail(@), !.size = Head(stalls.toCome),
                                !.changed = TRUE]
    /\ UNCHANGED <<up, listenerVars, wireVars, greetingVars, delayedVars, hand,
                   mainVars, storageStatus, sdk, debouncer, mWarningEnabled,
                   commands, verified, seen>>

onGlobalSyncStateChanged ==
    /\ SdkIdle /\ stalls.changed
    /\ LET stalled == stalls.size > 0
       IN stalls' = [stalls EXCEPT
              !.changed = FALSE,
              !.mSyncStalled = stalled,
              !.requests = IF stalled \/ stalled # stalls.mSyncStalled
                           THEN @ + 1 ELSE @]
    /\ UNCHANGED <<up, listenerVars, wireVars, greetingVars, delayedVars, hand,
                   mainVars, storageStatus, sdk, debouncer, mWarningEnabled,
                   commands, verified, seen>>

(* Mutant of MayChangeIssues: the debouncer calls back without its mutex. *)
MutCallbackUnlocked == TRUE

(* mDebouncerMtx is free: the debouncer holds it while it calls back. *)
MayChangeIssues == debouncer.pc = "waiting"

StallListAnswer ==
    /\ SdkIdle /\ stalls.requests > 0
    /\ \/ /\ MayChangeIssues
          /\ debouncer' = [debouncer EXCEPT !.mSyncIssuesSize = stalls.size,
                                            !.mLastTriggerTime = "recent"]
          /\ stalls' = [stalls EXCEPT !.requests = @ - 1]
       \/ /\ stalls' = [stalls EXCEPT !.requests = @ - 1, !.failed = TRUE]
          /\ UNCHANGED debouncer
    /\ UNCHANGED <<up, listenerVars, wireVars, greetingVars, delayedVars, hand,
                   mainVars, storageStatus, sdk, mWarningEnabled, commands,
                   verified, seen>>

(* The list has not changed for 300 ms: SyncIssuesManager tells the shells. *)
DebouncerTriggers ==
    /\ up /\ debouncer.pc = "waiting" /\ debouncer.mLastTriggerTime = "recent"
    /\ debouncer' = [debouncer EXCEPT !.pc = "calling"]
    /\ LET size == debouncer.mSyncIssuesSize
           tell == mWarningEnabled /\ size > 0
       IN IF tell
          THEN /\ broadcastMessage("debouncer", "sync issues", TRUE)
               /\ seen' = [Keeping("sync issues") EXCEPT !.announced = size]
          ELSE /\ seen' = [seen EXCEPT !.announced = size]
               /\ UNCHANGED hand
    /\ UNCHANGED <<up, listenerVars, wireVars, greetingVars, delayedVars,
                   mainVars, storageStatus, sdk, stalls, mWarningEnabled,
                   commands, verified>>

DebouncerReturns ==
    /\ debouncer.pc = "calling" /\ hand["debouncer"] = NoMessage
    /\ debouncer' = [debouncer EXCEPT !.pc = "waiting",
                                      !.mLastTriggerTime = "never"]
    /\ UNCHANGED <<up, listenerVars, wireVars, greetingVars, delayedVars, hand,
                   mainVars, storageStatus, sdk, stalls, mWarningEnabled,
                   commands, verified, seen>>

-----------------------------------------------------------------------------
(* Commands, by a petition thread *)

Command == Head(commands)
CommandIs(name) ==
    up /\ hand["petition"] = NoMessage /\ commands # <<>> /\ Command.name = name

(* cd, which sets the prompt. *)
ChangeDirectory ==
    /\ CommandIs("cd")
    /\ changeprompt("petition", Command.prompt)
    /\ commands' = Tail(commands)
    /\ UNCHANGED <<up, listenerVars, wireVars, greetingVars, delayedVars,
                   registration, storageStatus, sdk, issueVars, verified, seen>>

(* restartServer: the shells are told to start again. *)
TellRestart ==
    /\ CommandIs("restart")
    /\ hand' = [hand EXCEPT !["petition"] =
                   [type |-> "restart", text |-> "", keep |-> FALSE,
                    step |-> "inform"]]
    /\ commands' = Tail(commands)
    /\ UNCHANGED <<up, listenerVars, wireVars, greetingVars, delayedVars,
                   mainVars, storageStatus, sdk, issueVars, verified, seen>>

(* confirm --security: removeGreetingMatching *)
ConfirmSecurity ==
    /\ CommandIs("confirm")
    /\ greetingsAllClientMsgs' = NotMatching(greetingsAllClientMsgs, "security")
    /\ seen' = [seen EXCEPT !.security = FALSE]
    /\ commands' = Tail(commands)
    /\ UNCHANGED <<up, listenerVars, wireVars, greetingsFirstClientMsgs,
                   delayedVars, hand, mainVars, storageStatus, sdk, issueVars,
                   verified>>

(* sync-issues --disable-warning and --enable-warning: mWarningMtx is held  *)
(* while the shells are told.                                               *)
SetWarning ==
    /\ CommandIs("warning")
    /\ debouncer.pc = "waiting"
    /\ mWarningEnabled' = Command.enable
    /\ commands' = Tail(commands)
    /\ UNCHANGED <<up, listenerVars, wireVars, greetingVars, delayedVars, hand,
                   mainVars, storageStatus, sdk, stalls, debouncer, verified,
                   seen>>

-----------------------------------------------------------------------------
(* The verification of shared folders *)

(* verifySharedFolders tells the first caveat that applies. *)
Caveats ==
    IF plan.account.unverifiedIn THEN <<"verify contacts">>
    ELSE IF plan.account.undecryptable THEN <<"inaccessible shares">>
    ELSE IF plan.account.unverifiedOut THEN <<"verify contacts">>
    ELSE <<>>

verifySharedFolders(i) ==
    /\ worker[i] = "callback" /\ ~verified
    /\ verified' = TRUE
    /\ IF Caveats = <<>>
       THEN UNCHANGED <<hand, seen>>
       ELSE /\ broadcastMessage("verifier", Caveats[1], TRUE)
            /\ seen' = Keeping(Caveats[1])
    /\ UNCHANGED <<vars, up, listenerVars, wireVars, greetingVars, delayedVars,
                   mainVars, storageStatus, sdk, issueVars, commands>>

VerificationReturns(i) ==
    /\ verified /\ hand["verifier"] = NoMessage
    /\ CallbackReturns(i)
    /\ verified' = FALSE
    /\ UNCHANGED <<up, listenerVars, wireVars, greetingVars, delayedVars, hand,
                   mainVars, storageStatus, sdk, issueVars, commands, seen>>

(* actUponFetchNodes triggers; finalize destroys the trigger. *)
TriggerStep ==
    /\ up
    /\ \/ \E c \in Callers : mCounter < plan.triggers /\ incrementCounter(c)
       \/ \E c \in Callers : LockAndNotify(c) \/ Join(c) \/ isDestroyed(c)
                                 \/ Spawn(c)
       \/ plan.triggers > 0 /\ DestructorStep
       \/ \E i \in Ids : StartWaiting(i) \/ WakeUp(i) \/ Timeout(i)
    /\ UNCHANGED serverVars

-----------------------------------------------------------------------------
MainStep ==
    \/ \E s \in Shells : registerStateListener(s)
    \/ TellClientId \/ PrepareStorageWarning \/ Greet \/ ReadPrompt \/ SendPrompt

SdkStep ==
    \/ SyncOrMountEvent \/ SyncsDisabledEvent \/ StorageEvent \/ PaywallAnswer
    \/ SecurityEvent \/ FatalErrorEvent \/ LogoutAnswer \/ actUponLogout
    \/ onGlobalSyncStateChanged \/ StallListAnswer

BroadcastStep == \E t \in Broadcasters : InformStep(t) \/ KeepStep(t)

ServerNext ==
    \/ /\ \/ MainStep \/ SdkStep \/ BroadcastStep
          \/ \E t \in DelayedThreads : DelayedStep(t)
          \/ SyncsStall \/ DebouncerTriggers \/ DebouncerReturns
          \/ ChangeDirectory \/ TellRestart \/ ConfirmSecurity \/ SetWarning
       /\ UNCHANGED vars
    \/ \E i \in Ids : verifySharedFolders(i) \/ VerificationReturns(i)
    \/ TriggerStep

-----------------------------------------------------------------------------
(* Properties *)

InHand(text) == \E t \in Broadcasters : hand[t].type # "none" /\ hand[t].text = text

(* A message that is to be kept when nobody listens is not lost between the *)
(* broadcasters and the registration of shells: it is queued, being told,   *)
(* among the greetings, or has since been put into the socket of a shell    *)
(* (broadcastMessage, broadcastDelayedMessage and the greetings of a        *)
(* registration, megacmd.cpp).  The one exception is unheard: a greeting    *)
(* taken from the list for a shell that has hung up meanwhile is lost, for  *)
(* nobody looks at the result of sending it (megacmd.cpp:4881-4885).        *)
KeptMessageIsNotLost ==
    \A text \in seen.kept :
        \/ text \in ToSet(delayedBroadCastMessages)
        \/ InHand(text)
        \/ text \in ToSet(greetingsFirstClientMsgs)
        \/ text \in seen.handed
        \/ text \in seen.unheard

(* A shell that has been registered, whenever it came, has been told that   *)
(* the account needs a security upgrade, and warned about the storage at    *)
(* least as severely as the storage now is: no event falls between the      *)
(* greeting of a new shell and the broadcast to the old ones (onEvent,      *)
(* listeners.cpp, and the registration in megacmd.cpp).                     *)
EveryShellIsTold ==
    \A s \in Listening :
        ~Registering(s) =>
            /\ seen.security /\ ~InHand("security") =>
                  "security" \in seen.told[s]
            /\ \/ seen.warned[s] >= storageStatus
               \/ \E l \in {ORANGE, RED, PAYWALL} : InHand(Warning(l))
               \/ sdk.paywall # "none" \/ seen.paywallFailed

(* Delayed messages are told in the order they were queued in, one thread   *)
(* at a time (broadcastDelayedMessage).                                     *)
DelayedInOrder == IsPrefix(seen.delivered, seen.queued)

=============================================================================
