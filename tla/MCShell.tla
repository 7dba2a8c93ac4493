------------------------------- MODULE MCShell -------------------------------
(* Shell for TLC: every scenario exercises a few sources of messages and a  *)
(* few faults, so that the instances add up instead of multiplying.         *)
EXTENDS Shell

CONSTANTS s1, s2

NoFaults == [crashes |-> 0, refusals |-> 0, deaths |-> 0, interrupts |-> 0]
Account(in, undecryptable, out) ==
    [unverifiedIn |-> in, undecryptable |-> undecryptable, unverifiedOut |-> out]

(* A quiet server, and shells that only listen. *)
Listeners(S) ==
    [events |-> <<>>, stalls |-> <<>>, commands |-> <<>>, triggers |-> 0,
     account |-> Account(FALSE, FALSE, FALSE), maxStateListeners |-> 2, shells |-> S,
     lines |-> [s \in Shells |-> <<>>], faults |-> NoFaults, loggedIn |-> TRUE,
     typists |-> {}]

Events(p, events) == [p EXCEPT !.events = events]
Stalls(p, sizes) == [p EXCEPT !.stalls = sizes]
Runs(p, todo) == [p EXCEPT !.commands = todo]
Dying(p, n) == [p EXCEPT !.faults.deaths = n]
Types(p, s, typed) == [p EXCEPT !.lines[s] = typed]
Verifies(p, n, account) == [p EXCEPT !.triggers = n, !.account = account]
LoggedOut(p) == [p EXCEPT !.loggedIn = FALSE]
ForEver(p, crashes, refusals) ==
    [p EXCEPT !.typists = p.shells, !.faults.crashes = crashes, !.faults.refusals = refusals]
Interrupted(p) == [p EXCEPT !.faults.interrupts = 1]

Bad(text) == [type |-> "syncOrMount", bad |-> TRUE, text |-> text]
Good == [type |-> "syncOrMount", bad |-> FALSE]
SyncsDisabled == [type |-> "syncsDisabled"]
Storage(level) == [type |-> "storage", level |-> level]
UpgradeSecurity == [type |-> "upgradeSecurity"]
Fatal(reaction) == [type |-> "fatal", reaction |-> reaction]
Cd(prompt) == [name |-> "cd", prompt |-> prompt]
Confirm == [name |-> "confirm"]
WarningIs(enable) == [name |-> "warning", enable |-> enable]
Restart == [name |-> "restart"]

Typed(word, words) == [word |-> word, words |-> words]
Quit(only) == [word |-> "quit", only |-> only]

One == Listeners({s1})
Two == Listeners({s1, s2})

MCScenarios == {
    Events(One, <<Bad("a"), Bad(SyncDisabled), Bad("b"), SyncsDisabled>>),
    Events(One, <<Good>>),
    Dying(Events(Two, <<UpgradeSecurity>>), 1),
    Events(One, <<Storage(ORANGE), Storage(RED)>>),
    Dying(Events(One, <<Storage(RED), Storage(GREEN), Storage(PAYWALL), Storage(RED)>>), 1),
    Runs(Events(One, <<UpgradeSecurity, Fatal("log out")>>), <<Confirm>>),
    Events(One, <<Fatal("none"), Fatal("tell")>>),
    Runs(Stalls(One, <<2, 0>>), <<WarningIs(FALSE), WarningIs(TRUE)>>),
    Dying(Stalls(One, <<1, 2>>), 1),
    Runs(One, <<Cd("a"), Cd("b")>>),
    Verifies(One, 1, Account(TRUE, FALSE, FALSE)),
    Verifies(Listeners({}), 2, Account(TRUE, FALSE, FALSE)),
    Verifies(Listeners({}), 1, Account(FALSE, TRUE, FALSE)),
    Verifies(Listeners({}), 1, Account(FALSE, FALSE, TRUE)),
    [Types(Two, s1, <<Typed("get", 2)>>) EXCEPT !.maxStateListeners = 1],
    ForEver(One, 2, 1),
    [ForEver(Two, 0, 0) EXCEPT !.maxStateListeners = 1, !.typists = {s2}],
    Types(ForEver(One, 1, 0), s1, <<Typed("put", 2)>>),
    Types(Types(Two, s1, <<Typed("get", 2), Quit("none")>>), s2, <<Typed("reload", 1), Quit("shell")>>),
    Runs(Types(One, s1, <<Quit("server"), Typed("clear", 1)>>), <<Restart>>),
    Types(One, s1, <<[word |-> "EOF"]>>),
    Interrupted(LoggedOut(Types(One, s1, <<Typed("signup", 2), Typed("x", 1), Typed("x", 1), Typed("login", 2),
                                           Typed("x", 1), Typed("passwd", 1), Typed("z", 1), Typed("z", 1)>>))),
    Types(One, s1, <<Typed("passwd", 1), Typed("x", 1), Typed("y", 1), Typed("passwd", 2), Typed("signup", 2)>>),
    Types(One, s1, <<Typed("confirm", 3), Typed("x", 1), Typed("confirm", 2), Typed("confirmcancel", 2), Typed("x", 1),
                     Typed("logout", 1), Typed("login", 2), Typed("x", 1), Typed("login", 3)>>)}
=============================================================================
