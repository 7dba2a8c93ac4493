--------------------------- MODULE MCLocalFolders ---------------------------
(* LocalFolders for TLC: two local folders of which one is the prefix of the *)
(* other, two remote folders, and scripts of two clients.                    *)
EXTENDS LocalFolders

CONSTANTS c1, c2

A == <<"/", "a">>
AB == <<"/", "a", "b">>
Remote == <<"r">>
Other == <<"o">>
Lost == <<"x">>

Id(i) == [id |-> i, path |-> <<>>]
Path(p) == [id |-> None, path |-> p]

Request0 == [loggedIn |-> TRUE, flags |-> {}]
Sync(flags, args) == [op |-> "sync", flags |-> flags, args |-> args] @@ Request0
Issues(id) == [op |-> "sync-issues", id |-> id, args |-> <<>>] @@ Request0
Config == [op |-> "sync-config"] @@ Request0
Ignore(flags, words, who) ==
    [op |-> "sync-ignore", flags |-> flags, who |-> who,
     filters |-> {[word |-> w, space |-> FALSE, valid |-> w # "bad"] : w \in words}] @@ Request0
Spaced(req) == [req EXCEPT !.filters = {[f EXCEPT !.space = TRUE, !.valid = FALSE] : f \in @}]
Exclude(flags, words) == [Ignore(flags, words, Path(Default)) EXCEPT !.op = "exclude"]
FuseCmd(cmd, name, more) ==
    more @@ [op |-> "fuse", cmd |-> cmd, name |-> name, path |-> "/m", node |-> Remote,
             disabled |-> FALSE, transient |-> FALSE, delta |-> <<>>] @@ Request0
LoggedOut(req) == [req EXCEPT !.loggedIn = FALSE]

Running(local, cloud) == [state |-> "running", local |-> local, cloud |-> cloud, error |-> FALSE]
File(words) == [exists |-> TRUE, lines |-> [i \in 1 .. Len(words) |-> <<words[i]>>], open |-> FALSE]
Mount(name, path) ==
    [name |-> name, path |-> path, node |-> Remote, enabled |-> TRUE, startup |-> TRUE,
     persistent |-> TRUE, readonly |-> FALSE]
Stall(id, local) == [id |-> id, local |-> local, cloud |-> <<>>]

On(first, second, faultCount) ==
    [startup |-> <<>>, scripts |-> [c \in {c1, c2} |-> IF c = c1 THEN first ELSE second],
     syncs |-> [i \in SyncIds |-> IF i = 1 THEN Running(A, Remote) ELSE NoSync],
     mounts |-> [m \in Mounts |-> NoMount],
     nodes |-> [n \in {Remote, Other, Lost} |-> IF n = Lost THEN "readonly" ELSE "full"],
     files |-> [d \in {Default, A, AB} |-> IF d = Default THEN NoFile
                                           ELSE File(<<"#", "f1", "f2">>)],
     issues |-> {}, saved |-> Lower, faults |-> faultCount]

MCScenarios == {
    On(<<Sync({"pause"}, <<Id(1)>>), Sync({}, <<>>)>>,
       <<Sync({"delete"}, <<Path(A)>>), Sync({}, <<A, Other>>)>>, 1),
    On(<<Sync({"enable"}, <<Path(A)>>), Sync({}, <<AB, Other>>)>>,
       <<Sync({}, <<AB, Lost>>), Sync({"delete"}, <<Id(1)>>), Sync({}, <<Path(AB)>>)>>, 2),
    [On(<<Sync({}, <<AB, Other>>), Issues(None)>>, <<Issues(1), Sync({}, <<>>)>>, 1)
        EXCEPT !.issues = {Stall(1, A \o <<"/", "x">>), Stall(2, AB)}],
    [On(<<Config, LoggedOut(Config)>>, <<Sync({"pause", "enable"}, <<Id(1)>>), Config>>, 1)
        EXCEPT !.startup = <<"wait", "attempts">>, !.saved = [wait |-> 2, attempts |-> 3]],
    On(<<Ignore({"add"}, {"f3", "f1"}, Id(1)), Ignore({"show"}, {}, Path(A))>>,
       <<Ignore({"remove"}, {"f2", "f9"}, Id(1)), Ignore({"add"}, {"f2"}, Id(1))>>, 1),
    On(<<Ignore({"remove"}, {"f1"}, Path(A)), Ignore({"add"}, {"f4", "bad"}, Path(A))>>,
       <<Ignore({"remove"}, {"f2"}, Path(A)), Ignore({"add"}, {"f5"}, Path(AB))>>, 1),
    On(<<Ignore({"add"}, {"f3"}, Id(1)), Ignore({"remove"}, {"f3"}, Id(1))>>,
       <<Spaced(Ignore({"remove"}, {"f1"}, Path(A))), Ignore({"show"}, {"f1"}, Id(1))>>, 0),
    [On(<<Exclude({"add"}, {"f3"}), Exclude({}, {})>>, <<Exclude({"remove"}, {"f1"}), Exclude({"add"}, {})>>, 1)
        EXCEPT !.files[Default] = File(<<"f1">>)],
    On(<<FuseCmd("add", "m1", <<>>), FuseCmd("remove", "m1", <<>>)>>,
       <<FuseCmd("enable", "/m", [transient |-> TRUE]), FuseCmd("add", "m2", [disabled |-> TRUE]),
         FuseCmd("list", "", <<>>)>>, 1),
    [On(<<FuseCmd("config", "m1", [delta |-> [name |-> "m2"]]), FuseCmd("disable", "m2", <<>>)>>,
        <<FuseCmd("remove", "m1", <<>>), FuseCmd("show", "/m", <<>>), FuseCmd("config", "m1", <<>>), FuseCmd("add", "m3", [path |-> "missing"])>>, 1)
        EXCEPT !.mounts[1] = Mount("m1", "/m")],
    [On(<<FuseCmd("config", "m1", [delta |-> [name |-> "m2"]]),
          FuseCmd("config", "m2", [delta |-> [readonly |-> TRUE]])>>,
        <<FuseCmd("config", "m1", [delta |-> [persistent |-> FALSE, startup |-> FALSE]]),
          FuseCmd("enable", "/m", <<>>), FuseCmd("remove", "m2", <<>>)>>, 1)
        EXCEPT !.mounts[1] = Mount("m1", "/m"), !.mounts[2] = Mount("m2", "/m")],
    [On(<<Ignore({"add"}, {"f3"}, Id(1)), Ignore({"remove"}, {"f1"}, Id(1)), Ignore({"add"}, {"f4"}, Path(A))>>,
        <<Ignore({"remove"}, {"f3"}, Path(A)), Sync({"delete"}, <<Id(1)>>), Sync({"pause"}, <<Path(A)>>)>>, 1)
        EXCEPT !.files[A].open = TRUE]}
=============================================================================
