---------------------------- MODULE MCTransfers -----------------------------
(* Transfers for TLC: scripts of two clients, a pool of no, one or two APIs. *)
EXTENDS Transfers

CONSTANTS t1, t2

Get(nodes, kind, dest) ==
    [op |-> "get", link |-> FALSE, encrypted |-> FALSE, kind |-> kind, nodes |-> nodes,
     dest |-> dest, q |-> FALSE, ignore |-> TRUE]
Quiet(req) == [req EXCEPT !.q = TRUE]
Asking(req) == [req EXCEPT !.ignore = FALSE]
Link(kind, dest) == [Get(<<9>>, kind, dest) EXCEPT !.link = TRUE]
Encrypted(req) == [req EXCEPT !.encrypted = TRUE]
Import(kind, dest) ==
    [op |-> "import", encrypted |-> FALSE, kind |-> kind, dest |-> dest, q |-> FALSE]
PutFiles(paths, dest, flags) ==
    [op |-> "put", paths |-> paths, dest |-> dest, c |-> "c" \in flags,
     tag |-> "tag" \in flags, q |-> "q" \in flags]
All(what, only) == [op |-> "transfers", what |-> what, all |-> TRUE, only |-> only, tags |-> <<>>]
One(what, tags) == [op |-> "transfers", what |-> what, all |-> FALSE, only |-> {}, tags |-> tags]
List(only, done, syncs, limit) ==
    [op |-> "transfers", what |-> "show", only |-> only, completed |-> done,
     syncs |-> syncs, limit |-> limit]

On(first, second, pool, faultCount) ==
    [scripts |-> [t \in {t1, t2} |-> IF t = t1 THEN first ELSE second], pool |-> pool,
     overquota |-> FALSE, sync |-> "none", faults |-> faultCount]
OverQuota(s) == [s EXCEPT !.overquota = TRUE]
Syncing(s, type) == [s EXCEPT !.sync = type]

MCScenarios == {
    On(<<Get(<<1, 2>>, "file", "folder")>>, <<One("cancel", <<1>>), List({}, {}, TRUE, 1)>>, <<>>, 1),
    OverQuota(On(<<Asking(Get(<<1>>, "file", "new")), Get(<<1>>, "folder", "new")>>,
                 <<List({"D"}, {"show"}, FALSE, 2)>>, <<>>, 2)),
    On(<<Get(<<1>>, "file", ""), Get(<<1>>, "file", "")>>, <<Get(<<2>>, "file", "")>>, <<>>, 0),
    On(<<Asking(Get(<<2>>, "file", "nowhere"))>>, <<Asking(Get(<<2>>, "file", ""))>>, <<>>, 2),
    On(<<Link("folder", "")>>, <<Encrypted(Link("folder", "folder"))>>, <<"a1">>, 2),
    On(<<Asking(Link("folder", ""))>>, <<Encrypted(Import("folder", "folder")), Import("file", "folder")>>, <<"a1">>, 2),
    On(<<Link("folder", ""), Import("folder", "folder")>>, <<Quiet(Link("folder", "")), Import("file", "none")>>, <<"a1", "a2">>, 1),
    On(<<Link("folder", ""), Link("folder", "new")>>, <<Encrypted(Link("file", "readonly")), Link("file", "new")>>, <<>>, 2),
    On(<<PutFiles(<<"file", "missing", "file">>, "folder", {"tag"})>>, <<All("cancel", {}), List({"U"}, {"show"}, FALSE, 1)>>, <<>>, 1),
    On(<<PutFiles(<<"file", "dir">>, "missing", {"c", "q", "tag"})>>, <<All("pause", {"U"}), All("resume", {})>>, <<>>, 1),
    Syncing(On(<<PutFiles(<<"dir">>, "file", {}), PutFiles(<<"file">>, "missing", {})>>,
               <<One("cancel", <<1, 2>>), List({}, {"show"}, FALSE, 1), Get(<<>>, "file", "")>>, <<>>, 1), "U"),
    On(<<Quiet(Get(<<1, 2>>, "file", ""))>>, <<List({}, {"show", "only"}, FALSE, 1), List({}, {}, FALSE, 2)>>, <<>>, 1),
    Syncing(On(<<Quiet(Get(<<1>>, "file", "")), PutFiles(<<"file">>, "file", {})>>,
               <<One("pause", <<2>>), One("resume", <<2>>), List({}, {}, TRUE, 2)>>, <<>>, 0), "D")}
=============================================================================
