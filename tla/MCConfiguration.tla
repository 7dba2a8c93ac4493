-------------------------- MODULE MCConfiguration --------------------------
(* Configuration for TLC: the scripts of the clients.                       *)
EXTENDS Configuration, TLC

CONSTANTS t1, t2, a, b

Do(op, key, val, path) == [op |-> op, key |-> key, val |-> val, path |-> path]
Session(op) == Do(op, "none", 0, "none")
Set(op, key, val) == Do(op, key, val, "none")
Locate(op, protocol, path) == Do(op, protocol, 0, path)
Copy(op, val, path) == Do(op, "none", val, path)
Two(first, second) == [t \in {t1, t2} |-> IF t = t1 THEN first ELSE second]

MCScripts == {
    Two(<<Session("login"), Set("configure", "age", 2), Session("logout"), Session("login")>>,
        <<Set("configure", "target", 2)>>),
    Two(<<Set("configure", "nodes", 2), Set("configure", "age", 2)>>,
        <<Set("configure", "target", 9), Set("speedlimit", "both", 2)>>),
    Two(<<Session("login"), Set("graphics", "graphics", 2)>>,
        <<Set("permissions", "permissions", 2), Set("graphics", "graphics", 1)>>),
    Two(<<Set("proxy", "proxy", 1), Session("logout")>>,
        <<Set("proxy", "proxy", 2), Set("update", "autoupdate", 2)>>),
    Two(<<Locate("serve", "webdav", a), Locate("unserve", "webdav", a)>>,
        <<Locate("serve", "webdav", b), Locate("remove-all", "webdav", "none")>>),
    Two(<<Locate("serve", "ftp", a), Locate("serve", "ftp", b), Set("speedlimit", "conns", 2)>>,
        <<Locate("list", "ftp", "none"), Locate("unserve", "ftp", a)>>),
    Two(<<Session("login"), Copy("backup-delete", 0, a)>>,
        <<Copy("backup", 2, b), Copy("backup", 0, b)>>),
    Two(<<Copy("backup", 1, a)>>,
        <<Copy("backup", 2, b), Copy("backup-delete", 0, b)>>),
    Two(<<Session("login"), Session("logout-keep")>>, <<Session("login")>>)}

(* The legacy syncs are alike. *)
MCSymmetry == Permutations(Legacy)

=============================================================================
