---------------------------- MODULE MCRemoteTree ----------------------------
(* RemoteTree for TLC: a small account and the scripts of two clients.      *)
EXTENDS RemoteTree

CONSTANTS t1, t2

Folder(parent, name) == [NoNode EXCEPT !.kind = "folder", !.parent = parent, !.name = name]
File(parent, name, time) ==
    [NoNode EXCEPT !.kind = "file", !.parent = parent, !.name = name, !.time = time]

(* /d, /d/f with an older version, /g; and /e, a folder with another f.     *)
MCTree == [h \in Handles |->
    CASE h = 1 -> [NoNode EXCEPT !.kind = "root"]
      [] h = 2 -> [NoNode EXCEPT !.kind = "bin", !.name = "bin"]
      [] h = 3 -> Folder(1, "d")
      [] h = 4 -> File(3, "f", 2)
      [] h = 5 -> File(4, "f", 1)
      [] h = 6 -> File(1, "g", 3)
      [] h = 7 -> Folder(1, "e")
      [] h = 8 -> File(7, "f", 3)
      [] OTHER -> NoNode]

C(name) == [name |-> name, time |-> 0]
Abs(parts) == [base |-> "root", parts |-> parts]
Rel(parts) == [base |-> "cwd", parts |-> parts]
Version(name, time) == [name |-> name, time |-> time]

Do(op, args, to, flags) ==
    [op |-> op, args |-> args, to |-> to, flags |-> flags, with |-> ""]
On(op, args, flags) == Do(op, args, NoPath, flags)
Two(first, second) == [t \in {t1, t2} |-> IF t = t1 THEN first ELSE second]

D == Abs(<<C("d")>>)
F == Abs(<<C("d"), C("f")>>)
Old == Abs(<<C("d"), Version("f", 1)>>)
G == Abs(<<C("g")>>)
EF == Abs(<<C("e"), C("f")>>)
All(c) == Abs(<<C(c), C("*")>>)
New == Abs(<<C("d"), C("n"), C("m")>>)

Patterns1 == <<Rel(<<C("."), C("*")>>), Rel(<<C(".."), C("d"), C("*")>>), Rel(<<C("*"), C("")>>)>>
Patterns2 == <<Rel(<<C("*"), Version("f", 1)>>), Abs(<<C("*"), C("*")>>), Abs(<<C("d"), C(""), C("*")>>)>>
Patterns3 == <<Abs(<<C("d"), C(".."), C("*"), C(".")>>), Rel(<<C(".."), C("*"), C("f")>>), Rel(<<C("*")>>)>>

MCScripts == {
    Two(<<On("ls", Patterns1, {})>>, <<On("cd", <<D>>, {}), Do("mv", <<EF>>, F, {})>>),
    Two(<<On("ls", Patterns2, {})>>, <<Do("cp", <<EF>>, F, {}), On("rm", <<D>>, {"r", "f"})>>),
    Two(<<On("ls", Patterns3, {})>>, <<On("cd", <<D>>, {}), Do("mv", <<D, G>>, Abs(<<C("e")>>), {})>>),
    Two(<<On("rm", <<All("d"), D>>, {"r"})>>, <<Do("cp", <<G>>, F, {})>>),
    Two(<<On("rm", <<Abs(<<C("*")>>)>>, {"r"})>>, <<On("rm", <<Old>>, {})>>),
    Two(<<On("rm", <<D, F>>, {"r", "f"})>>, <<On("rm", <<D>>, {})>>),
    Two(<<Do("mv", <<G>>, F, {})>>, <<Do("mv", <<EF>>, F, {})>>),
    Two(<<Do("mv", <<EF, G>>, D, {})>>, <<Do("cp", <<F>>, Abs(<<C("e"), C("h")>>), {})>>),
    Two(<<Do("mv", <<D>>, Abs(<<C("e"), C("h")>>), {})>>, <<Do("cp", <<D>>, Abs(<<C("h")>>), {})>>),
    Two(<<Do("cp", <<EF>>, G, {}), Do("cp", <<All("e")>>, Abs(<<C("d")>>), {})>>, <<Do("mv", <<G>>, F, {})>>),
    Two(<<On("mkdir", <<New>>, {"p"})>>, <<On("mkdir", <<New>>, {"p"})>>),
    Two(<<On("mkdir", <<Rel(<<C("."), C("n"), C("")>>), Abs(<<C("n"), C("m")>>)>>, {})>>, <<On("cd", <<D>>, {})>>),
    Two(<<On("mkdir", <<Abs(<<C("d"), C(".."), C("d"), C("n")>>)>>, {"p"})>>, <<On("cd", <<D>>, {}), On("rm", <<D>>, {"r"})>>),
    Two(<<On("deleteversions", <<D>>, {})>>, <<On("deleteversions", <<F>>, {"f"}), Do("cp", <<G>>, F, {})>>),
    Two(<<On("deleteversions", <<D>>, {"f"})>>, <<Do("mv", <<Old>>, Abs(<<C("e"), C("h")>>), {})>>),
    Two(<<On("deleteversions", <<>>, {"all"})>>, <<Do("cp", <<EF>>, F, {})>>),
    Two(<<On("export", <<G, All("d")>>, {"a"})>>, <<On("export", <<F>>, {"a", "f"}), On("export", <<F>>, {"d"})>>),
    Two(<<[On("share", <<D>>, {"a"}) EXCEPT !.with = "u"], On("share", <<D>>, {"d"})>>,
        <<[On("share", <<Abs(<<C("*")>>)>>, {"a"}) EXCEPT !.with = "v"]>>)}

=============================================================================
