----------------------------- MODULE RemoteTree -----------------------------
(***************************************************************************)
(* The commands that work on the remote tree: how a path or a pattern is   *)
(* resolved into nodes (nodebypath, nodesbypath, nodesPathsbypath), and    *)
(* what rm, mv, cp, mkdir, deleteversions, export, share, cd and ls then   *)
(* do with them, one request to the SDK at a time (megacmdexecuter.cpp).   *)
(*                                                                         *)
(* A command resolves a path into copies of nodes; until its request is    *)
(* made, other threads and other devices change the tree, so what a        *)
(* command knows of a node may be out of date.  The tree itself is         *)
(* external: a request succeeds or is refused as the SDK is used here, and *)
(* may fail for reasons of its own.                                        *)
(*                                                                         *)
(* A path is a base and a sequence of components; a component is a name, a *)
(* name with the time of a version (name#time), the pattern "*", or one of *)
(* "", "." and "..".  Shares of other users, escapes, links and what is    *)
(* printed about a node are left out.                                      *)
(***************************************************************************)
EXTENDS Naturals, Sequences, FiniteSets, SequencesExt, Ordering

CONSTANTS
    Threads,
    Scripts,       \* functions from Threads to sequences of commands
    MaxNodes,      \* handles are numbered from 1 to MaxNodes
    InitialTree,
    MaxFaults      \* refused requests and changes made by other devices

ASSUME TreeBoundsAssumption == MaxNodes \in Nat /\ MaxFaults \in Nat

VARIABLES
    tree,      \* the nodes of the account, by handle
    cwd,       \* the working folder, one for all the clients
    accepted,  \* copyrightAccepted in the configuration
    todo,      \* the commands each thread still has to run
    my,        \* the locals of each thread
    stirred,   \* threads during whose command others moved things about
    promoted,  \* those during whose command others took a version out of its file
    failures

treeVars == <<tree, cwd, accepted, todo, my, stirred, promoted, failures>>

Handles == 1..MaxNodes
Null == 0
Root == 1
Bin == 2

NoNode == [kind |-> "none", parent |-> Null, name |-> "", time |-> 0,
           link |-> FALSE, users |-> {}]

(* The nodes of the initial tree are numbered downwards from the root, and  *)
(* what is below a file are its older versions.                            *)
ASSUME TreeAssumption ==
    /\ DOMAIN InitialTree = Handles
    /\ \A h \in Handles :
         LET n == InitialTree[h] IN
         /\ DOMAIN n = DOMAIN NoNode
         /\ n.kind \in {"none", "root", "bin", "folder", "file"}
         /\ n.parent = Null \/ (n.parent \in 1..(h - 1) /\ InitialTree[n.parent].kind # "none")
         /\ n.parent # Null /\ InitialTree[n.parent].kind = "file" => n.kind \in {"none", "file"}

NoCopy == [h |-> Null, kind |-> "none", parent |-> Null, name |-> "", time |-> 0,
           link |-> FALSE]
NoPath == [base |-> "none", parts |-> <<>>]
NoCommand == [op |-> "none", args |-> <<>>, to |-> NoPath, flags |-> {}, with |-> ""]

(* "agreed" records what the user has agreed to (Null: to everything),     *)
(* "unasked" that rm has taken the removal of a file for the answer "all", *)
(* and "placed" what the command has put at its target: they guard nothing.*)
NoLocals == [cmd |-> NoCommand, at |-> "idle", i |-> 1, nodes |-> <<>>,
             target |-> NoCopy, newname |-> "", force |-> FALSE, none |-> FALSE,
             base |-> Null, rest |-> <<>>, versions |-> <<>>, users |-> {}, paths |-> {},
             agreed |-> {}, unasked |-> FALSE, placed |-> {}]

TreeInit ==
    /\ tree = InitialTree
    /\ cwd = Root
    /\ accepted = FALSE
    /\ todo \in Scripts
    /\ my = [t \in Threads |-> NoLocals]
    /\ stirred = {}
    /\ promoted = {}
    /\ failures = 0

-----------------------------------------------------------------------------
(* What the SDK answers about the tree.  A handle is never used again.     *)

GoneNode == [NoNode EXCEPT !.kind = "gone"]
Exists(h) == h \in Handles /\ tree[h].kind \notin {"none", "gone"}
IsFile(h) == Exists(h) /\ tree[h].kind = "file"
Smallest(S) == IF S = {} THEN Null ELSE CHOOSE h \in S : \A k \in S : h <= k

getNodeByHandle(h) ==
    IF Exists(h)
      THEN [h |-> h, kind |-> tree[h].kind, parent |-> tree[h].parent,
            name |-> tree[h].name, time |-> tree[h].time, link |-> tree[h].link]
      ELSE NoCopy

Below(h) == {k \in Handles : Exists(k) /\ tree[k].parent = h}
getChildren(h) == IF Exists(h) /\ ~IsFile(h) THEN Below(h) ELSE {}
getParentNode(h) == IF Exists(h) THEN tree[h].parent ELSE Null
getChildNode(h, name) == Smallest({k \in getChildren(h) : tree[k].name = name})

(* The node h, and what a function from nodes to sets of nodes leads to.   *)
Reached(h, next) ==
    LET within[d \in 0..MaxNodes] ==
            IF d = 0 THEN {h}
            ELSE LET nearer == within[d - 1]
                 IN  nearer \cup UNION {next[k] : k \in nearer}
    IN  within[MaxNodes]

(* The nodes below h, with h; the versions of a file, with the file.       *)
Subtree(h) == IF Exists(h) THEN Reached(h, [k \in Handles |-> Below(k)]) ELSE {}
getVersions(h) == IF IsFile(h) THEN Subtree(h) ELSE {}
Current(h) == Exists(h) /\ ~IsFile(tree[h].parent)

Copies(S) == LET order == Ascending(S \cap Handles)
             IN  [i \in 1..Len(order) |-> getNodeByHandle(order[i])]

-----------------------------------------------------------------------------
(* Paths.                                                                  *)

getBaseNode(path) ==
    LET h == CASE path.base = "root" -> Root
               [] path.base = "bin"  -> Bin
               [] path.base = "cwd"  -> cwd
    IN  IF Exists(h) THEN h ELSE Null

(* The version of a child whose time follows the '#'.                      *)
VersionsOf(h, c) == {v \in getVersions(h) : tree[v].time = c.time}

Follow(h, c) ==
    CASE c.name = "."  -> h
      [] c.name = ".." -> getParentNode(h)
      [] c.time > 0    -> Smallest(VersionsOf(getChildNode(h, c.name), c))
      [] OTHER         -> getChildNode(h, c.name)

(* What follows the last component of a path that ends in '/' is ignored.  *)
MutTrimmed(parts) == parts
Trimmed(parts) ==
    IF Len(parts) > 1 /\ Last(parts).name = "" THEN Front(parts) ELSE parts

Walk(h, parts) == FoldLeft(Follow, h, Trimmed(parts))

nodebypath(path) == Walk(getBaseNode(path), path.parts)

(* The target of mv and cp: what the path names or, when only its last     *)
(* component is missing, the folder before it and the missing name.        *)
NamedTarget(path) ==
    LET base == getBaseNode(path)
        h == Walk(base, path.parts)
        before == Walk(base, Front(path.parts))
    IN  IF h # Null \/ path.parts = <<>> \/ Last(path.parts).name = "" \/ before = Null
          THEN [node |-> getNodeByHandle(h), newname |-> ""]
          ELSE [node |-> getNodeByHandle(before), newname |-> Last(path.parts).name]

isValidFolder(path) ==
    nodebypath(path) # Null /\ ~IsFile(nodebypath(path))

patternMatches(name, c) == c.name \in {"*", name}

(* The children that a component matches, or their versions.               *)
Matching(h, c) ==
    LET children == {k \in getChildren(h) : patternMatches(tree[k].name, c)}
    IN  IF c.time = 0 THEN children
        ELSE UNION {VersionsOf(k, c) : k \in children}

NextNodes(h, c) ==
    CASE c.name \in {"", "."} -> {h}
      [] c.name = ".." -> {getParentNode(h)} \ {Null}
      [] OTHER -> Matching(h, c)

getNodesMatching(h, parts) ==
    LET found[i \in 0..Len(parts)] ==
            IF i = 0 THEN {h} \ {Null}
            ELSE UNION {NextNodes(k, parts[i]) : k \in found[i - 1]}
    IN  IF parts = <<>> THEN {} ELSE found[Len(parts)]

nodesbypath(path) ==
    IF getBaseNode(path) # Null /\ path.parts = <<>> THEN {getBaseNode(path)}
    ELSE getNodesMatching(getBaseNode(path), path.parts)

(* The same walk, that collects the paths instead of the nodes.            *)
Component(name) == [name |-> name, time |-> 0]

NextSteps(h, c, last) ==
    CASE c.name \in {"", "."} -> {[node |-> h, as |-> IF last THEN c ELSE Component(".")]}
      [] c.name = ".." -> {[node |-> getParentNode(h), as |-> c]}
      [] OTHER -> {[node |-> k, as |-> [name |-> tree[k].name, time |-> c.time]] :
                     k \in Matching(h, c)}

getPathsMatching(h, parts) ==
    LET found[i \in 0..Len(parts)] ==
            IF i = 0 THEN {[node |-> h, path |-> <<>>]}
            ELSE UNION {{[node |-> step.node, path |-> Append(f.path, step.as)] :
                           step \in NextSteps(f.node, parts[i], i = Len(parts))} :
                        f \in {f \in found[i - 1] : f.node # Null}}
    IN  IF parts = <<>> THEN {} ELSE {f.path : f \in found[Len(parts)]}

nodesPathsbypath(path) ==
    LET base == getBaseNode(path)
        found == getPathsMatching(base, path.parts)
    IN  IF base # Null /\ path.parts = <<>> THEN {path}
        ELSE {[base |-> path.base, parts |-> parts] : parts \in found}

isRegExp(path) == \E j \in 1..Len(path.parts) : path.parts[j].name = "*"

(* The nodes of an argument, in the order in which the SDK lists them.     *)
Resolved(path) ==
    IF isRegExp(path) THEN Copies(nodesbypath(path))
    ELSE IF nodebypath(path) = Null THEN <<>> ELSE <<getNodeByHandle(nodebypath(path))>>

-----------------------------------------------------------------------------
(* What the requests do to the tree.                                       *)

IsFolder(h) == Exists(h) /\ ~IsFile(h)
Movable(h) == Exists(h) /\ h \notin {Root, Bin}

CanMove(h, to) == Movable(h) /\ IsFolder(to) /\ to \notin Subtree(h)
Moved(h, to) == [tree EXCEPT ![h].parent = to]

Renamed(h, name) == [tree EXCEPT ![h].name = name]

Removed(h) ==
    LET gone == Subtree(h) IN [k \in Handles |-> IF k \in gone THEN GoneNode ELSE tree[k]]

(* A version leaves its chain: the older one takes its place.              *)
VersionRemoved(h) ==
    [k \in Handles |-> IF k = h THEN GoneNode
                       ELSE IF Exists(k) /\ tree[k].parent = h
                              THEN [tree[k] EXCEPT !.parent = tree[h].parent]
                       ELSE tree[k]]

Unused == {h \in Handles : tree[h] = NoNode}
NewHandle == Smallest(Unused)

CanCreate(h, name) ==
    /\ IsFolder(h)
    /\ \A k \in getChildren(h) : IsFile(k) \/ tree[k].name # name
    /\ Unused # {}
Created(h, name) ==
    [tree EXCEPT ![NewHandle] = [NoNode EXCEPT !.kind = "folder", !.parent = h, !.name = name]]

(* A new file takes the place of the file of that name, which becomes its  *)
(* older version; a file of the same contents is kept as it is.            *)
Replaced(to, name) == Smallest({k \in getChildren(to) : IsFile(k) /\ tree[k].name = name})

(* The copy of a folder takes what is inside it (the files' last versions, *)
(* without links or shares), in handles that nobody uses.                  *)
Contents(h) == Reached(h, [k \in Handles |-> getChildren(k)])
Places(h) == Injection(Contents(h), Unused)
FreshFor(h) == CHOOSE fresh \in Places(h) : TRUE

IsSame(h, to, name) ==
    IsFile(h) /\ IsFile(Replaced(to, name)) /\ tree[Replaced(to, name)].time = tree[h].time

CanCopy(h, to) ==
    /\ Movable(h)
    /\ IsFolder(to)
    /\ to \notin Subtree(h)
    /\ Places(h) # {}

CopyHandle(h, to, name) ==
    IF IsSame(h, to, name) THEN Replaced(to, name) ELSE FreshFor(h)[h]

(* The tree with the copies of what fresh has a place for, and with the    *)
(* file old below the new one.                                             *)
WithCopies(h, to, name, fresh, old) ==
    LET copy(k) == [tree[k] EXCEPT !.parent = IF k = h THEN to ELSE fresh[@],
                                   !.name = IF k = h THEN name ELSE @,
                                   !.link = FALSE, !.users = {}]
    IN  [f \in Handles |->
           IF \E k \in DOMAIN fresh : fresh[k] = f
             THEN copy(CHOOSE k \in DOMAIN fresh : fresh[k] = f)
           ELSE IF f = old THEN [tree[f] EXCEPT !.parent = fresh[h]]
           ELSE tree[f]]

Copied(h, to, name) ==
    IF IsSame(h, to, name) THEN tree
    ELSE WithCopies(h, to, name, FreshFor(h), IF IsFile(h) THEN Replaced(to, name) ELSE Null)

-----------------------------------------------------------------------------
(* The steps of the commands.                                              *)

AtStep(t, label) == my[t].at = label
AtOp(t, label, op) == AtStep(t, label) /\ my[t].cmd.op = op
Has(t, flag) == flag \in my[t].cmd.flags
Path(t) == my[t].cmd.args[my[t].i]
Node(t) == Head(my[t].nodes)

(* The thread goes on to the next node of its argument.                    *)
NextNode(t) == [my[t] EXCEPT !.nodes = Tail(@), !.at = "node"]

Become(t, locals) == my' = [my EXCEPT ![t] = locals]

Think(t, locals) ==
    /\ Become(t, locals)
    /\ UNCHANGED <<tree, cwd, accepted, todo, stirred, promoted, failures>>

(* A version becomes a file of its own. *)
Promotes == \E h \in Handles : Exists(h) /\ ~Current(h) /\ Current(h)'

(* A request that is waited for: it is made, refused or fails.             *)
MakeRequest(t, possible, result, done, failed) ==
    /\ \/ possible /\ tree' = result /\ Become(t, done) /\ UNCHANGED failures
       \/ ~possible /\ Become(t, failed) /\ UNCHANGED <<tree, failures>>
       \/ /\ possible /\ failures < MaxFaults
          /\ failures' = failures + 1
          /\ Become(t, failed)
          /\ UNCHANGED tree
    /\ stirred' = IF \E h \in Handles : Exists(h) /\ \/ tree'[h].kind = "gone"
                                                     \/ tree'[h].parent # tree[h].parent
                                                     \/ tree'[h].name # tree[h].name
                    THEN stirred \cup (Threads \ {t}) ELSE stirred
    /\ promoted' = IF Promotes THEN promoted \cup (Threads \ {t}) ELSE promoted
    /\ UNCHANGED <<cwd, accepted, todo>>

Start(t) ==
    /\ AtStep(t, "idle") /\ todo[t] # <<>>
    /\ LET cmd == Head(todo[t])
           target == NamedTarget(cmd.to)
           begun == [NoLocals EXCEPT !.cmd = cmd, !.at = "arg", !.force = "f" \in cmd.flags]
           several == Len(cmd.args) > 1 /\ cmd.op \in {"mv", "cp"}
       IN  /\ Become(t, IF several /\ ~isValidFolder(cmd.to) THEN NoLocals
                        ELSE IF cmd.op = "cp"
                          THEN [begun EXCEPT !.target = target.node, !.newname = target.newname]
                        ELSE IF cmd.op = "deleteversions" /\ "all" \in cmd.flags
                          THEN [begun EXCEPT !.at = "dvAll"]
                        ELSE begun)
    /\ todo' = [todo EXCEPT ![t] = Tail(@)]
    /\ stirred' = stirred \ {t}
    /\ promoted' = promoted \ {t}
    /\ UNCHANGED <<tree, cwd, accepted, failures>>

(* An argument is resolved into copies of nodes.  Several nodes need a     *)
(* folder to go to; a pattern is resolved also after the user said "none". *)
WalksItself == {"mkdir", "cd", "ls"}

ResolveArgument(t) ==
    /\ AtStep(t, "arg") /\ my[t].i <= Len(my[t].cmd.args)
    /\ my[t].cmd.op \notin WalksItself
    /\ LET path == Path(t)
           nodes == Resolved(path)
           goesNowhere == /\ my[t].cmd.op \in {"mv", "cp"}
                          /\ Len(nodes) > 1 /\ ~isValidFolder(my[t].cmd.to)
           skipped == my[t].cmd.op = "rm" /\ my[t].none /\ ~isRegExp(path)
       IN  Think(t, IF skipped \/ nodes = <<>> \/ goesNowhere THEN [my[t] EXCEPT !.i = @ + 1]
                    ELSE [my[t] EXCEPT !.nodes = nodes, !.at = "node"])

ArgumentDone(t) ==
    /\ AtStep(t, "node") /\ my[t].nodes = <<>>
    /\ Think(t, [my[t] EXCEPT !.at = "arg", !.i = @ + 1])

FinishCommand(t) ==
    /\ AtStep(t, "arg") /\ my[t].i > Len(my[t].cmd.args)
    /\ Think(t, NoLocals)

-----------------------------------------------------------------------------
(* rm                                                                      *)

DeleteRefused(t) ==
    /\ AtOp(t, "node", "rm") /\ my[t].nodes # <<>>
    /\ Node(t).kind # "file" /\ ~Has(t, "r")
    /\ Think(t, NextNode(t))

DeleteAsks(t) ==
    /\ AtOp(t, "node", "rm") /\ my[t].nodes # <<>>
    /\ Node(t).kind # "file" /\ Has(t, "r") /\ ~my[t].force
    /\ Think(t, [my[t] EXCEPT !.at = "rmAsk"])

MutDeleteAnswered(t) ==
    /\ AtStep(t, "rmAsk")
    /\ \E answer \in {"yes", "no", "all", "none"} :
         LET agrees == [my[t] EXCEPT !.at = "doDelete", !.force = @ \/ answer = "all",
                          !.agreed = @ \cup {IF answer = "all" THEN Null ELSE Node(t).h}]
         IN  Think(t, IF answer \in {"yes", "all"} THEN agrees
                      ELSE [NextNode(t) EXCEPT !.force = TRUE])

DeleteAnswered(t) ==
    /\ AtStep(t, "rmAsk")
    /\ \E answer \in {"yes", "no", "all", "none"} :
         LET agrees == [my[t] EXCEPT !.at = "doDelete", !.force = @ \/ answer = "all",
                          !.agreed = @ \cup {IF answer = "all" THEN Null ELSE Node(t).h}]
         IN  Think(t, IF answer \in {"yes", "all"} THEN agrees
                      ELSE [NextNode(t) EXCEPT !.none = @ \/ answer = "none"])

(* A file is removed without a question; that counts as "all" from now on. *)
DeleteForced(t) ==
    /\ AtOp(t, "node", "rm") /\ my[t].nodes # <<>>
    /\ Node(t).kind = "file" \/ (Has(t, "r") /\ my[t].force)
    /\ Think(t, [my[t] EXCEPT !.at = "doDelete", !.force = TRUE,
                   !.unasked = IF my[t].force THEN @ ELSE TRUE])

doDeleteNode(t) ==
    /\ AtStep(t, "doDelete")
    /\ LET h == Node(t).h
           isVersion == IsFile(getParentNode(h))
       IN  MakeRequest(t, Movable(h), IF isVersion THEN VersionRemoved(h) ELSE Removed(h),
                   NextNode(t), NextNode(t))

-----------------------------------------------------------------------------
(* mv: the target is resolved for every node.  The node is moved; then, if *)
(* the target is a file, that one is removed; then the node gets its name. *)

MoveToDestination(t) ==
    /\ AtOp(t, "node", "mv") /\ my[t].nodes # <<>>
    /\ LET target == NamedTarget(my[t].cmd.to)
           nowhere == \/ target.node.h \in {Null, Node(t).h}
                      \/ target.newname # "" /\ target.node.kind = "file"
       IN  Think(t, IF nowhere THEN NextNode(t)
                    ELSE [my[t] EXCEPT !.at = "move", !.target = target.node,
                                       !.newname = target.newname])

MoveRequest(t) ==
    /\ AtStep(t, "move")
    /\ LET m == my[t]
           overFile == m.newname = "" /\ m.target.kind = "file"
           into == IF overFile THEN m.target.parent ELSE m.target.h
           arrived == [m EXCEPT !.placed = {Node(t).h}]
       IN  MakeRequest(t, CanMove(Node(t).h, into), Moved(Node(t).h, into),
                   CASE overFile -> [arrived EXCEPT !.at = "replace"]
                     [] m.newname # "" -> [arrived EXCEPT !.at = "rename"]
                     [] OTHER -> NextNode(t),
                   NextNode(t))

(* The target is removed; whether it worked or not, the node is renamed    *)
(* unless its copy already has the name.                                   *)
RemoveReplaced(t) ==
    /\ AtStep(t, "replace")
    /\ LET h == my[t].target.h
           renames == my[t].target.name # Node(t).name
           done == IF renames THEN [my[t] EXCEPT !.at = "rename", !.newname = my[t].target.name]
                   ELSE NextNode(t)
       IN  MakeRequest(t, Movable(h), Removed(h), done, done)

RenameRequest(t) ==
    /\ AtStep(t, "rename")
    /\ LET h == Node(t).h
       IN  MakeRequest(t, Movable(h), Renamed(h, my[t].newname), NextNode(t), NextNode(t))

-----------------------------------------------------------------------------
(* cp: the target was resolved once, when the command began.               *)

CopyNode(t) ==
    /\ AtOp(t, "node", "cp") /\ my[t].nodes # <<>>
    /\ LET m == my[t]
           n == Node(t)
           overFile == m.newname = "" /\ m.target.kind = "file"
           nowhere == \/ m.target.h \in {Null, n.h}
                      \/ overFile /\ n.kind # "file"
           name == CASE m.newname # "" /\ n.kind = "file" -> m.newname
                     [] overFile -> m.target.name
                     [] OTHER -> n.name
       IN  Think(t, IF nowhere THEN NextNode(t)
                    ELSE [m EXCEPT !.at = "copy", !.rest = <<Component(name)>>])

MutCopyRequest(t) ==
    /\ AtStep(t, "copy")
    /\ LET m == my[t]
           n == Node(t)
           name == m.rest[1].name
           overFile == m.newname = "" /\ m.target.kind = "file"
           into == IF overFile THEN m.target.parent ELSE m.target.h
           new == CopyHandle(n.h, into, name)
           arrived == [m EXCEPT !.base = new, !.placed = {new}]
       IN  MakeRequest(t, CanCopy(n.h, into), Copied(n.h, into, name),
                   CASE overFile -> [arrived EXCEPT !.at = "copyRemove"]
                     [] m.newname # "" /\ n.kind # "file" -> [arrived EXCEPT !.at = "copyRename"]
                     [] OTHER -> NextNode(t),
                   NextNode(t))

CopyRequest(t) ==
    /\ AtStep(t, "copy")
    /\ LET m == my[t]
           n == Node(t)
           name == m.rest[1].name
           overFile == m.newname = "" /\ m.target.kind = "file"
           into == IF overFile THEN m.target.parent ELSE m.target.h
           new == CopyHandle(n.h, into, name)
           arrived == [m EXCEPT !.base = new, !.placed = {new}]
       IN  MakeRequest(t, CanCopy(n.h, into), Copied(n.h, into, name),
                   CASE overFile /\ new # m.target.h -> [arrived EXCEPT !.at = "copyRemove"]
                     [] m.newname # "" /\ n.kind # "file" -> [arrived EXCEPT !.at = "copyRename"]
                     [] OTHER -> NextNode(t),
                   NextNode(t))

(* The copied file is in place: the one that it replaces is removed, with  *)
(* its older versions.                                                     *)
CopyRemove(t) ==
    /\ AtStep(t, "copyRemove")
    /\ LET h == my[t].target.h
       IN  MakeRequest(t, Movable(h), Removed(h), NextNode(t), NextNode(t))

CopyRename(t) ==
    /\ AtStep(t, "copyRename")
    /\ LET h == my[t].base
       IN  MakeRequest(t, Movable(h), Renamed(h, my[t].newname), NextNode(t), NextNode(t))

-----------------------------------------------------------------------------
(* mkdir: the folders that exist are walked, the others are made one by    *)
(* one, each looked up again after its request, whatever that answered.    *)

Navigated(h, parts) ==
    LET Onwards(w) ==
            LET c == Head(w.rest)
                child == getChildNode(w.base, c.name)
            IN  IF \/ w.base = Null \/ Len(w.rest) <= 1
                   \/ c.name \notin {".", ".."} /\ child = Null
                  THEN w
                  ELSE [base |-> CASE c.name = "." -> w.base
                                   [] c.name = ".." -> getParentNode(w.base)
                                   [] OTHER -> child,
                        rest |-> Tail(w.rest)]
        walk[i \in 0..Len(parts)] ==
            IF i = 0 THEN [base |-> h, rest |-> parts] ELSE Onwards(walk[i - 1])
    IN  walk[Len(parts)]

MkdirNavigate(t) ==
    /\ AtOp(t, "arg", "mkdir") /\ my[t].i <= Len(my[t].cmd.args)
    /\ LET found == Navigated(getBaseNode(Path(t)), Path(t).parts)
       IN  Think(t, IF found.base = Null THEN [my[t] EXCEPT !.i = Len(my[t].cmd.args) + 1]
                    ELSE [my[t] EXCEPT !.base = found.base, !.rest = found.rest, !.at = "mkLook"])

MkdirArgument(t) == [my[t] EXCEPT !.at = "arg", !.i = @ + 1]

(* An empty component makes nothing; an existing last one is an error.     *)
MkdirLook(t) ==
    /\ AtStep(t, "mkLook")
    /\ LET m == my[t]
           last == Len(m.rest) = 1
           name == Head(m.rest).name
           child == getChildNode(m.base, name)
       IN  Think(t, CASE name = "" /\ last -> [m EXCEPT !.at = "mkDone"]
                      [] name = "" /\ ~last -> [m EXCEPT !.rest = Tail(@)]
                      [] name # "" /\ child # Null /\ last -> MkdirArgument(t)
                      [] name # "" /\ child # Null /\ ~last ->
                           [m EXCEPT !.base = child, !.rest = Tail(@)]
                      [] name # "" /\ child = Null /\ ~last /\ ~Has(t, "p") -> MkdirArgument(t)
                      [] OTHER -> [m EXCEPT !.at = "mkCreate"])

MkdirCreate(t) ==
    /\ AtStep(t, "mkCreate")
    /\ LET name == Head(my[t].rest).name
           asked == [my[t] EXCEPT !.at = "mkAfter"]
       IN  MakeRequest(t, CanCreate(my[t].base, name), Created(my[t].base, name), asked, asked)

MkdirAfter(t) ==
    /\ AtStep(t, "mkAfter")
    /\ LET m == my[t]
           child == getChildNode(m.base, Head(m.rest).name)
       IN  Think(t, CASE child = Null -> MkdirArgument(t)
                      [] child # Null /\ Len(m.rest) = 1 -> [m EXCEPT !.at = "mkDone"]
                      [] OTHER -> [m EXCEPT !.base = child, !.rest = Tail(@), !.at = "mkLook"])

(* makedir answers MCMD_OK.                                                *)
MkdirDone(t) == AtStep(t, "mkDone") /\ Think(t, MkdirArgument(t))

-----------------------------------------------------------------------------
(* deleteversions: of a folder, those of all the files inside it.          *)

DeleteVersionsAll(t) ==
    /\ AtStep(t, "dvAll")
    /\ \E answer \in IF Has(t, "f") THEN {"yes"} ELSE {"yes", "no", "all", "none"} :
         CASE answer = "no" -> Think(t, NoLocals)
           [] answer = "yes" ->
                MakeRequest(t, TRUE,
                            [h \in Handles |-> IF IsFile(tree[h].parent) THEN GoneNode ELSE tree[h]],
                            NoLocals, NoLocals)
           [] OTHER -> Think(t, my[t])

(* A file without versions is passed over without a question.              *)
DeleteVersionsOf(t) ==
    /\ AtOp(t, "node", "deleteversions") /\ my[t].nodes # <<>>
    /\ LET n == Node(t)
           nothing == n.kind = "file" /\ Cardinality(getVersions(n.h)) < 2
       IN  Think(t, IF nothing THEN NextNode(t)
                    ELSE [my[t] EXCEPT !.at = IF my[t].force THEN "dvRead" ELSE "dvAsk",
                                       !.rest = <<n>>])

DeleteVersionsAnswered(t) ==
    /\ AtStep(t, "dvAsk")
    /\ \E answer \in {"yes", "no", "all", "none"} :
         Think(t, IF answer \in {"yes", "all"}
                    THEN [my[t] EXCEPT !.at = "dvRead", !.force = @ \/ answer = "all"]
                    ELSE NextNode(t))

(* The children of a folder are taken in its place, without questions; the *)
(* older versions of a file are read, and then removed one by one.         *)
MutDeleteVersionsRead(t) ==
    /\ AtStep(t, "dvRead") /\ my[t].rest # <<>>
    /\ LET n == Head(my[t].rest)
           others == Tail(my[t].rest)
       IN  Think(t, IF n.kind = "file"
                      THEN [my[t] EXCEPT !.at = "dvRemove", !.rest = others,
                                         !.versions = Copies(getVersions(n.h))]
                      ELSE [my[t] EXCEPT !.rest = Copies(getChildren(n.h)) \o others])

DeleteVersionsRead(t) ==
    /\ AtStep(t, "dvRead") /\ my[t].rest # <<>>
    /\ LET n == Head(my[t].rest)
           others == Tail(my[t].rest)
       IN  Think(t, IF n.kind = "file"
                      THEN [my[t] EXCEPT !.at = "dvRemove", !.rest = others,
                                         !.versions = Copies(getVersions(n.h) \ {n.h})]
                      ELSE [my[t] EXCEPT !.rest = Copies(getChildren(n.h)) \o others])

DeleteVersionsRemove(t) ==
    /\ AtStep(t, "dvRemove") /\ my[t].versions # <<>>
    /\ LET h == Head(my[t].versions).h
           next == [my[t] EXCEPT !.versions = Tail(@)]
       IN  MakeRequest(t, Movable(h), VersionRemoved(h), next, next)

DeleteVersionsNext(t) ==
    \/ AtStep(t, "dvRemove") /\ my[t].versions = <<>> /\ Think(t, [my[t] EXCEPT !.at = "dvRead"])
    \/ AtStep(t, "dvRead") /\ my[t].rest = <<>> /\ Think(t, NextNode(t))

-----------------------------------------------------------------------------
(* export: the terms are accepted with -f, once and for all, by having a   *)
(* link already, or by the user.                                           *)

HasPublicLinks == \E h \in Handles : tree[h].link

ExportNode(t) ==
    /\ AtOp(t, "node", "export") /\ my[t].nodes # <<>> /\ Has(t, "a")
    /\ Think(t, CASE Node(t).link -> NextNode(t)
                  [] ~Node(t).link /\ (my[t].force \/ accepted \/ HasPublicLinks) ->
                       [my[t] EXCEPT !.at = "exportAccept"]
                  [] OTHER -> [my[t] EXCEPT !.at = "exportAsk"])

ExportAnswered(t) ==
    /\ AtStep(t, "exportAsk")
    /\ \E yes \in BOOLEAN :
         Think(t, IF yes THEN [my[t] EXCEPT !.at = "exportAccept"] ELSE NextNode(t))

ExportAccept(t) ==
    /\ AtStep(t, "exportAccept")
    /\ accepted' = TRUE
    /\ Become(t, [my[t] EXCEPT !.at = "exportRequest"])
    /\ UNCHANGED <<tree, cwd, todo, stirred, promoted, failures>>

ExportRequest(t) ==
    /\ AtStep(t, "exportRequest")
    /\ LET h == Node(t).h
       IN  MakeRequest(t, Movable(h), [tree EXCEPT ![h].link = TRUE], NextNode(t), NextNode(t))

DisableExport(t) ==
    /\ AtOp(t, "node", "export") /\ my[t].nodes # <<>> /\ ~Has(t, "a")
    /\ LET h == Node(t).h
       IN  IF ~Node(t).link THEN Think(t, NextNode(t))
           ELSE MakeRequest(t, Movable(h), [tree EXCEPT ![h].link = FALSE], NextNode(t), NextNode(t))

(* share: the keys are prepared, then the share is set or, with -d, those  *)
(* with one user or with everybody are undone.                             *)
ShareNode(t) ==
    /\ AtOp(t, "node", "share") /\ my[t].nodes # <<>>
    /\ LET n == Node(t)
           refused == Has(t, "a") /\ n.kind = "file" /\ isRegExp(Path(t))
           with == IF my[t].cmd.with # "" THEN {my[t].cmd.with} ELSE tree[n.h].users
       IN  Think(t, IF refused THEN NextNode(t)
                    ELSE [my[t] EXCEPT !.at = "shareNext", !.users = with])

ShareNext(t) ==
    /\ AtStep(t, "shareNext")
    /\ IF my[t].users = {} THEN Think(t, NextNode(t))
       ELSE LET skips == [my[t] EXCEPT !.users = @ \ {CHOOSE u \in @ : TRUE}]
            IN  MakeRequest(t, Exists(Node(t).h), tree, [my[t] EXCEPT !.at = "shareRequest"], skips)

ShareRequest(t) ==
    /\ AtStep(t, "shareRequest")
    /\ LET h == Node(t).h
           u == CHOOSE u \in my[t].users : TRUE
           next == [my[t] EXCEPT !.at = "shareNext", !.users = @ \ {u}]
       IN  MakeRequest(t, IsFolder(h),
                   [tree EXCEPT ![h].users = IF Has(t, "a") THEN @ \cup {u} ELSE @ \ {u}],
                   next, next)

cd(t) ==
    /\ AtOp(t, "arg", "cd") /\ my[t].i = 1
    /\ LET h == nodebypath(Path(t))
       IN  cwd' = IF IsFolder(h) THEN h ELSE cwd
    /\ Become(t, [my[t] EXCEPT !.i = 2])
    /\ stirred' = Threads
    /\ UNCHANGED <<tree, accepted, todo, promoted, failures>>

(* ls of a pattern collects the paths, and then looks each of them up.     *)
LsPaths(t) ==
    /\ AtOp(t, "arg", "ls") /\ my[t].i <= Len(my[t].cmd.args)
    /\ Think(t, [my[t] EXCEPT !.at = "lsNext",
                   !.paths = IF isRegExp(Path(t)) THEN nodesPathsbypath(Path(t)) ELSE {Path(t)}])

LsNext(t) ==
    /\ AtStep(t, "lsNext")
    /\ IF my[t].paths = {} THEN Think(t, [my[t] EXCEPT !.at = "arg", !.i = @ + 1])
       ELSE \E p \in my[t].paths : Think(t, [my[t] EXCEPT !.paths = @ \ {p}])

-----------------------------------------------------------------------------
(* Another device of the account uploads a new version, or removes a node. *)
Uploaded(h) == [tree EXCEPT ![NewHandle] = [tree[h] EXCEPT !.time = 9], ![h].parent = NewHandle]

Elsewhere ==
    /\ failures < MaxFaults
    /\ failures' = failures + 1
    /\ \E h \in Handles :
         /\ Current(h) /\ IsFile(h)
         /\ tree' = Removed(h) \/ (Unused # {} /\ tree' = Uploaded(h))
    /\ stirred' = Threads
    /\ promoted' = IF Promotes THEN Threads ELSE promoted
    /\ UNCHANGED <<cwd, accepted, todo, my>>

Mkdir(t) == \/ MkdirNavigate(t) \/ MkdirLook(t) \/ MkdirCreate(t) \/ MkdirAfter(t)
            \/ MkdirDone(t)
Rm(t) == DeleteRefused(t) \/ DeleteAsks(t) \/ DeleteAnswered(t) \/ DeleteForced(t) \/ doDeleteNode(t)
Mv(t) == MoveToDestination(t) \/ MoveRequest(t) \/ RemoveReplaced(t) \/ RenameRequest(t)
Cp(t) == CopyNode(t) \/ CopyRequest(t) \/ CopyRemove(t) \/ CopyRename(t)
DeleteVersions(t) ==
    \/ DeleteVersionsAll(t) \/ DeleteVersionsOf(t) \/ DeleteVersionsAnswered(t)
    \/ DeleteVersionsRead(t) \/ DeleteVersionsRemove(t) \/ DeleteVersionsNext(t)
Export(t) == \/ ExportNode(t) \/ ExportAnswered(t) \/ ExportAccept(t) \/ ExportRequest(t)
             \/ DisableExport(t)
Share(t) == ShareNode(t) \/ ShareNext(t) \/ ShareRequest(t)

Done ==
    /\ \A t \in Threads : AtStep(t, "idle") /\ todo[t] = <<>>
    /\ UNCHANGED treeVars

TreeNext ==
    \/ \E t \in Threads :
         \/ Start(t) \/ ResolveArgument(t) \/ ArgumentDone(t) \/ FinishCommand(t)
         \/ Rm(t) \/ Mv(t) \/ Cp(t) \/ Mkdir(t) \/ DeleteVersions(t) \/ Export(t) \/ Share(t)
         \/ cd(t) \/ LsPaths(t) \/ LsNext(t)
    \/ Elsewhere
    \/ Done

TreeSpec == TreeInit /\ [][TreeNext]_treeVars

-----------------------------------------------------------------------------
(* mv and cp remove a file only to put another one in its place: when the  *)
(* old one goes, what replaces it has arrived in its folder, unless        *)
(* somebody else took it away meanwhile.                                   *)
Gone(h) == Exists(h) /\ tree'[h].kind = "gone"
Steps(t) == my'[t] # my[t]

ReplacedOnlyByArrival ==
    [][\A t \in Threads : Steps(t) /\ my[t].cmd.op \in {"mv", "cp"} =>
         \A h \in Handles : Gone(h) /\ Current(h) =>
           \E k \in my[t].placed :
             \/ t \in stirred
             \/ Exists(k) /\ ~Gone(k) /\ tree[k].parent = my[t].target.parent]_treeVars

(* rm removes what its arguments named and what is inside it; a folder     *)
(* only with -r, and after the user agreed to that folder or to everything *)
(* from here on, however the tree changes while the question is open.  The *)
(* one exception is unasked: once a file has been removed, for which there *)
(* is no question, the folders that follow in the command are not asked    *)
(* for either, for actUponDeleteNode returns "all" for the file            *)
(* (megacmdexecuter.cpp:3266-3269), against rm.md:8.                       *)
RemovesOnlyWhatWasAgreed ==
    [][\A t \in Threads : Steps(t) /\ my[t].cmd.op = "rm" =>
         \A h \in Handles : Gone(h) =>
           /\ h \in Subtree(Node(t).h)
           /\ \/ IsFile(Node(t).h)
              \/ /\ Has(t, "r")
                 /\ \/ Has(t, "f") \/ my[t].agreed \cap {Null, Node(t).h} # {}
                    \/ my[t].unasked]_treeVars

(* deleteversions never removes a last version, even if it was uploaded    *)
(* after the command resolved its arguments or read the versions, unless   *)
(* another command has meanwhile taken a version out of its file.          *)
LastVersionsSurvive ==
    [][\A t \in Threads : Steps(t) /\ my[t].cmd.op = "deleteversions" /\ t \notin promoted =>
         \A h \in Handles : Gone(h) => ~Current(h)]_treeVars

(* mkdir -p takes "." and ".." behind a missing folder for names, and makes *)
(* folders of those names: what no path can reach is not looked at below.  *)
Dotted == \E h \in Handles : Exists(h) /\ tree[h].name \in {".", ".."}

(* ls of a pattern lists what the pattern matches: every path that it      *)
(* finds leads to a node that nodesbypath finds, and to all of them if no  *)
(* folder holds two nodes of one name.                                     *)
Twins == \E h, k \in Handles : /\ h # k /\ Current(h) /\ Current(k)
                               /\ tree[h].parent = tree[k].parent
                               /\ tree[h].name = tree[k].name

LsListsMatches ==
    \A t \in Threads : AtOp(t, "arg", "ls") /\ my[t].i <= Len(my[t].cmd.args) /\ ~Dotted =>
      LET listed == {nodebypath(p) : p \in nodesPathsbypath(Path(t))}
          matched == nodesbypath(Path(t))
      IN  listed = matched \/ (Twins /\ listed \subseteq matched)

=============================================================================
