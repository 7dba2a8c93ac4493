---------------------------- MODULE Configuration ----------------------------
(***************************************************************************)
(* What the server saves and what it restores: the properties of           *)
(* megacmd.cfg, the legacy syncs, the backups and the legacy exclusion     *)
(* rules (configurationmanager.cpp), the commands that change a setting of *)
(* the SDK and save it (configure, speedlimit, graphics, permissions,      *)
(* proxy, webdav, ftp, backup: megacmdexecuter.cpp), the login that        *)
(* restores all of it and the logout that clears it.                       *)
(*                                                                         *)
(* Every thread runs the commands of its script.  The files are rewritten  *)
(* in place: a write truncates the file and then fills it, under           *)
(* settingsMutex, and the process may die in between.  A file that cannot  *)
(* be opened, read to its end or written is noticed by nobody: the command *)
(* goes on with what it has read, and leaves what it could write.  The     *)
(* settings in the SDK, the servers, the running backups and the cached    *)
(* syncs are external: a request succeeds or fails as the code handles it. *)
(*                                                                         *)
(* A value is a small number, 0 for a property that is not in the file     *)
(* (the ports are 0 too when -1 is saved: both are read as "no server").   *)
(* A line or a record that is cut short counts as missing.  Arguments that *)
(* the usage check rejects, listings, certificates and the fallback for    *)
(* texts that are not a number are left out.                               *)
(***************************************************************************)
EXTENDS Naturals, Sequences, FiniteSets

CONSTANTS
    Threads,    \* petition threads
    Startup,    \* the thread that runs the commands of the start of the server
    Free,       \* a mutex that nobody holds
    Scripts,    \* functions from Threads to sequences of commands
    Paths,      \* folders: locations to serve, backups
    Legacy,     \* syncs of the file of previous versions
    Invalid,    \* a value that the validators reject
    MaxFailures \* how often the process dies or a file cannot be read or written

ASSUME ThreadsAssumption == Startup \in Threads /\ Free \notin Threads
ASSUME InvalidAssumption == Invalid \in Nat \ {0}
ASSUME BoundAssumption == MaxFailures \in Nat

VARIABLES
    up,        \* the process runs
    todo,      \* the commands each thread still has to run
    pc,        \* where each thread is in its command
    my,        \* the locals of each thread
    disk,      \* the files
    locks,     \* the mutexes
    mem,       \* ConfigurationManager's oldConfiguredSyncs and configuredBackups
    api,       \* the SDK
    loggedIn,
    unsettled, \* history: the settings and the backups that two commands have
               \* changed at the same time, that a login could not restore, or that
               \* a file that could not be read or written does not say
    failures

vars == <<up, todo, pc, my, disk, locks, mem, api, loggedIn, unsettled, failures>>

Protocols == {"webdav", "ftp"}
ReclaimKeys == {"age", "target"}
SettingKeys == ReclaimKeys \cup {"nodes", "speedup", "speeddown", "conns",
                                 "graphics", "permissions"}
Port == [webdav |-> "webdav_port", ftp |-> "ftp_port"]
Served == [webdav |-> "webdav_served", ftp |-> "ftp_served"]
ListKeys == {Served[p] : p \in Protocols}
persistentmcmdconfigurationkeys == {"autoupdate"}
Keys == SettingKeys \cup persistentmcmdconfigurationkeys \cup ListKeys
        \cup {Port[p] : p \in Protocols}
        \cup {"proxy_url", "proxy_username", "firstBackupConfigured"}

NoValue == [k \in Keys |-> IF k \in ListKeys THEN {} ELSE 0]

(* The order in which actUponLogin restores the settings.                  *)
ApplyOrder == <<"speeddown", "speedup", "conns", "nodes", "age", "target",
                "graphics", "permissions">>

(* Settings that the login restores to a default when nothing is saved.    *)
Default == [k \in SettingKeys |->
              IF k \in ReclaimKeys \cup {"graphics"} THEN 1 ELSE 0]

NoCommand == [op |-> "none", key |-> "none", val |-> 0, path |-> "none"]

(* The commands: what each names, and what the usage check lets through.   *)
(* Only the number of backups may be left out.                             *)
Sessions == {"login", "logout", "logout-keep"}
Locating == {"serve", "unserve"}
Copying == {"backup", "backup-delete"}
Setting == [configure |-> ReclaimKeys \cup {"nodes"},
            speedlimit |-> {"both", "speedup", "speeddown", "conns"},
            graphics |-> {"graphics"},
            permissions |-> {"permissions"},
            proxy |-> {"proxy", "none"},
            update |-> {"autoupdate"}]

Commands ==
    [op : Sessions, key : {"none"}, val : {0}, path : {"none"}]
    \cup {c \in [op : DOMAIN Setting, val : Nat \ {0}, path : {"none"},
                 key : SettingKeys \cup {"both", "proxy", "autoupdate", "none"}] :
             c.key \in Setting[c.op]}
    \cup [op : Locating, key : Protocols, val : {0}, path : Paths]
    \cup [op : {"remove-all", "list"}, key : Protocols, val : {0}, path : {"none"}]
    \cup [op : Copying, key : {"none"}, val : Nat, path : Paths]

ASSUME ScriptsAssumption == \A script \in Scripts : script \in [Threads -> Seq(Commands)]

NoLocals == [cmd |-> NoCommand, pending |-> <<>>, buf |-> NoValue, ret |-> "idle",
             snap |-> [k \in ReclaimKeys |-> 0], list |-> {}, i |-> 0, val |-> 0,
             sent |-> {}, found |-> FALSE, wiped |-> FALSE,
             lost |-> FALSE]

NoBackup == [num |-> 0, tagged |-> FALSE]

(* The SDK of a new process: nothing is set and nothing runs yet.          *)
FreshApi == [settings |-> [k \in SettingKeys |-> 0],
             allowed |-> [p \in Protocols |-> {}],
             running |-> [p \in Protocols |-> FALSE],
             proxy |-> 0,
             backups |-> [f \in Paths |-> 0]]

InitProcess ==
    /\ pc = [t \in Threads |-> "idle"]
    /\ my = [t \in Threads |-> NoLocals]
    /\ locks = [m \in {"settings", "reclaim", "backups"} \cup Protocols |-> Free]
    /\ mem = [syncs |-> {}, backups |-> [f \in Paths |-> NoBackup], loads |-> 0]
    /\ api = FreshApi
    /\ loggedIn = FALSE
    /\ unsettled = {}

Emptied == [cfg |-> NoValue, syncs |-> {}, backups |-> [f \in Paths |-> 0]]

Init ==
    /\ up = TRUE
    /\ todo \in Scripts
    /\ InitProcess
    /\ disk = [cfg |-> [NoValue EXCEPT !["autoupdate"] = 1], syncs |-> Legacy,
               backups |-> [f \in Paths |-> 0], writing |-> "none",
               oldFormat |-> TRUE, cached |-> {}, excluded |-> TRUE, ignore |-> "none"]
    /\ failures = 0

-----------------------------------------------------------------------------
At(t, label) == up /\ pc[t] = label
AtOp(t, label, op) == At(t, label) /\ my[t].cmd.op = op
Goto(t, label) == pc' = [pc EXCEPT ![t] = label]
Key(t) == my[t].cmd.key
Val(t) == my[t].cmd.val
Path(t) == my[t].cmd.path

Acquire(t, m) == locks[m] = Free /\ locks' = [locks EXCEPT ![m] = t]
Release(m) == locks' = [locks EXCEPT ![m] = Free]

(* The command is over. *)
Finish(t) ==
    /\ Goto(t, "idle")
    /\ my' = [my EXCEPT ![t] = NoLocals]

(* The command goes on to save the given properties, one call of           *)
(* saveProperty each, and then continues at "ret".                         *)
ThenSave(t, pending, ret) ==
    /\ Goto(t, "save")
    /\ my' = [my EXCEPT ![t].pending = pending, ![t].ret = ret]

(* What a command changes, for the record of commands that overlap.        *)
Touches(cmd) ==
    IF cmd.op \in Sessions THEN SettingKeys \cup Paths
    ELSE IF cmd.op = "speedlimit" THEN {"speedup", "speeddown", cmd.key}
    ELSE {cmd.key, cmd.path}

(* A petition thread takes its next command. *)
Start(t) ==
    /\ At(t, "idle")
    /\ todo[t] # <<>>
    /\ todo' = [todo EXCEPT ![t] = Tail(@)]
    /\ my' = [my EXCEPT ![t].cmd = Head(todo[t])]
    /\ Goto(t, "start")
    /\ unsettled' = unsettled \cup
         (Touches(Head(todo[t])) \cap
            UNION {Touches(my[u].cmd) : u \in {u \in Threads : pc[u] # "idle"}})
    /\ UNCHANGED <<up, disk, locks, mem, api, loggedIn, failures>>

-----------------------------------------------------------------------------
(* Reading a file to its end, opening it and writing it may each fail, and  *)
(* nobody looks: some of the lines stay.                                    *)
Fail == failures < MaxFailures /\ failures' = failures + 1

FailsIf(bad) == failures' = IF bad THEN failures + 1 ELSE failures

Perhaps(whole, parts) == {whole} \cup IF failures < MaxFailures THEN parts ELSE {}

Parts(whole, none) ==
    {[k \in DOMAIN whole |-> IF k \in kept THEN whole[k] ELSE none[k]] :
       kept \in SUBSET {k \in DOMAIN whole : whole[k] # none[k]}}

Differing(one, other) == {k \in DOMAIN one : one[k] # other[k]}

(* What goes into each file: megacmd.cfg as prepared, and what the maps    *)
(* hold for saveSyncs and saveBackups.                                     *)
Contents(locals) ==
    [cfg |-> locals.buf,
     syncs |-> {e[1] : e \in mem.syncs},
     backups |-> [f \in Paths |-> mem.backups[f].num]]

(* The settings and backups of a file that then says something else.       *)
Unsaved(file, wanted, left) == IF file = "syncs" THEN {} ELSE Differing(wanted, left)

(* Writing a file: with settingsMutex held, opening it truncates it, and   *)
(* what was prepared is written and flushed by the close.                  *)
BeginWrite(t, file, locals) ==
    /\ Acquire(t, "settings")
    /\ disk' = [disk EXCEPT ![file] = Emptied[file], !.writing = file]
    /\ my' = [my EXCEPT ![t] = locals]
    /\ Goto(t, "writing")

(* The thread saves its next property or goes on. *)
After(locals) == IF locals.pending # <<>> THEN "save" ELSE locals.ret

(* The file cannot be opened: all of it stays, and the thread goes on.     *)
CannotOpen(t, file, locals) ==
    /\ Fail
    /\ locks.settings = Free
    /\ Goto(t, After(locals))
    /\ my' = [my EXCEPT ![t] = IF After(locals) = "idle" THEN NoLocals ELSE locals]
    /\ unsettled' = unsettled \cup Unsaved(file, Contents(locals)[file], disk[file])
    /\ UNCHANGED disk

Saving(t, file, locals) ==
    \/ BeginWrite(t, file, locals) /\ UNCHANGED <<unsettled, failures>>
    \/ CannotOpen(t, file, locals) /\ UNCHANGED locks

(* megacmd.cfg is rewritten from its lines: the edit of all of them is     *)
(* "whole", the edit of those that were read is among "parts".             *)
Rewrite(t, whole, parts, locals) ==
    \/ \E part \in Perhaps(whole, parts) :
         /\ BeginWrite(t, "cfg", [locals EXCEPT !.buf = part, !.lost = (part # whole)])
         /\ unsettled' = unsettled \cup Differing(whole, part)
         /\ FailsIf(part # whole)
    \/ CannotOpen(t, "cfg", [locals EXCEPT !.buf = whole, !.lost = FALSE]) /\ UNCHANGED locks

(* saveProperty reads the lines of the file, replaces or appends the one of *)
(* the property, and opens the file again to write them.                   *)
saveProperty(t) ==
    /\ At(t, "save")
    /\ LET With(lines) == [lines EXCEPT ![Head(my[t].pending)[1]] = Head(my[t].pending)[2]]
       IN  Rewrite(t, With(disk.cfg), {With(lines) : lines \in Parts(disk.cfg, NoValue)},
                   [my[t] EXCEPT !.pending = Tail(@)])
    /\ UNCHANGED <<up, todo, mem, api, loggedIn>>

RemovesAll(t) == my[t].cmd.op \in {"remove-all", "logout", "logout-keep"}

(* The file is filled and closed, or cannot be filled, and settingsMutex   *)
(* released.  A command that removes every location (a logout does), or    *)
(* loses lines of the file, has now overwritten the list that another one  *)
(* may have read.                                                          *)
EndWrite(t) ==
    /\ At(t, "writing")
    /\ LET file == disk.writing
           wanted == Contents(my[t])[file]
       IN  \E left \in Perhaps(wanted, IF file = "syncs" THEN SUBSET wanted
                                        ELSE Parts(wanted, Emptied[file])) :
             /\ disk' = [disk EXCEPT ![file] = left, !.writing = "none",
                                     !.oldFormat = @ /\ file # "syncs"]
             /\ my' = [u \in Threads |->
                         IF u = t /\ After(my[t]) = "idle" THEN NoLocals
                         ELSE [my[u] EXCEPT !.wiped = \/ @ \/ RemovesAll(t) \/ my[t].lost
                                                      \/ file = "cfg" /\ left # wanted]]
             /\ unsettled' = unsettled \cup Unsaved(file, wanted, left)
             /\ FailsIf(left # wanted)
    /\ Release("settings")
    /\ Goto(t, After(my[t]))
    /\ UNCHANGED <<up, todo, mem, api, loggedIn>>

(* The options for reclaiming the cache are one object of the SDK: a       *)
(* setter fetches it, changes its field and pushes it back, under          *)
(* reclaimMutex.  The SDK may throw: the setter fails.                     *)
FetchReclaim(t, key, value, next) ==
    /\ Acquire(t, "reclaim")
    /\ my' = [my EXCEPT ![t].snap = [k \in ReclaimKeys |->
                                       IF k = key THEN value ELSE api.settings[k]]]
    /\ Goto(t, next)

PushReclaim(t) ==
    /\ Release("reclaim")
    /\ api' = [api EXCEPT !.settings =
                 [k \in SettingKeys |-> IF k \in ReclaimKeys THEN my[t].snap[k] ELSE @[k]]]

Push(key, value) == api' = [api EXCEPT !.settings[key] = value]

(* configure: an invalid value is rejected; the others go to the SDK and   *)
(* then to the file.                                                       *)
Configure(t) ==
    /\ AtOp(t, "start", "configure")
    /\ \/ /\ Val(t) = Invalid
          /\ Finish(t)
          /\ UNCHANGED <<locks, api>>
       \/ /\ Val(t) # Invalid /\ Key(t) \in ReclaimKeys
          /\ FetchReclaim(t, Key(t), Val(t), "push")
          /\ UNCHANGED api
       \/ /\ Val(t) # Invalid /\ Key(t) \notin ReclaimKeys
          /\ Push(Key(t), Val(t))
          /\ ThenSave(t, <<<<Key(t), Val(t)>>>>, "idle")
          /\ UNCHANGED locks
    /\ UNCHANGED <<up, todo, disk, mem, loggedIn, unsettled, failures>>

ConfigurePush(t) ==
    /\ AtOp(t, "push", "configure")
    /\ \/ /\ PushReclaim(t)
          /\ ThenSave(t, <<<<Key(t), Val(t)>>>>, "idle")
       \/ /\ Release("reclaim")
          /\ Finish(t)
          /\ UNCHANGED api
    /\ UNCHANGED <<up, todo, disk, mem, loggedIn, unsettled, failures>>

(* speedlimit of both directions, of one, or of the connections, which the *)
(* SDK answers later and may refuse.                                       *)
Speedlimit(t) ==
    /\ AtOp(t, "start", "speedlimit")
    /\ \/ /\ Key(t) = "both"
          /\ Push("speeddown", Val(t))
          /\ Goto(t, "speedup")
          /\ UNCHANGED my
       \/ /\ Key(t) # "both"
          /\ Push(Key(t), Val(t))
          /\ ThenSave(t, <<<<Key(t), Val(t)>>>>, "idle")
       \/ /\ Key(t) = "conns"
          /\ UNCHANGED api
          /\ Finish(t)
    /\ UNCHANGED <<up, todo, disk, locks, mem, loggedIn, unsettled, failures>>

SpeedlimitUp(t) ==
    /\ At(t, "speedup")
    /\ Push("speedup", Val(t))
    /\ ThenSave(t, <<<<"speedup", Val(t)>>, <<"speeddown", Val(t)>>>>, "idle")
    /\ UNCHANGED <<up, todo, disk, locks, mem, loggedIn, unsettled, failures>>

(* graphics saves what the SDK says after the change. *)
Graphics(t) ==
    /\ AtOp(t, "start", "graphics")
    /\ Push("graphics", Val(t))
    /\ Goto(t, "graphics")
    /\ UNCHANGED <<up, todo, my, disk, locks, mem, loggedIn, unsettled, failures>>

GraphicsSave(t) ==
    /\ At(t, "graphics")
    /\ ThenSave(t, <<<<"graphics", api.settings["graphics"]>>>>, "idle")
    /\ UNCHANGED <<up, todo, disk, locks, mem, api, loggedIn, unsettled, failures>>

Permissions(t) ==
    /\ AtOp(t, "start", "permissions")
    /\ Push("permissions", Val(t))
    /\ ThenSave(t, <<<<"permissions", Val(t)>>>>, "idle")
    /\ UNCHANGED <<up, todo, disk, locks, mem, loggedIn, unsettled, failures>>

(* setProxy waits for the SDK and, if it agrees, saves the properties one  *)
(* by one (the type with the URL, the password with the user name).        *)
setProxy(t) ==
    /\ AtOp(t, "start", "proxy")
    /\ \/ /\ api' = [api EXCEPT !.proxy = Val(t)]
          /\ ThenSave(t, <<<<"proxy_url", Val(t)>>, <<"proxy_username", Val(t)>>>>, "idle")
       \/ UNCHANGED api /\ Finish(t)
    /\ UNCHANGED <<up, todo, disk, locks, mem, loggedIn, unsettled, failures>>

(* update --auto, and the first listener after an update: one property.    *)
UpdateAuto(t) ==
    /\ AtOp(t, "start", "update")
    /\ ThenSave(t, <<<<"autoupdate", Val(t)>>>>, "idle")
    /\ UNCHANGED <<up, todo, disk, locks, mem, api, loggedIn, unsettled, failures>>

-----------------------------------------------------------------------------
(* webdav and ftp: the key of the command is the protocol.                 *)

(* Serving a location starts the server first, unless it runs. *)
StartServer(t, port) ==
    /\ AtOp(t, "start", "serve")
    /\ \/ /\ api.running[Key(t)]
          /\ Goto(t, "link")
          /\ UNCHANGED <<my, api>>
       \/ /\ ~api.running[Key(t)]
          /\ api' = [api EXCEPT !.running[Key(t)] = TRUE]
          /\ ThenSave(t, <<<<port, 1>>>>, "link")
       \/ /\ ~api.running[Key(t)]
          /\ Finish(t)
          /\ UNCHANGED api
    /\ UNCHANGED <<up, todo, disk, locks, mem, loggedIn, unsettled, failures>>

(* Asking for the link of a node makes the SDK serve it. *)
Link(t) ==
    /\ At(t, "link")
    /\ api' = [api EXCEPT !.allowed[Key(t)] = @ \cup {Path(t)}]
    /\ Goto(t, "list")
    /\ UNCHANGED <<up, todo, my, disk, locks, mem, loggedIn, unsettled, failures>>

(* addWebdavLocation without mtxWebDavLocations. *)
MutAddLocation(t, served) ==
    /\ AtOp(t, "list", "serve")
    /\ locks.settings = Free
    /\ \E list \in Perhaps(disk.cfg[served], SUBSET disk.cfg[served]) :
         /\ my' = [my EXCEPT ![t].pending = <<<<served, list \cup {Path(t)}>>>>,
                             ![t].list = list, ![t].wiped = (list # disk.cfg[served]),
                             ![t].ret = "unlock"]
         /\ FailsIf(list # disk.cfg[served])
    /\ Goto(t, "save")
    /\ UNCHANGED <<up, todo, disk, locks, mem, api, loggedIn, unsettled>>

(* The saved list is read, extended and saved under the mutex of the       *)
(* locations of the protocol.  (wiped: it is not, or no longer, what the   *)
(* file says.)                                                             *)
AddLocation(t, served) ==
    /\ AtOp(t, "list", "serve")
    /\ Acquire(t, Key(t))
    /\ locks.settings = Free
    /\ \E list \in Perhaps(disk.cfg[served], SUBSET disk.cfg[served]) :
         /\ my' = [my EXCEPT ![t].pending = <<<<served, list \cup {Path(t)}>>>>,
                             ![t].list = list, ![t].wiped = (list # disk.cfg[served]),
                             ![t].ret = "unlock"]
         /\ FailsIf(list # disk.cfg[served])
    /\ Goto(t, "save")
    /\ UNCHANGED <<up, todo, disk, mem, api, loggedIn, unsettled>>

UnlockLocations(t) ==
    /\ At(t, "unlock")
    /\ Release(Key(t))
    /\ Finish(t)
    /\ UNCHANGED <<up, todo, disk, mem, api, loggedIn, unsettled, failures>>

(* Removing a location: the SDK forgets it at once; when the list becomes  *)
(* empty the server stops and its port is saved as -1.                     *)
Unserve(t) ==
    /\ AtOp(t, "start", "unserve")
    /\ api' = [api EXCEPT !.allowed[Key(t)] = @ \ {Path(t)}]
    /\ Goto(t, "list")
    /\ UNCHANGED <<up, todo, my, disk, locks, mem, loggedIn, unsettled, failures>>

RemoveLocation(t, served, port) ==
    /\ AtOp(t, "list", "unserve")
    /\ Acquire(t, Key(t))
    /\ locks.settings = Free
    /\ \E list \in Perhaps(disk.cfg[served], SUBSET disk.cfg[served]) :
         LET left == list \ {Path(t)}
             saveList == <<served, left>>
         IN  /\ my' = [my EXCEPT ![t].pending = IF left = {} THEN <<<<port, 0>>, saveList>>
                                                             ELSE <<saveList>>,
                                 ![t].list = list, ![t].wiped = (list # disk.cfg[served]),
                                 ![t].ret = "unlock"]
             /\ api' = [api EXCEPT !.running[Key(t)] = @ /\ left # {}]
             /\ FailsIf(list # disk.cfg[served])
    /\ Goto(t, "save")
    /\ UNCHANGED <<up, todo, disk, mem, loggedIn, unsettled>>

(* -d --all takes no mutex of the locations. *)
RemoveAll(t) ==
    /\ AtOp(t, "start", "remove-all")
    /\ api' = [api EXCEPT !.allowed[Key(t)] = {}, !.running[Key(t)] = FALSE]
    /\ ThenSave(t, <<<<Served[Key(t)], {}>>, <<Port[Key(t)], 0>>>>, "idle")
    /\ UNCHANGED <<up, todo, disk, locks, mem, loggedIn, unsettled, failures>>

(* Listing the locations asks for the link of every node that the SDK      *)
(* serves, which serves it again if it was removed in the meantime.        *)
ListLocations(t) ==
    /\ AtOp(t, "start", "list")
    /\ my' = [my EXCEPT ![t].list = api.allowed[Key(t)]]
    /\ Goto(t, "links")
    /\ UNCHANGED <<up, todo, disk, locks, mem, api, loggedIn, unsettled, failures>>

ListLinks(t) ==
    /\ At(t, "links")
    /\ api' = [api EXCEPT !.allowed[Key(t)] = @ \cup my[t].list]
    /\ Finish(t)
    /\ UNCHANGED <<up, todo, disk, locks, mem, loggedIn, unsettled, failures>>

StartWebdav(t) == Key(t) = "webdav" /\ StartServer(t, "webdav_port")
StartFtp(t) == Key(t) = "ftp" /\ StartServer(t, "ftp_port")
addWebdavLocation(t) == Key(t) = "webdav" /\ AddLocation(t, "webdav_served")
addFtpLocation(t) == Key(t) = "ftp" /\ AddLocation(t, "ftp_served")
removeWebdavLocation(t) ==
    Key(t) = "webdav" /\ RemoveLocation(t, "webdav_served", "webdav_port")
removeFtpLocation(t) ==
    Key(t) = "ftp" /\ RemoveLocation(t, "ftp_served", "ftp_port")

-----------------------------------------------------------------------------
(* backup: the number of backups is the one given or the running one's.    *)
createOrModifyBackup(t) ==
    /\ AtOp(t, "start", "backup")
    /\ LET num == IF Val(t) = 0 THEN api.backups[Path(t)] ELSE Val(t)
       IN  \/ /\ num = 0
              /\ Finish(t)
              /\ UNCHANGED api
           \/ /\ num # 0
              /\ api' = [api EXCEPT !.backups[Path(t)] = num]
              /\ my' = [my EXCEPT ![t].val = num]
              /\ Goto(t, "register")
           \/ /\ num # 0
              /\ my' = [my EXCEPT ![t].val = num]
              /\ Goto(t, "refused")
              /\ UNCHANGED api
    /\ UNCHANGED <<up, todo, disk, locks, mem, loggedIn, unsettled, failures>>

(* establishBackup registers what the SDK has accepted.  A first backup is *)
(* noted in megacmd.cfg, after mtxBackupsMap is released.                  *)
Registered(num) == [num |-> num, tagged |-> TRUE]

RegisterBackup(t) ==
    /\ At(t, "register")
    /\ locks.backups = Free
    /\ mem' = [mem EXCEPT !.backups[Path(t)] = Registered(my[t].val)]
    /\ IF mem.backups[Path(t)] = NoBackup
       THEN ThenSave(t, <<<<"firstBackupConfigured", 1>>>>, "saveBackups")
       ELSE Goto(t, "saveBackups") /\ UNCHANGED my
    /\ UNCHANGED <<up, todo, disk, locks, api, loggedIn, unsettled, failures>>

(* ... and marks what it refused, without mtxBackupsMap: an entry with the *)
(* tag of the request takes the values of the request.  Nothing is saved.  *)
RefusedBackup(t) ==
    /\ At(t, "refused")
    /\ mem' = IF mem.backups[Path(t)].tagged
              THEN [mem EXCEPT !.backups[Path(t)].num = my[t].val] ELSE mem
    /\ Finish(t)
    /\ UNCHANGED <<up, todo, disk, locks, api, loggedIn, unsettled, failures>>

(* saveBackups under mtxBackupsMap, which EndWrite leaves to UnlockBackups.*)
SaveBackups(t) ==
    /\ At(t, "saveBackups")
    /\ locks.backups \in {Free, t}
    /\ LET after == [my[t] EXCEPT !.ret = "unlockBackups"]
       IN  \/ /\ locks.settings = Free
              /\ locks' = [locks EXCEPT !.backups = t, !.settings = t]
              /\ disk' = [disk EXCEPT !.backups = Emptied.backups, !.writing = "backups"]
              /\ my' = [my EXCEPT ![t] = after]
              /\ Goto(t, "writing")
              /\ UNCHANGED <<unsettled, failures>>
           \/ CannotOpen(t, "backups", after) /\ locks' = [locks EXCEPT !.backups = t]
    /\ UNCHANGED <<up, todo, mem, api, loggedIn>>

UnlockBackups(t) ==
    /\ At(t, "unlockBackups")
    /\ Release("backups")
    /\ IF my[t].cmd.op = "login" THEN Goto(t, "webdav") /\ UNCHANGED my ELSE Finish(t)
    /\ UNCHANGED <<up, todo, disk, mem, api, loggedIn, unsettled, failures>>

(* backup -d: the entry of a running backup is looked for by its tag, the  *)
(* entry of one that does not run by its path; neither under the mutex.    *)
FindBackup(t) ==
    /\ AtOp(t, "start", "backup-delete")
    /\ my' = [my EXCEPT ![t].found = mem.backups[Path(t)].tagged]
    /\ \/ api.backups[Path(t)] # 0 /\ Goto(t, "remove")
       \/ /\ api.backups[Path(t)] = 0
          /\ mem.backups[Path(t)].num # 0 /\ ~mem.backups[Path(t)].tagged
          /\ Goto(t, "eraseStopped")
    /\ UNCHANGED <<up, todo, disk, locks, mem, api, loggedIn, unsettled, failures>>

BackupNotFound(t) ==
    /\ AtOp(t, "start", "backup-delete")
    /\ api.backups[Path(t)] = 0
    /\ mem.backups[Path(t)].num = 0 \/ mem.backups[Path(t)].tagged
    /\ Finish(t)
    /\ UNCHANGED <<up, todo, disk, locks, mem, api, loggedIn, unsettled, failures>>

RemoveScheduledCopy(t) ==
    /\ At(t, "remove")
    /\ \/ /\ api.backups[Path(t)] # 0
          /\ api' = [api EXCEPT !.backups[Path(t)] = 0]
          /\ Goto(t, "erase")
          /\ UNCHANGED my
       \/ UNCHANGED api /\ Finish(t)
    /\ UNCHANGED <<up, todo, disk, locks, mem, loggedIn, unsettled, failures>>

(* A removal that does not save the backups that are left. *)
MutEraseBackup(t) ==
    /\ At(t, "erase")
    /\ mem' = IF my[t].found THEN [mem EXCEPT !.backups[Path(t)] = NoBackup] ELSE mem
    /\ Finish(t)
    /\ UNCHANGED <<up, todo, disk, locks, api, loggedIn, unsettled, failures>>

(* The iterator of the search is erased after the wait for the SDK. *)
EraseBackup(t) ==
    /\ At(t, "erase")
    /\ mem' = IF my[t].found THEN [mem EXCEPT !.backups[Path(t)] = NoBackup] ELSE mem
    /\ Goto(t, "saveBackups")
    /\ UNCHANGED <<up, todo, my, disk, locks, api, loggedIn, unsettled, failures>>

(* Erasing an entry that another removal has erased is undefined; what can *)
(* be observed of it is this, or the end of the process.                   *)
EraseStoppedBackup(t) ==
    /\ At(t, "eraseStopped")
    /\ locks.backups = Free
    /\ mem' = [mem EXCEPT !.backups[Path(t)] = NoBackup]
    /\ Goto(t, "saveBackups")
    /\ locks' = [locks EXCEPT !.backups = t]
    /\ UNCHANGED <<up, todo, my, disk, api, loggedIn, unsettled, failures>>

-----------------------------------------------------------------------------
(* login, once MEGA has accepted it: the files are loaded first.  A file   *)
(* of syncs in the format of an older version is rewritten at once.        *)
loadsyncs(t) ==
    /\ AtOp(t, "start", "login")
    /\ locks.settings = Free
    /\ \E read \in Perhaps(disk.syncs, SUBSET disk.syncs) :
         /\ mem' = [mem EXCEPT
                      !.syncs = {e \in @ : e[1] \notin read}
                                \cup {<<s, mem.loads + 1>> : s \in read},
                      !.loads = @ + 1]
         /\ \/ /\ disk.oldFormat /\ read # {}
               /\ BeginWrite(t, "syncs", [my[t] EXCEPT !.ret = "loadBackups"])
               /\ FailsIf(read # disk.syncs)
            \/ /\ disk.oldFormat /\ read = disk.syncs /\ read # {}
               /\ CannotOpen(t, "syncs", [my[t] EXCEPT !.ret = "loadBackups"])
               /\ UNCHANGED locks
            \/ /\ ~disk.oldFormat \/ read = {}
               /\ Goto(t, "loadBackups")
               /\ FailsIf(read # disk.syncs)
               /\ UNCHANGED <<disk, locks, my>>
    /\ UNCHANGED <<up, todo, api, loggedIn, unsettled>>

loadbackups(t) ==
    /\ At(t, "loadBackups")
    /\ locks.backups = Free /\ locks.settings = Free
    /\ \E read \in Perhaps(disk.backups, Parts(disk.backups, Emptied.backups)) :
         /\ mem' = [mem EXCEPT !.backups =
                      [f \in Paths |-> IF read[f] = 0 THEN @[f]
                                       ELSE [num |-> read[f], tagged |-> FALSE]]]
         /\ unsettled' = unsettled \cup Differing(disk.backups, read)
         /\ FailsIf(read # disk.backups)
    /\ Goto(t, "transition")
    /\ UNCHANGED <<up, todo, my, disk, locks, api, loggedIn>>

(* The legacy exclusion rules are ported unless the default .megaignore    *)
(* exists: it is created empty, or cannot be (nor the old file opened), is *)
(* filled, and the old file is hidden, whether or not it could be filled.  *)
transitionLegacyExclusionRules(t) ==
    /\ At(t, "transition")
    /\ \/ /\ disk.ignore # "none" \/ ~disk.excluded
          /\ Goto(t, "apply")
          /\ UNCHANGED <<disk, failures>>
       \/ /\ disk.ignore = "none" /\ disk.excluded
          /\ disk' = [disk EXCEPT !.ignore = "empty"]
          /\ Goto(t, "addFilters")
          /\ UNCHANGED failures
       \/ /\ disk.ignore = "none" /\ disk.excluded
          /\ Fail
          /\ Goto(t, "apply")
          /\ UNCHANGED disk
    /\ UNCHANGED <<up, todo, my, locks, mem, api, loggedIn, unsettled>>

AddFilters(t) ==
    /\ At(t, "addFilters")
    /\ \/ disk' = [disk EXCEPT !.ignore = "rules"] /\ UNCHANGED failures
       \/ Fail /\ UNCHANGED disk
    /\ Goto(t, "hide")
    /\ UNCHANGED <<up, todo, my, locks, mem, api, loggedIn, unsettled>>

HideLegacyFile(t) ==
    /\ At(t, "hide")
    /\ \/ disk' = [disk EXCEPT !.excluded = FALSE] /\ UNCHANGED failures
       \/ Fail /\ UNCHANGED disk
    /\ Goto(t, "apply")
    /\ UNCHANGED <<up, todo, my, locks, mem, api, loggedIn, unsettled>>

(* The saved settings go to the SDK one by one, or the default of those    *)
(* that have one; a setting that has neither is left as the SDK has it.    *)
MutRestored(key) == disk.cfg[key] \* getters without a default

Restored(key) == IF disk.cfg[key] # 0 THEN disk.cfg[key] ELSE Default[key]

ApplyRead(t) ==
    /\ At(t, "apply")
    /\ locks.settings = Free
    /\ \/ /\ my[t].i = Len(ApplyOrder)
          /\ Goto(t, "migrate")
          /\ UNCHANGED <<my, unsettled, failures>>
       \/ /\ my[t].i # Len(ApplyOrder)
          /\ LET key == ApplyOrder[my[t].i + 1]
             IN  \E value \in Perhaps(Restored(key), {Default[key]}) :
                   /\ my' = [my EXCEPT ![t].i = @ + 1, ![t].val = value]
                   /\ Goto(t, IF value = 0 THEN "apply" ELSE "set")
                   /\ unsettled' = IF value = Restored(key) THEN unsettled
                                   ELSE unsettled \cup {key}
                   /\ FailsIf(value # Restored(key))
    /\ UNCHANGED <<up, todo, disk, locks, mem, api, loggedIn>>

(* The SDK may refuse the number of connections, or throw, which is only   *)
(* logged.                                                                 *)
ApplySet(t) ==
    /\ At(t, "set")
    /\ LET key == ApplyOrder[my[t].i]
       IN  \/ /\ key \notin ReclaimKeys
              /\ Push(key, my[t].val)
              /\ Goto(t, "apply")
              /\ UNCHANGED <<my, locks, unsettled>>
           \/ /\ key = "conns"
              /\ Goto(t, "apply")
              /\ unsettled' = unsettled \cup {key}
              /\ UNCHANGED <<my, locks, api>>
           \/ /\ key \in ReclaimKeys
              /\ FetchReclaim(t, key, my[t].val, "push")
              /\ UNCHANGED <<api, unsettled>>
    /\ UNCHANGED <<up, todo, disk, mem, loggedIn, failures>>

ApplyPush(t) ==
    /\ AtOp(t, "push", "login")
    /\ \/ PushReclaim(t) /\ UNCHANGED unsettled
       \/ /\ Release("reclaim")
          /\ unsettled' = unsettled \cup {ApplyOrder[my[t].i]}
          /\ UNCHANGED api
    /\ Goto(t, "apply")
    /\ UNCHANGED <<up, todo, my, disk, mem, loggedIn, failures>>

(* Every legacy sync is handed to the cache of the SDK; the thread then    *)
(* waits for the answers, in any order.                                    *)
migrateSyncConfig(t) ==
    /\ At(t, "migrate")
    /\ locks.settings = Free
    /\ my' = [my EXCEPT ![t].sent = mem.syncs]
    /\ Goto(t, "migrating")
    /\ UNCHANGED <<up, todo, disk, locks, mem, api, loggedIn, unsettled, failures>>

(* removeSyncConfig: a structure that is still in the map is erased, and   *)
(* the file is rewritten with the others.                                  *)
removeSyncConfig(t, entry) ==
    LET copied == [disk EXCEPT !.cached = @ \cup {entry[1]}]
        others == [my[t] EXCEPT !.sent = @ \ {entry}, !.ret = "migrating"]
    IN  /\ my' = [my EXCEPT ![t] = others]
        /\ \/ /\ entry \in mem.syncs
              /\ mem' = [mem EXCEPT !.syncs = @ \ {entry}]
              /\ locks' = [locks EXCEPT !.settings = t]
              /\ disk' = [copied EXCEPT !.syncs = {}, !.writing = "syncs"]
              /\ Goto(t, "writing")
              /\ UNCHANGED failures
           \/ /\ entry \in mem.syncs
              /\ mem' = [mem EXCEPT !.syncs = @ \ {entry}]
              /\ disk' = copied
              /\ Fail
              /\ UNCHANGED <<locks, pc>>
           \/ /\ entry \notin mem.syncs
              /\ disk' = copied
              /\ UNCHANGED <<mem, locks, pc, failures>>

MigrateAnswer(t) ==
    /\ At(t, "migrating")
    /\ locks.settings = Free
    /\ \E entry \in my[t].sent :
         \/ removeSyncConfig(t, entry)
         \/ /\ my' = [my EXCEPT ![t].sent = @ \ {entry}]
            /\ UNCHANGED <<disk, mem, locks, pc, failures>>
    /\ UNCHANGED <<up, todo, api, loggedIn, unsettled>>

(* fetchNodes: the loaded backups are set up again and saved, all under    *)
(* mtxBackupsMap.                                                          *)
ResumeBackups(t) ==
    /\ At(t, "migrating") /\ my[t].sent = {}
    /\ Acquire(t, "backups")
    /\ my' = [my EXCEPT ![t].list = {f \in Paths : mem.backups[f] # NoBackup}]
    /\ Goto(t, IF \A f \in Paths : mem.backups[f] = NoBackup THEN "unlockBackups" ELSE "resume")
    /\ UNCHANGED <<up, todo, disk, mem, api, loggedIn, unsettled, failures>>

ResumeBackup(t) ==
    /\ At(t, "resume")
    /\ IF my[t].list = {}
       THEN Goto(t, "saveBackups") /\ UNCHANGED <<my, mem, api>>
       ELSE \E f \in my[t].list :
              /\ my' = [my EXCEPT ![t].list = @ \ {f}]
              /\ \/ /\ api' = [api EXCEPT !.backups[f] = mem.backups[f].num]
                    /\ mem' = [mem EXCEPT !.backups[f].tagged = TRUE]
                 \/ UNCHANGED <<mem, api>>
              /\ UNCHANGED pc
    /\ UNCHANGED <<up, todo, disk, locks, loggedIn, unsettled, failures>>

(* ... and the servers whose port is saved are started with the saved      *)
(* locations, or cannot be.                                                *)
RestartServer(p) ==
    \/ /\ disk.cfg[Port[p]] # 0
       /\ api' = [api EXCEPT !.running[p] = TRUE, !.allowed[p] = @ \cup disk.cfg[Served[p]]]
    \/ UNCHANGED api

RestartWebdav(t) ==
    /\ At(t, "webdav")
    /\ locks.settings = Free
    /\ RestartServer("webdav")
    /\ Goto(t, "ftp")
    /\ UNCHANGED <<up, todo, my, disk, locks, mem, loggedIn, unsettled, failures>>

RestartFtp(t) ==
    /\ At(t, "ftp")
    /\ locks.settings = Free
    /\ RestartServer("ftp")
    /\ loggedIn' = TRUE
    /\ Finish(t)
    /\ UNCHANGED <<up, todo, disk, locks, mem, unsettled, failures>>

-----------------------------------------------------------------------------
(* logout, once the SDK has logged out: everything is unloaded and, unless *)
(* the session is kept, the backups and the syncs are saved, empty.        *)
unloadConfiguration(t) ==
    /\ At(t, "start") /\ my[t].cmd.op \in {"logout", "logout-keep"}
    /\ locks.settings = Free
    /\ mem' = [mem EXCEPT !.syncs = {}, !.backups = [f \in Paths |-> NoBackup]]
    /\ api' = [api EXCEPT !.backups = [f \in Paths |-> 0]]
    /\ loggedIn' = FALSE
    /\ Goto(t, IF my[t].cmd.op = "logout" THEN "logoutBackups" ELSE "clear")
    /\ UNCHANGED <<up, todo, my, disk, locks, unsettled, failures>>

LogoutBackups(t) ==
    /\ At(t, "logoutBackups")
    /\ Saving(t, "backups", [my[t] EXCEPT !.ret = "logoutSyncs"])
    /\ UNCHANGED <<up, todo, mem, api, loggedIn>>

LogoutSyncs(t) ==
    /\ At(t, "logoutSyncs")
    /\ Saving(t, "syncs", [my[t] EXCEPT !.ret = "clear"])
    /\ UNCHANGED <<up, todo, mem, api, loggedIn>>

(* A clearing that does not look for the persistent properties. *)
MutClearConfigurationFile(t) ==
    /\ At(t, "clear")
    /\ Rewrite(t, NoValue, {}, [my[t] EXCEPT !.ret = "idle"])
    /\ UNCHANGED <<up, todo, mem, api, loggedIn>>

(* Whether or not the session is kept, only the persistent properties stay.*)
clearConfigurationFile(t) ==
    /\ At(t, "clear")
    /\ LET kept == [k \in Keys |-> IF k \in persistentmcmdconfigurationkeys
                                   THEN disk.cfg[k] ELSE NoValue[k]]
       IN  Rewrite(t, kept, Parts(kept, NoValue), [my[t] EXCEPT !.ret = "idle"])
    /\ UNCHANGED <<up, todo, mem, api, loggedIn>>

-----------------------------------------------------------------------------
(* The process dies; what was being written is lost. *)
Crash ==
    /\ up
    /\ Fail
    /\ up' = FALSE
    /\ disk' = [disk EXCEPT !.writing = "none"]
    /\ pc' = [t \in Threads |-> "idle"]
    /\ my' = [t \in Threads |-> NoLocals]
    /\ locks' = [m \in DOMAIN locks |-> Free]
    /\ mem' = [mem EXCEPT !.syncs = {}, !.backups = [f \in Paths |-> NoBackup]]
    /\ api' = FreshApi
    /\ loggedIn' = FALSE
    /\ unsettled' = {}
    /\ UNCHANGED todo

(* executeServer: a saved proxy is set again, and the saved session logs   *)
(* in, before the first client is served.                                  *)
Restart ==
    /\ ~up
    /\ up' = TRUE
    /\ LET proxy == [NoCommand EXCEPT !.op = "proxy", !.val = disk.cfg["proxy_url"]]
           login == [NoCommand EXCEPT !.op = "login"]
       IN  todo' = [todo EXCEPT ![Startup] =
                      (IF disk.cfg["proxy_url"] # 0 THEN <<proxy, login>> ELSE <<login>>) \o @]
    /\ UNCHANGED <<pc, my, disk, locks, mem, api, loggedIn, unsettled, failures>>

(* All the scripts are over. *)
Done ==
    /\ up
    /\ \A t \in Threads : pc[t] = "idle" /\ todo[t] = <<>>
    /\ UNCHANGED vars

Command(t) ==
    \/ Configure(t) \/ ConfigurePush(t)
    \/ Speedlimit(t) \/ SpeedlimitUp(t)
    \/ Graphics(t) \/ GraphicsSave(t) \/ Permissions(t)
    \/ setProxy(t) \/ UpdateAuto(t)
    \/ StartWebdav(t) \/ StartFtp(t) \/ Link(t) \/ Unserve(t) \/ RemoveAll(t)
    \/ ListLocations(t) \/ ListLinks(t)
    \/ addWebdavLocation(t) \/ addFtpLocation(t)
    \/ removeWebdavLocation(t) \/ removeFtpLocation(t) \/ UnlockLocations(t)
    \/ createOrModifyBackup(t) \/ RegisterBackup(t) \/ RefusedBackup(t)
    \/ SaveBackups(t) \/ UnlockBackups(t)
    \/ FindBackup(t) \/ BackupNotFound(t) \/ RemoveScheduledCopy(t)
    \/ EraseBackup(t) \/ EraseStoppedBackup(t)

Login(t) ==
    \/ loadsyncs(t) \/ loadbackups(t)
    \/ transitionLegacyExclusionRules(t) \/ AddFilters(t) \/ HideLegacyFile(t)
    \/ ApplyRead(t) \/ ApplySet(t) \/ ApplyPush(t)
    \/ migrateSyncConfig(t) \/ MigrateAnswer(t)
    \/ ResumeBackups(t) \/ ResumeBackup(t) \/ RestartWebdav(t) \/ RestartFtp(t)

Logout(t) ==
    \/ unloadConfiguration(t) \/ LogoutBackups(t) \/ LogoutSyncs(t)
    \/ clearConfigurationFile(t)

Next ==
    \/ \E t \in Threads :
         Start(t) \/ saveProperty(t) \/ EndWrite(t) \/ Command(t) \/ Login(t) \/ Logout(t)
    \/ Crash
    \/ Restart
    \/ Done

Spec == Init /\ [][Next]_vars

-----------------------------------------------------------------------------
(* The properties of megacmd.cfg as the threads see them: while the file   *)
(* is being written, what it is about to hold.                             *)
Stored == IF disk.writing = "cfg"
          THEN my[CHOOSE t \in Threads : pc[t] = "writing"].buf
          ELSE disk.cfg

Leaving == \E t \in Threads : my[t].cmd.op \in {"logout", "logout-keep"}

Store == INSTANCE SettingsStore
           WITH Persistent <- persistentmcmdconfigurationkeys, Unset <- NoValue,
                store <- Stored, leaving <- Leaving, failures <- failures

(* However the commands, logins and logouts of the threads interleave, the *)
(* file is a store of which every save changes one property and a logout,  *)
(* nothing else, clears all but the persistent ones; more is lost only     *)
(* when the process dies while it writes, or when the file cannot be read  *)
(* to its end or written (configurationmanager.cpp:214, 243-250, 892,      *)
(* 917-921).                                                               *)
ImplementsStore == Store!Spec

(* A setting that no two commands fought about is, once nobody is changing *)
(* it, in the SDK what the file says, and what is shown as the default if  *)
(* the file says nothing: also after a refused value, a logout, a crash in *)
(* the middle of a save, or a login that restores it.  Excepted, until the *)
(* process ends, are the settings that the code sets without seeing that   *)
(* they are not saved, or lost from the file with another's save           *)
(* (configurationmanager.cpp:214, 243-250), and those that the login could *)
(* not read or the SDK refuses then (megacmdexecuter.cpp:2635-2659).       *)
Busy(k) == \E t \in Threads : pc[t] # "idle" /\ k \in Touches(my[t].cmd)

SavedIsRunning ==
    up /\ loggedIn =>
      \A k \in SettingKeys \ unsettled :
        LET shown == IF Stored[k] # 0 THEN Stored[k] ELSE Default[k]
        IN  ~Busy(k) => shown \in {0, api.settings[k]}

(* The saved list of served locations changes by the location of the       *)
(* command that saves it, except when everything is removed: no command    *)
(* loses the location that another one is adding.  Excepted are the steps  *)
(* in which the file cannot be read to its end or written, and the command *)
(* that then saves a list it has read before.                              *)
ListChange(p) ==
    LET old == Stored[Served[p]]
        new == Stored'[Served[p]]
    IN  (old \ new) \cup (new \ old)

LocationsSurvive ==
    [][up' /\ failures' = failures => \A p \in Protocols :
         ListChange(p) = {} \/
         \E t \in Threads :
            /\ pc[t] # "writing" /\ pc'[t] = "writing"
            /\ \/ RemovesAll(t)
               \/ my[t].wiped
               \/ ListChange(p) \subseteq {Path(t)}]_vars

(* A backup that no two commands fought about is, once nobody is changing  *)
(* it, in the file exactly when it is configured, and configured when the  *)
(* SDK runs it: what runs now is resumed by the next start.  Excepted,     *)
(* until the process ends, are the backups that saveBackups could not      *)
(* write or loadbackups not read, which nobody is told                     *)
(* (configurationmanager.cpp:381-416).                                     *)
BackupsAgree ==
    up /\ loggedIn /\ disk.writing # "backups" =>
      \A f \in Paths \ unsettled :
        ~Busy(f) =>
          /\ (disk.backups[f] # 0) <=> (mem.backups[f] # NoBackup)
          /\ api.backups[f] # 0 => mem.backups[f] # NoBackup

=============================================================================
