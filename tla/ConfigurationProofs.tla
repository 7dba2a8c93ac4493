-------------------------- MODULE ConfigurationProofs --------------------------
(***************************************************************************)
(* Proofs about Configuration, for any threads, scripts and folders.        *)
(*                                                                         *)
(* There are four invariants, each used for the ones that follow:           *)
(*   StoreInv     types, where each command is, who writes a file;          *)
(*   ListInv      the list that a command read is the one it replaces;      *)
(*   SettingsInv  what a command, a login and a logout do with a setting    *)
(*                that nobody else works on;                                *)
(*   BackupsInv   the same for a backup.                                    *)
(* Each is shown to be kept step by step, with one lemma for each class of  *)
(* steps that do not touch what it is about.                                *)
(***************************************************************************)
EXTENDS Configuration, SequenceTheorems, TLAPS

-----------------------------------------------------------------------------
(* Types *)

ValuesOf(k) == IF k \in ListKeys THEN SUBSET Paths ELSE Nat
Properties == {f \in [Keys -> Nat \cup SUBSET Paths] : \A k \in Keys : f[k] \in ValuesOf(k)}
Entries == {e \in Keys \X (Nat \cup SUBSET Paths) : e[2] \in ValuesOf(e[1])}

LoginLabels == {"loadBackups", "transition", "addFilters", "hide", "apply", "set",
                "migrate", "migrating", "resume", "webdav", "ftp"}

Labels == {"idle", "start", "save", "writing", "push", "speedup", "graphics", "link",
           "list", "links", "unlock", "register", "refused", "saveBackups",
           "unlockBackups", "remove", "erase", "eraseStopped", "logoutBackups",
           "logoutSyncs", "clear"} \cup LoginLabels

Returns == Labels \ {"save", "writing", "start", "set", "push", "speedup", "graphics", "register",
                     "refused", "resume"}

Locals == [cmd : Commands \cup {NoCommand}, pending : Seq(Entries), buf : Properties,
           ret : Returns, snap : [ReclaimKeys -> Nat],
           list : SUBSET Paths, i : 0 .. Len(ApplyOrder), val : Nat,
           sent : SUBSET (Legacy \X Nat), found : BOOLEAN, wiped : BOOLEAN,
          lost : BOOLEAN]

Files == {"cfg", "syncs", "backups"}
Disks == [cfg : Properties, syncs : SUBSET Legacy, backups : [Paths -> Nat],
          writing : Files \cup {"none"}, oldFormat : BOOLEAN, cached : SUBSET Legacy,
          excluded : BOOLEAN, ignore : {"none", "empty", "rules"}]

Backups == [num : Nat, tagged : BOOLEAN]
Memories == [syncs : SUBSET (Legacy \X Nat), backups : [Paths -> Backups], loads : Nat]

Apis == [settings : [SettingKeys -> Nat], allowed : [Protocols -> SUBSET Paths],
         running : [Protocols -> BOOLEAN], proxy : Nat, backups : [Paths -> Nat]]

Mutexes == {"settings", "reclaim", "backups"} \cup Protocols

TypeOK ==
    /\ up \in BOOLEAN
    /\ todo \in [Threads -> Seq(Commands)]
    /\ pc \in [Threads -> Labels]
    /\ my \in [Threads -> Locals]
    /\ disk \in Disks
    /\ locks \in [Mutexes -> Threads \cup {Free}]
    /\ mem \in Memories
    /\ api \in Apis
    /\ loggedIn \in BOOLEAN
    /\ failures \in Nat

(* What a thread does at each point: the command that takes it there.      *)
Reaches(op, label) ==
    /\ label = "idle" <=> op = "none"
    /\ label = "save" => op \notin Sessions
    /\ label = "push" => op \in {"configure", "login"}
    /\ label = "speedup" => op = "speedlimit"
    /\ label = "graphics" => op = "graphics"
    /\ label = "link" => op = "serve"
    /\ label \in {"list", "unlock"} => op \in Locating
    /\ label = "links" => op = "list"
    /\ label \in {"register", "refused"} => op = "backup"
    /\ label \in {"remove", "erase", "eraseStopped"} => op = "backup-delete"
    /\ label \in {"saveBackups", "unlockBackups"} => op \in Copying \cup {"login"}
    /\ label \in LoginLabels => op = "login"
    /\ label \in {"logoutBackups", "logoutSyncs"} => op = "logout"
    /\ label = "clear" => op \in {"logout", "logout-keep"}

Placed(t) ==
    /\ pc[t] = "idle" => my[t].cmd = NoCommand /\ my[t].ret = "idle" /\ my[t].i = 0
    /\ Reaches(my[t].cmd.op, pc[t])
    /\ my[t].ret # "idle" => Reaches(my[t].cmd.op, my[t].ret)
    /\ pc[t] = "save" => my[t].pending # <<>>
    /\ pc[t] \notin {"save", "writing"} => my[t].pending = <<>>
    /\ my[t].cmd.op \in Sessions => my[t].pending = <<>>
    /\ pc[t] = "set" => my[t].i # 0
    /\ pc[t] = "push" /\ my[t].cmd.op = "login" => my[t].i # 0

InCommand == \A t \in Threads : Placed(t)

(* One thread at most writes a file, and it holds settingsMutex; megacmd.cfg *)
(* is empty meanwhile.                                                       *)
Writers ==
    /\ \A t \in Threads : pc[t] = "writing" <=> locks.settings = t
    /\ disk.writing = "none" <=> locks.settings = Free
    /\ disk.writing = "cfg" => disk.cfg = NoValue

StoreInv == TypeOK /\ InCommand /\ Writers

-----------------------------------------------------------------------------
(* The constants of the module *)

LEMMA KeysAre ==
  /\ ListKeys = {"webdav_served", "ftp_served"}
  /\ Keys = SettingKeys \cup ListKeys
            \cup {"autoupdate", "webdav_port", "ftp_port", "proxy_url", "proxy_username",
                  "firstBackupConfigured"}
  /\ SettingKeys = {"age", "target", "nodes", "speedup", "speeddown", "conns",
                    "graphics", "permissions"}
BY DEF ListKeys, Keys, SettingKeys, ReclaimKeys, Protocols, Served, Port,
       persistentmcmdconfigurationkeys

LEMMA ApplyOrderIs ==
  /\ Len(ApplyOrder) = 8
  /\ \A i \in 1 .. 8 : ApplyOrder[i] \in SettingKeys
BY KeysAre DEF ApplyOrder

LEMMA ConstantsTyped ==
  /\ NoValue \in Properties
  /\ NoCommand \notin Commands
  /\ NoLocals \in Locals
  /\ FreshApi \in Apis
  /\ Default \in [SettingKeys -> Nat]
<1>1. NoValue \in Properties
  BY DEF NoValue, Properties, ValuesOf
<1>2. NoCommand \notin Commands
  BY DEF NoCommand, Commands, Sessions, Locating, Copying, Setting
<1>3. NoLocals \in Locals
  BY <1>1, ApplyOrderIs DEF NoLocals, Locals, Labels, Returns
<1>4. FreshApi \in Apis
  BY DEF FreshApi, Apis
<1>5. Default \in [SettingKeys -> Nat]
  BY DEF Default
<1> QED
  BY <1>1, <1>2, <1>3, <1>4, <1>5

(* What is known of a command from its name. *)
LEMMA CommandsAre ==
  ASSUME NEW c \in Commands
  PROVE  /\ c.op \in Sessions \cup DOMAIN Setting \cup Locating \cup Copying
                   \cup {"remove-all", "list"}
         /\ c.op # "none"
         /\ c.val \in Nat
         /\ c.op \in DOMAIN Setting => c.val # 0 /\ c.key \in Setting[c.op]
         /\ c.op \in Locating \cup {"remove-all", "list"} => c.key \in Protocols
         /\ c.op \in Locating \cup Copying => c.path \in Paths
BY DEF Commands, Sessions, Locating, Copying, Setting

-----------------------------------------------------------------------------
(* Every step keeps the types *)

LEMMA InitTyped ==
  Init => StoreInv
<1> SUFFICES ASSUME Init PROVE StoreInv
  OBVIOUS
<1> USE DEF Init, InitProcess
<1>1. TypeOK
  BY ConstantsTyped, KeysAre, ScriptsAssumption, ThreadsAssumption
     DEF TypeOK, Labels, Disks, Memories, Backups, Mutexes, NoBackup, Files, Properties, ValuesOf
<1>2. InCommand
  BY DEF InCommand, Placed, Reaches, NoLocals, NoCommand, LoginLabels, Sessions, Locating, Copying
<1>3. Writers
  BY ThreadsAssumption DEF Writers
<1> QED
  BY <1>1, <1>2, <1>3 DEF StoreInv

LEMMA FieldsTyped ==
  ASSUME TypeOK, NEW t \in Threads
  PROVE  /\ my[t].cmd \in Commands \cup {NoCommand}
         /\ my[t].pending \in Seq(Entries)
         /\ my[t].buf \in Properties
         /\ my[t].ret \in Returns
         /\ my[t].snap \in [ReclaimKeys -> Nat]
         /\ my[t].list \in SUBSET Paths
         /\ my[t].i \in 0 .. 8
         /\ my[t].val \in Nat
         /\ my[t].sent \in SUBSET (Legacy \X Nat)
         /\ my[t].wiped \in BOOLEAN /\ my[t].lost \in BOOLEAN
BY ApplyOrderIs DEF TypeOK, Locals

(* Setting fields of the locals. *)
LEMMA FieldsSet ==
  ASSUME NEW l \in Locals
  PROVE  /\ \A c \in Commands : [l EXCEPT !.cmd = c] \in Locals
         /\ \A q \in Seq(Entries), r \in Returns :
               [l EXCEPT !.pending = q, !.ret = r] \in Locals
         /\ \A w \in BOOLEAN : [l EXCEPT !.wiped = w] \in Locals
         /\ \A s \in [ReclaimKeys -> Nat] : [l EXCEPT !.snap = s] \in Locals
         /\ \A v \in Nat : [l EXCEPT !.val = v] \in Locals
         /\ \A i \in 0 .. 8, v \in Nat : [l EXCEPT !.i = i, !.val = v] \in Locals
         /\ \A r \in Returns : [l EXCEPT !.ret = r] \in Locals
         /\ \A e \in SUBSET (Legacy \X Nat) : [l EXCEPT !.sent = e] \in Locals
         /\ \A r \in Returns, e \in SUBSET (Legacy \X Nat) :
               [l EXCEPT !.sent = e, !.ret = r] \in Locals
         /\ \A d \in SUBSET Paths : [l EXCEPT !.list = d] \in Locals
         /\ \A b \in BOOLEAN : [l EXCEPT !.found = b] \in Locals
         /\ \A q \in Seq(Entries) : [l EXCEPT !.pending = q] \in Locals
         /\ \A p \in Properties, b \in BOOLEAN : [l EXCEPT !.buf = p, !.lost = b] \in Locals
         /\ \A q \in Seq(Entries), d \in SUBSET Paths, w \in BOOLEAN, r \in Returns :
               [l EXCEPT !.pending = q, !.list = d, !.wiped = w, !.ret = r] \in Locals
<1> USE ApplyOrderIs DEF Locals
<1>1. \A c \in Commands : [l EXCEPT !.cmd = c] \in Locals
  OBVIOUS
<1>2. \A q \in Seq(Entries), r \in Returns :
        [l EXCEPT !.pending = q, !.ret = r] \in Locals
  OBVIOUS
<1>3. \A w \in BOOLEAN : [l EXCEPT !.wiped = w] \in Locals
  OBVIOUS
<1>4. \A s \in [ReclaimKeys -> Nat] : [l EXCEPT !.snap = s] \in Locals
  OBVIOUS
<1>5. \A v \in Nat : [l EXCEPT !.val = v] \in Locals
  OBVIOUS
<1>6. \A i \in 0 .. 8, v \in Nat : [l EXCEPT !.i = i, !.val = v] \in Locals
  OBVIOUS
<1>7. \A r \in Returns : [l EXCEPT !.ret = r] \in Locals
  OBVIOUS
<1>8. /\ \A e \in SUBSET (Legacy \X Nat) : [l EXCEPT !.sent = e] \in Locals
      /\ \A r \in Returns, e \in SUBSET (Legacy \X Nat) :
           [l EXCEPT !.sent = e, !.ret = r] \in Locals
  OBVIOUS
<1>9. \A d \in SUBSET Paths : [l EXCEPT !.list = d] \in Locals
  OBVIOUS
<1>10. \A b \in BOOLEAN : [l EXCEPT !.found = b] \in Locals
  OBVIOUS
<1>11. \A q \in Seq(Entries) : [l EXCEPT !.pending = q] \in Locals
  OBVIOUS
<1>12. \A p \in Properties, b \in BOOLEAN : [l EXCEPT !.buf = p, !.lost = b] \in Locals
  OBVIOUS
<1>13. \A q \in Seq(Entries), d \in SUBSET Paths, w \in BOOLEAN, r \in Returns :
         [l EXCEPT !.pending = q, !.list = d, !.wiped = w, !.ret = r] \in Locals
  OBVIOUS
<1> HIDE DEF Locals
<1> QED
  BY <1>1, <1>2, <1>3, <1>4, <1>5, <1>6, <1>7, <1>8, <1>9, <1>10, <1>11, <1>12, <1>13

LEMMA StartTyped ==
  ASSUME StoreInv, NEW t \in Threads, Start(t)
  PROVE  TypeOK'
<1>0. todo[t] \in Seq(Commands) /\ todo[t] # <<>>
  BY DEF StoreInv, TypeOK, Start
<1>1. Head(todo[t]) \in Commands /\ Tail(todo[t]) \in Seq(Commands)
  BY <1>0, HeadTailProperties
<1>2. my' \in [Threads -> Locals]
  <2>1. [my[t] EXCEPT !.cmd = Head(todo[t])] \in Locals
    BY <1>1, FieldsSet DEF StoreInv, TypeOK
  <2> QED
    BY <2>1 DEF StoreInv, TypeOK, Start
<1>3. todo' \in [Threads -> Seq(Commands)]
  BY <1>1 DEF StoreInv, TypeOK, Start
<1>4. pc' \in [Threads -> Labels]
  BY DEF StoreInv, TypeOK, Start, Goto, Labels
<1> QED
  BY <1>2, <1>3, <1>4 DEF StoreInv, TypeOK, Start

(* What is read of a file, and what is left of it. *)
LEMMA PerhapsIs ==
  ASSUME NEW whole, NEW parts, NEW part \in Perhaps(whole, parts)
  PROVE  part = whole \/ (part \in parts /\ failures < MaxFailures)
BY DEF Perhaps

LEMMA PartsAre ==
  ASSUME NEW whole, NEW none, NEW part \in Parts(whole, none)
  PROVE  /\ part = [k \in DOMAIN whole |-> part[k]]
         /\ \A k \in DOMAIN whole : part[k] \in {whole[k], none[k]}
BY DEF Parts

LEMMA FailsIs ==
  ASSUME TypeOK
  PROVE  /\ Fail => failures' = failures + 1 /\ failures' \in Nat
         /\ \A bad \in BOOLEAN : FailsIf(bad) => failures' \in {failures, failures + 1}
                                                /\ failures' \in Nat
                                                /\ failures' = (IF bad THEN failures + 1
                                                                ELSE failures)
BY DEF TypeOK, Fail, FailsIf

LEMMA PropertiesKept ==
  ASSUME NEW whole \in Properties, NEW part \in Parts(whole, NoValue)
  PROVE  /\ part \in Properties
         /\ \A k \in Keys : part[k] \in {whole[k], NoValue[k]}
<1>1. DOMAIN whole = Keys
  BY DEF Properties
<1>2. part = [k \in Keys |-> part[k]] /\ \A k \in Keys : part[k] \in {whole[k], NoValue[k]}
  BY <1>1, PartsAre
<1>3. \A k \in Keys : whole[k] \in ValuesOf(k) /\ NoValue[k] \in ValuesOf(k)
  BY ConstantsTyped DEF Properties
<1>4. \A k \in Keys : part[k] \in ValuesOf(k)
  BY <1>2, <1>3
<1>5. \A k \in Keys : ValuesOf(k) \subseteq Nat \cup SUBSET Paths
  BY DEF ValuesOf
<1>6. part \in [Keys -> Nat \cup SUBSET Paths]
  BY <1>2, <1>4, <1>5
<1> QED
  BY <1>2, <1>4, <1>6 DEF Properties

LEMMA BackupsFileKept ==
  ASSUME NEW whole \in [Paths -> Nat], NEW part \in Parts(whole, Emptied.backups)
  PROVE  /\ part \in [Paths -> Nat]
         /\ \A f \in Paths : part[f] \in {whole[f], 0}
<1>1. Emptied.backups = [f \in Paths |-> 0]
  BY DEF Emptied
<1>2. DOMAIN whole = Paths
  OBVIOUS
<1>3. part = [f \in Paths |-> part[f]] /\ \A f \in Paths : part[f] \in {whole[f], 0}
  BY <1>1, <1>2, PartsAre
<1> QED
  BY <1>3

LEMMA DifferingIs ==
  ASSUME NEW one, NEW other
  PROVE  \A k \in DOMAIN one : one[k] = other[k] <=> k \notin Differing(one, other)
BY DEF Differing

-----------------------------------------------------------------------------
(* What the steps that neither begin nor end a write do to the thread.      *)

Only(t) == \A u \in Threads \ {t} : pc'[u] = pc[u] /\ my'[u] = my[u]

Quiet(t) ==
    /\ up' = up
    /\ disk'.cfg = disk.cfg /\ disk'.writing = disk.writing
    /\ locks'["settings"] = locks["settings"]
    /\ pc[t] # "writing" /\ pc'[t] # "writing"

LEMMA GotoTyped ==
  ASSUME TypeOK, NEW t \in Threads, NEW l \in Labels, Goto(t, l)
  PROVE  /\ pc' \in [Threads -> Labels]
         /\ pc'[t] = l
         /\ \A u \in Threads \ {t} : pc'[u] = pc[u]
BY DEF TypeOK, Goto

LEMMA FinishTyped ==
  ASSUME TypeOK, NEW t \in Threads, Finish(t)
  PROVE  /\ pc' \in [Threads -> Labels] /\ my' \in [Threads -> Locals]
         /\ pc'[t] = "idle"
         /\ Only(t) /\ Placed(t)'
<1>1. "idle" \in Labels
  BY DEF Labels
<1>2. my'[t] = NoLocals /\ my' \in [Threads -> Locals]
  BY ConstantsTyped DEF TypeOK, Finish
<1>3. Placed(t)'
  BY <1>1, <1>2, GotoTyped DEF Finish, Placed, Reaches, NoLocals, NoCommand, Sessions, Locating,
     Copying, LoginLabels
<1> QED
  BY <1>1, <1>2, <1>3, GotoTyped DEF Finish, Only, TypeOK

LEMMA ThenSaveTyped ==
  ASSUME TypeOK, NEW t \in Threads, Placed(t), NEW q \in Seq(Entries), NEW r \in Returns,
         ThenSave(t, q, r),
         q # <<>>, my[t].cmd.op \notin Sessions, r # "idle" => Reaches(my[t].cmd.op, r),
         my[t].cmd.op # "none"
  PROVE  /\ pc' \in [Threads -> Labels] /\ my' \in [Threads -> Locals]
         /\ pc'[t] = "save"
         /\ Only(t) /\ Placed(t)'
<1>1. "save" \in Labels
  BY DEF Labels
<1>2. [my[t] EXCEPT !.pending = q, !.ret = r] \in Locals
  BY FieldsSet DEF TypeOK
<1>3. my' \in [Threads -> Locals] /\ my'[t].cmd = my[t].cmd /\ my'[t].pending = q
      /\ my'[t].ret = r
  BY <1>2 DEF TypeOK, ThenSave, Locals
<1>4. Placed(t)'
  BY <1>1, <1>3, GotoTyped DEF ThenSave, Placed, Reaches, LoginLabels
<1> QED
  BY <1>1, <1>3, <1>4, GotoTyped DEF ThenSave, Only, TypeOK

LEMMA SettingEntries ==
  /\ \A k \in Keys \ ListKeys, v \in Nat : <<k, v>> \in Entries /\ <<<<k, v>>>> \in Seq(Entries)
  /\ \A e, f \in Entries : <<e>> \in Seq(Entries) /\ <<e, f>> \in Seq(Entries)
                          /\ <<e>> # <<>> /\ <<e, f>> # <<>>
<1>1. \A k \in Keys \ ListKeys, v \in Nat : <<k, v>> \in Entries
  BY DEF Entries, ValuesOf
<1>2. \A e, f \in Entries : <<e>> \in Seq(Entries) /\ <<e, f>> \in Seq(Entries)
                          /\ <<e>> # <<>> /\ <<e, f>> # <<>>
  OBVIOUS
<1> QED
  BY <1>1, <1>2

(* Leaving a point for another that the command reaches. *)
LEMMA GoesOn ==
  ASSUME TypeOK, NEW t \in Threads, Placed(t), NEW l \in Labels, Goto(t, l),
         l \notin {"idle", "save", "writing", "set", "push"}, pc[t] \notin {"save", "writing"},
         Reaches(my[t].cmd.op, l), my[t].cmd.op # "none",
         my' \in [Threads -> Locals], \A u \in Threads \ {t} : my'[u] = my[u],
         my'[t].cmd = my[t].cmd, my'[t].pending = my[t].pending, my'[t].ret = my[t].ret
  PROVE  /\ pc' \in [Threads -> Labels] /\ pc'[t] = l
         /\ Only(t) /\ Placed(t)'
BY GotoTyped DEF Placed, Only

LEMMA CommandIs ==
  ASSUME StoreInv, NEW t \in Threads, pc[t] # "idle"
  PROVE  /\ my[t].cmd \in Commands /\ my[t].cmd.op # "none" /\ Val(t) \in Nat
         /\ my[t].cmd.op = "configure" => Val(t) # 0 /\ Key(t) \in {"age", "target", "nodes"}
         /\ my[t].cmd.op = "speedlimit" =>
               Val(t) # 0 /\ Key(t) \in {"both", "speedup", "speeddown", "conns"}
         /\ my[t].cmd.op \in {"graphics", "permissions"} => Val(t) # 0 /\ Key(t) = my[t].cmd.op
         /\ my[t].cmd.op \in {"proxy", "update"} => Val(t) # 0
         /\ my[t].cmd.op \in {"serve", "unserve", "remove-all", "list"} => Key(t) \in Protocols
         /\ my[t].cmd.op \in Locating \cup Copying => Path(t) \in Paths
         /\ my[t].cmd.op \in Sessions => Key(t) = "none" /\ Path(t) = "none"
<1>1. my[t].cmd \in Commands
  BY FieldsTyped DEF StoreInv, InCommand, Placed, Reaches, NoCommand
<1>2. \A c \in Commands :
         /\ c.op # "none" /\ c.val \in Nat
         /\ c.op \in {"proxy", "update"} => c.val # 0
         /\ c.op = "configure" => c.val # 0 /\ c.key \in {"age", "target", "nodes"}
         /\ c.op = "speedlimit" =>
               c.val # 0 /\ c.key \in {"both", "speedup", "speeddown", "conns"}
         /\ c.op \in {"graphics", "permissions"} => c.val # 0 /\ c.key = c.op
         /\ c.op \in {"serve", "unserve", "remove-all", "list"} => c.key \in Protocols
         /\ c.op \in Locating \cup Copying => c.path \in Paths
         /\ c.op \in Sessions => c.key = "none" /\ c.path = "none"
  BY DEF Commands, Sessions, Locating, Copying, Setting, ReclaimKeys
<1> QED
  BY <1>1, <1>2 DEF Val, Key, Path

LEMMA FetchReclaimTyped ==
  ASSUME TypeOK, NEW t \in Threads, Placed(t), NEW k \in ReclaimKeys, NEW v \in Nat,
         FetchReclaim(t, k, v, "push"), pc[t] \notin {"save", "writing"},
         my[t].cmd.op \in {"configure", "login"}, my[t].cmd.op = "login" => my[t].i # 0
  PROVE  /\ pc' \in [Threads -> Labels] /\ my' \in [Threads -> Locals]
         /\ locks' \in [Mutexes -> Threads \cup {Free}]
         /\ pc'[t] = "push" /\ locks'["settings"] = locks["settings"]
         /\ Only(t) /\ Placed(t)'
<1>1. [key \in ReclaimKeys |-> IF key = k THEN v ELSE api.settings[key]] \in [ReclaimKeys -> Nat]
  BY DEF TypeOK, Apis, SettingKeys
<1>2. my' \in [Threads -> Locals] /\ \A u \in Threads \ {t} : my'[u] = my[u]
  BY <1>1, FieldsSet DEF FetchReclaim, TypeOK
<1>3. /\ my'[t].cmd = my[t].cmd /\ my'[t].pending = my[t].pending
      /\ my'[t].ret = my[t].ret /\ my'[t].i = my[t].i
  BY DEF FetchReclaim, Locals, TypeOK
<1>4. pc' \in [Threads -> Labels] /\ pc'[t] = "push" /\ Only(t)
  BY <1>2, GotoTyped DEF FetchReclaim, Labels, Only
<1>5. Placed(t)'
  BY <1>3, <1>4 DEF Placed, Reaches, LoginLabels
<1>6. locks' \in [Mutexes -> Threads \cup {Free}] /\ locks'["settings"] = locks["settings"]
  BY DEF TypeOK, FetchReclaim, Acquire, Mutexes
<1> QED
  BY <1>2, <1>4, <1>5, <1>6

LEMMA PushTyped ==
  ASSUME TypeOK, NEW t \in Threads
  PROVE  /\ \A k, v : v \in Nat /\ Push(k, v) => api' \in Apis
         /\ PushReclaim(t) => api' \in Apis
         /\ \A m : Release(m) => locks' \in [Mutexes -> Threads \cup {Free}]
         /\ Release("reclaim") => locks'["settings"] = locks["settings"]
<1>1. ASSUME NEW k, NEW v, v \in Nat, Push(k, v) PROVE api' \in Apis
  BY <1>1 DEF TypeOK, Apis, Push
<1>2. ASSUME PushReclaim(t) PROVE api' \in Apis
  <2>1. [k \in SettingKeys |-> IF k \in ReclaimKeys THEN my[t].snap[k] ELSE api.settings[k]]
          \in [SettingKeys -> Nat]
    BY FieldsTyped DEF TypeOK, Apis
  <2> QED
    BY <1>2, <2>1 DEF PushReclaim, TypeOK, Apis
<1>3. ASSUME NEW m, Release(m) PROVE locks' \in [Mutexes -> Threads \cup {Free}]
  BY <1>3 DEF TypeOK, Release, Mutexes
<1>4. ASSUME Release("reclaim") PROVE locks'["settings"] = locks["settings"]
  BY <1>4 DEF TypeOK, Release, Mutexes
<1> QED
  BY <1>1, <1>2, <1>3, <1>4

SettingStep(t) ==
    \/ Configure(t) \/ ConfigurePush(t) \/ Speedlimit(t) \/ SpeedlimitUp(t)
    \/ Graphics(t) \/ GraphicsSave(t) \/ Permissions(t) \/ setProxy(t) \/ UpdateAuto(t)

LEMMA SettingsQuiet ==
  ASSUME StoreInv, NEW t \in Threads, SettingStep(t)
  PROVE  TypeOK' /\ Only(t) /\ Placed(t)' /\ Quiet(t)
<1>0. TypeOK /\ Placed(t) /\ my \in [Threads -> Locals]
  BY DEF StoreInv, InCommand, TypeOK
<1> USE CommandIs, FinishTyped, ThenSaveTyped, PushTyped, SettingEntries, KeysAre
        DEF AtOp, At
<1>s. /\ "idle" \in Returns /\ {"configure", "speedlimit", "graphics", "permissions", "proxy",
          "update"} \cap Sessions = {}
      /\ {"age", "target", "nodes", "speedup", "speeddown", "conns", "graphics", "permissions",
          "autoupdate", "proxy_url", "proxy_username"} \subseteq Keys \ ListKeys
  BY DEF Returns, Labels, Sessions
<1>1. CASE Configure(t)
  <2>1. /\ my[t].cmd.op = "configure" /\ Val(t) \in Nat /\ Key(t) \in Keys \ ListKeys
        /\ pc[t] = "start" /\ my[t].cmd.op # "none"
    BY <1>1, <1>s DEF Configure
  <2>2. CASE Val(t) = Invalid /\ Finish(t) /\ UNCHANGED <<locks, api>>
    BY <1>0, <1>1, <2>1, <2>2 DEF Configure, TypeOK, Quiet
  <2>3. CASE Key(t) \in ReclaimKeys /\ FetchReclaim(t, Key(t), Val(t), "push") /\ UNCHANGED api
    BY <1>0, <1>1, <2>1, <2>3, FetchReclaimTyped DEF Configure, TypeOK, Quiet
  <2>4. CASE /\ Key(t) \notin ReclaimKeys /\ Push(Key(t), Val(t)) /\ UNCHANGED locks
             /\ ThenSave(t, <<<<Key(t), Val(t)>>>>, "idle")
    <3>1. /\ pc' \in [Threads -> Labels] /\ my' \in [Threads -> Locals]
          /\ pc'[t] = "save" /\ Only(t) /\ Placed(t)'
      BY <1>0, <1>s, <2>1, <2>4
    <3> QED
      BY <1>0, <1>1, <2>1, <2>4, <3>1 DEF Configure, TypeOK, Quiet
  <2> QED
    BY <1>1, <2>2, <2>3, <2>4 DEF Configure
<1>2. CASE ConfigurePush(t)
  <2>1. /\ my[t].cmd.op = "configure" /\ Val(t) \in Nat /\ Key(t) \in Keys \ ListKeys
        /\ pc[t] = "push" /\ my[t].cmd.op # "none"
    BY <1>2, <1>s DEF ConfigurePush
  <2>2. CASE PushReclaim(t) /\ ThenSave(t, <<<<Key(t), Val(t)>>>>, "idle")
    <3>1. /\ pc' \in [Threads -> Labels] /\ my' \in [Threads -> Locals]
          /\ pc'[t] = "save" /\ Only(t) /\ Placed(t)'
      BY <1>0, <1>s, <2>1, <2>2
    <3> QED
      BY <1>0, <1>2, <2>1, <2>2, <3>1 DEF ConfigurePush, TypeOK, Quiet, PushReclaim
  <2>3. CASE Release("reclaim") /\ Finish(t) /\ UNCHANGED api
    BY <1>0, <1>2, <2>1, <2>3 DEF ConfigurePush, TypeOK, Quiet
  <2> QED
    BY <1>2, <2>2, <2>3 DEF ConfigurePush
<1>3. CASE Speedlimit(t)
  <2>0. my[t].cmd.op = "speedlimit" /\ pc[t] = "start"
    BY <1>3 DEF Speedlimit
  <2>1. /\ my[t].cmd.op = "speedlimit" /\ Val(t) \in Nat /\ pc[t] = "start"
        /\ Key(t) # "both" => Key(t) \in Keys \ ListKeys
        /\ my[t].cmd.op # "none"
    BY <2>0, <1>s
  <2>2. CASE Push("speeddown", Val(t)) /\ Goto(t, "speedup") /\ UNCHANGED my
    <3>1. Reaches("speedlimit", "speedup") /\ "speedup" \in Labels
      BY DEF Reaches, Labels, LoginLabels
    <3>2. pc' \in [Threads -> Labels] /\ pc'[t] = "speedup" /\ Only(t) /\ Placed(t)'
      BY <1>0, <2>1, <2>2, <3>1, GoesOn
    <3> QED
      BY <1>0, <1>3, <2>1, <2>2, <3>2 DEF Speedlimit, TypeOK, Quiet
  <2>3. CASE Key(t) # "both" /\ Push(Key(t), Val(t)) /\ ThenSave(t, <<<<Key(t), Val(t)>>>>, "idle")
    <3>1. /\ pc' \in [Threads -> Labels] /\ my' \in [Threads -> Locals]
          /\ pc'[t] = "save" /\ Only(t) /\ Placed(t)'
      BY <1>0, <1>s, <2>1, <2>3
    <3> QED
      BY <1>0, <1>3, <2>1, <2>3, <3>1 DEF Speedlimit, TypeOK, Quiet
  <2>4. CASE Finish(t) /\ UNCHANGED api
    BY <1>0, <1>3, <2>1, <2>4 DEF Speedlimit, TypeOK, Quiet
  <2> QED
    BY <1>3, <2>2, <2>3, <2>4 DEF Speedlimit
<1>4. CASE SpeedlimitUp(t)
  <2>1. /\ Val(t) \in Nat /\ pc[t] = "speedup" /\ my[t].cmd.op = "speedlimit"
        /\ my[t].cmd.op # "none"
    BY <1>0, <1>4 DEF SpeedlimitUp, Placed, Reaches
  <2>2. <<<<"speedup", Val(t)>>, <<"speeddown", Val(t)>>>> \in Seq(Entries)
        /\ <<<<"speedup", Val(t)>>, <<"speeddown", Val(t)>>>> # <<>>
    BY <2>1, <1>s
  <2>3. /\ pc' \in [Threads -> Labels] /\ my' \in [Threads -> Locals]
        /\ pc'[t] = "save" /\ Only(t) /\ Placed(t)'
    BY <1>0, <1>4, <1>s, <2>1, <2>2 DEF SpeedlimitUp
  <2> QED
    BY <1>0, <1>4, <2>1, <2>3 DEF SpeedlimitUp, TypeOK, Quiet
<1>5. CASE Graphics(t)
  <2>1. /\ Val(t) \in Nat /\ pc[t] = "start" /\ my[t].cmd.op = "graphics"
        /\ Reaches("graphics", "graphics") /\ "graphics" \in Labels
    BY <1>5 DEF Graphics, Reaches, Labels, LoginLabels
  <2> QED
    BY <1>0, <1>5, <2>1, GoesOn DEF Graphics, TypeOK, Quiet
<1>6. CASE GraphicsSave(t)
  <2>1. /\ api.settings["graphics"] \in Nat /\ pc[t] = "graphics" /\ my[t].cmd.op = "graphics"
    BY <1>0, <1>6 DEF GraphicsSave, Placed, Reaches, TypeOK, Apis
  <2>2. /\ pc' \in [Threads -> Labels] /\ my' \in [Threads -> Locals]
        /\ pc'[t] = "save" /\ Only(t) /\ Placed(t)'
    BY <1>0, <1>6, <1>s, <2>1 DEF GraphicsSave
  <2> QED
    BY <1>0, <1>6, <2>1, <2>2 DEF GraphicsSave, TypeOK, Quiet
<1>7. CASE Permissions(t)
  <2>1. /\ Val(t) \in Nat /\ pc[t] = "start" /\ my[t].cmd.op = "permissions"
    BY <1>0, <1>7 DEF Permissions
  <2>2. /\ pc' \in [Threads -> Labels] /\ my' \in [Threads -> Locals]
        /\ pc'[t] = "save" /\ Only(t) /\ Placed(t)'
    BY <1>0, <1>7, <1>s, <2>1 DEF Permissions
  <2> QED
    BY <1>0, <1>7, <2>1, <2>2 DEF Permissions, TypeOK, Quiet
<1>8. CASE setProxy(t)
  <2>1. /\ Val(t) \in Nat /\ pc[t] = "start" /\ my[t].cmd.op = "proxy"
    BY <1>0, <1>8 DEF setProxy
  <2>2. <<<<"proxy_url", Val(t)>>, <<"proxy_username", Val(t)>>>> \in Seq(Entries)
        /\ <<<<"proxy_url", Val(t)>>, <<"proxy_username", Val(t)>>>> # <<>>
    BY <2>1, <1>s
  <2>3. CASE /\ api' = [api EXCEPT !.proxy = Val(t)]
             /\ ThenSave(t, <<<<"proxy_url", Val(t)>>, <<"proxy_username", Val(t)>>>>, "idle")
    <3>1. /\ pc' \in [Threads -> Labels] /\ my' \in [Threads -> Locals]
          /\ pc'[t] = "save" /\ Only(t) /\ Placed(t)'
      BY <1>0, <1>8, <1>s, <2>1, <2>2, <2>3
    <3>2. api' \in Apis
      BY <1>0, <2>1, <2>3 DEF TypeOK, Apis
    <3> QED
      BY <1>0, <1>8, <2>1, <3>1, <3>2 DEF setProxy, TypeOK, Quiet
  <2>4. CASE UNCHANGED api /\ Finish(t)
    BY <1>0, <1>8, <2>1, <2>4 DEF setProxy, TypeOK, Quiet
  <2> QED
    BY <1>8, <2>3, <2>4 DEF setProxy
<1>9. CASE UpdateAuto(t)
  <2>1. /\ Val(t) \in Nat /\ pc[t] = "start" /\ my[t].cmd.op = "update"
    BY <1>0, <1>9 DEF UpdateAuto
  <2>2. /\ pc' \in [Threads -> Labels] /\ my' \in [Threads -> Locals]
        /\ pc'[t] = "save" /\ Only(t) /\ Placed(t)'
    BY <1>0, <1>9, <1>s, <2>1 DEF UpdateAuto
  <2> QED
    BY <1>0, <1>9, <2>1, <2>2 DEF UpdateAuto, TypeOK, Quiet
<1> QED
  BY <1>1, <1>2, <1>3, <1>4, <1>5, <1>6, <1>7, <1>8, <1>9 DEF SettingStep

LocationStep(t) ==
    \/ StartWebdav(t) \/ StartFtp(t) \/ Link(t) \/ Unserve(t) \/ RemoveAll(t)
    \/ ListLocations(t) \/ ListLinks(t)
    \/ addWebdavLocation(t) \/ addFtpLocation(t)
    \/ removeWebdavLocation(t) \/ removeFtpLocation(t) \/ UnlockLocations(t)

(* The list that a command reads, which may be cut short, and what it is    *)
(* going to save.                                                           *)
ReadsList(t, p, list, w, q) ==
    /\ q \in {<<<<Served[p], list \cup {Path(t)}>>>>, <<<<Served[p], list \ {Path(t)}>>>>,
              <<<<Port[p], 0>>, <<Served[p], list \ {Path(t)}>>>>}
    /\ my' = [my EXCEPT ![t].pending = q, ![t].list = list, ![t].wiped = w, ![t].ret = "unlock"]
    /\ w <=> list # disk.cfg[Served[p]]
    /\ failures' = (IF w THEN failures + 1 ELSE failures)

LEMMA LocationRead ==
  ASSUME StoreInv, NEW t \in Threads, NEW p \in Protocols,
         AddLocation(t, Served[p]) \/ RemoveLocation(t, Served[p], Port[p])
  PROVE  /\ disk.cfg[Served[p]] \in SUBSET Paths
         /\ \E list \in SUBSET disk.cfg[Served[p]], w \in BOOLEAN : \E q : ReadsList(t, p, list, w, q)
         /\ api' = api \/ \E b \in BOOLEAN : api' = [api EXCEPT !.running[Key(t)] = b]
<1> DEFINE saved == disk.cfg[Served[p]]
<1>0. saved \in SUBSET Paths
  <2>1. disk.cfg \in Properties /\ Served[p] \in ListKeys /\ ListKeys \subseteq Keys
    BY KeysAre DEF StoreInv, TypeOK, Disks, ListKeys
  <2> QED
    BY <2>1 DEF Properties, ValuesOf
<1>p. \A list \in Perhaps(saved, SUBSET saved) : list \in SUBSET saved
  BY PerhapsIs
<1>f. ASSUME NEW list, NEW w \in BOOLEAN, w <=> list # saved, FailsIf(list # saved)
      PROVE  failures' = (IF w THEN failures + 1 ELSE failures)
  BY <1>f DEF FailsIf
<1>1. CASE AddLocation(t, Served[p])
  <2> DEFINE q(list) == <<<<Served[p], list \cup {Path(t)}>>>>
  <2>1. PICK list \in Perhaps(saved, SUBSET saved) :
          /\ my' = [my EXCEPT ![t].pending = q(list), ![t].list = list,
                              ![t].wiped = (list # saved), ![t].ret = "unlock"]
          /\ FailsIf(list # saved)
    BY <1>1 DEF AddLocation
  <2>2. PICK w \in BOOLEAN : w = (list # saved)
    OBVIOUS
  <2>3. my' = [my EXCEPT ![t].pending = q(list), ![t].list = list, ![t].wiped = w,
                         ![t].ret = "unlock"]
    BY <2>1, <2>2
  <2>4. ReadsList(t, p, list, w, q(list))
    BY <1>f, <2>1, <2>2, <2>3 DEF ReadsList
  <2>5. UNCHANGED api
    BY <1>1 DEF AddLocation
  <2> HIDE DEF q
  <2> QED
    BY <1>0, <1>p, <2>4, <2>5
<1>2. CASE RemoveLocation(t, Served[p], Port[p])
  <2> DEFINE left(list) == list \ {Path(t)}
             q(list) == IF left(list) = {} THEN <<<<Port[p], 0>>, <<Served[p], left(list)>>>>
                        ELSE <<<<Served[p], left(list)>>>>
  <2>1. PICK list \in Perhaps(saved, SUBSET saved) :
          /\ my' = [my EXCEPT ![t].pending = q(list), ![t].list = list,
                              ![t].wiped = (list # saved), ![t].ret = "unlock"]
          /\ api' = [api EXCEPT !.running[Key(t)] = @ /\ left(list) # {}]
          /\ FailsIf(list # saved)
    BY <1>2 DEF RemoveLocation
  <2>2. PICK w \in BOOLEAN : w = (list # saved)
    OBVIOUS
  <2>3. my' = [my EXCEPT ![t].pending = q(list), ![t].list = list, ![t].wiped = w,
                         ![t].ret = "unlock"]
    BY <2>1, <2>2
  <2>4. ReadsList(t, p, list, w, q(list))
    BY <1>f, <2>1, <2>2, <2>3 DEF ReadsList
  <2>5. PICK b : api' = [api EXCEPT !.running[Key(t)] = b]
                 /\ b = (api.running[Key(t)] /\ left(list) # {})
    BY <2>1
  <2>6. b \in BOOLEAN
    BY <2>5
  <2> HIDE DEF q
  <2> QED
    BY <1>0, <1>p, <2>4, <2>5, <2>6
<1> QED
  BY <1>1, <1>2

LEMMA LocationsQuiet ==
  ASSUME StoreInv, NEW t \in Threads, LocationStep(t)
  PROVE  TypeOK' /\ Only(t) /\ Placed(t)' /\ Quiet(t)
<1>0. TypeOK /\ Placed(t) /\ my \in [Threads -> Locals]
  BY DEF StoreInv, InCommand, TypeOK
<1> USE DEF AtOp, At
<1>s. /\ "idle" \in Returns /\ "link" \in Returns /\ "unlock" \in Returns
      /\ {"serve", "unserve", "remove-all", "list"} \cap Sessions = {}
      /\ \A p \in Protocols : Port[p] \in Keys \ ListKeys /\ Served[p] \in ListKeys
      /\ ListKeys \subseteq Keys
      /\ {"webdav", "ftp"} = Protocols /\ Protocols \subseteq Mutexes \ {"settings"}
      /\ Locating = {"serve", "unserve"}
      /\ {"link", "list", "links", "unlock"} \subseteq Labels
  BY KeysAre DEF Returns, Labels, Sessions, Protocols, Port, Served, Mutexes, Locating
<1>e. \A k \in ListKeys, l \in SUBSET Paths : <<k, l>> \in Entries
  BY <1>s DEF Entries, ValuesOf
<1>r. /\ Reaches("serve", "link") /\ Reaches("serve", "list") /\ Reaches("serve", "unlock")
      /\ Reaches("unserve", "list") /\ Reaches("unserve", "unlock")
      /\ Reaches("list", "links")
  BY DEF Reaches, Sessions, Locating, Copying, LoginLabels
<1>1. ASSUME NEW p \in Protocols, Key(t) = p, StartServer(t, Port[p])
      PROVE  TypeOK' /\ Only(t) /\ Placed(t)' /\ Quiet(t)
  <2>1. pc[t] = "start" /\ my[t].cmd.op = "serve"
    BY <1>1 DEF StartServer
  <2>2. CASE Goto(t, "link") /\ UNCHANGED <<my, api>>
    <3>1. pc' \in [Threads -> Labels] /\ pc'[t] = "link" /\ Only(t) /\ Placed(t)'
      BY <1>0, <1>s, <1>r, <2>1, <2>2, GoesOn
    <3> QED
      BY <1>0, <1>1, <2>1, <2>2, <3>1 DEF StartServer, TypeOK, Quiet
  <2>3. CASE /\ api' = [api EXCEPT !.running[Key(t)] = TRUE]
             /\ ThenSave(t, <<<<Port[p], 1>>>>, "link")
    <3>1. /\ pc' \in [Threads -> Labels] /\ my' \in [Threads -> Locals]
          /\ pc'[t] = "save" /\ Only(t) /\ Placed(t)'
      BY <1>0, <1>s, <1>r, <2>1, <2>3, ThenSaveTyped, SettingEntries
    <3>2. api' \in Apis
      BY <1>0, <1>1, <2>3 DEF TypeOK, Apis
    <3> QED
      BY <1>0, <1>1, <2>1, <3>1, <3>2 DEF StartServer, TypeOK, Quiet
  <2>4. CASE Finish(t) /\ UNCHANGED api
    BY <1>0, <1>1, <2>1, <2>4, FinishTyped DEF StartServer, TypeOK, Quiet
  <2> QED
    BY <1>1, <2>2, <2>3, <2>4 DEF StartServer
<1>2. CASE Link(t)
  <2>1. /\ pc[t] = "link" /\ my[t].cmd.op = "serve" /\ Key(t) \in Protocols /\ Path(t) \in Paths
    BY <1>0, <1>2, <1>s, CommandIs DEF Link, Placed, Reaches
  <2>2. api' \in Apis
    BY <1>0, <1>2, <2>1 DEF Link, TypeOK, Apis
  <2>3. pc' \in [Threads -> Labels] /\ pc'[t] = "list" /\ Only(t) /\ Placed(t)'
    BY <1>0, <1>2, <1>s, <1>r, <2>1, GoesOn DEF Link
  <2> QED
    BY <1>0, <1>2, <2>1, <2>2, <2>3 DEF Link, TypeOK, Quiet
<1>3. CASE Unserve(t)
  <2>1. /\ pc[t] = "start" /\ my[t].cmd.op = "unserve" /\ Key(t) \in Protocols
    BY <1>0, <1>3, <1>s, CommandIs DEF Unserve
  <2>2. api' \in Apis
    BY <1>0, <1>3, <2>1 DEF Unserve, TypeOK, Apis
  <2>3. pc' \in [Threads -> Labels] /\ pc'[t] = "list" /\ Only(t) /\ Placed(t)'
    BY <1>0, <1>3, <1>s, <1>r, <2>1, GoesOn DEF Unserve
  <2> QED
    BY <1>0, <1>3, <2>1, <2>2, <2>3 DEF Unserve, TypeOK, Quiet
<1>4. CASE RemoveAll(t)
  <2>1. /\ pc[t] = "start" /\ my[t].cmd.op = "remove-all" /\ Key(t) \in Protocols
    BY <1>0, <1>4, <1>s, CommandIs DEF RemoveAll
  <2>2. /\ <<<<Served[Key(t)], {}>>, <<Port[Key(t)], 0>>>> \in Seq(Entries)
        /\ <<<<Served[Key(t)], {}>>, <<Port[Key(t)], 0>>>> # <<>>
    BY <1>s, <1>e, <2>1, SettingEntries
  <2>3. /\ pc' \in [Threads -> Labels] /\ my' \in [Threads -> Locals]
        /\ pc'[t] = "save" /\ Only(t) /\ Placed(t)'
    BY <1>0, <1>4, <1>s, <2>1, <2>2, ThenSaveTyped DEF RemoveAll
  <2>4. api' \in Apis
    BY <1>0, <1>4, <2>1 DEF RemoveAll, TypeOK, Apis
  <2> QED
    BY <1>0, <1>4, <2>1, <2>3, <2>4 DEF RemoveAll, TypeOK, Quiet
<1>5. CASE ListLocations(t)
  <2>1. /\ pc[t] = "start" /\ my[t].cmd.op = "list" /\ Key(t) \in Protocols
    BY <1>0, <1>5, <1>s, CommandIs DEF ListLocations
  <2>2. /\ my' \in [Threads -> Locals] /\ \A u \in Threads \ {t} : my'[u] = my[u]
        /\ my'[t].cmd = my[t].cmd /\ my'[t].pending = my[t].pending
        /\ my'[t].ret = my[t].ret
    <3>1. api.allowed[Key(t)] \in SUBSET Paths
      BY <1>0, <2>1 DEF TypeOK, Apis
    <3>2. [my[t] EXCEPT !.list = api.allowed[Key(t)]] \in Locals
      BY <1>0, <3>1, FieldsSet
    <3> QED
      BY <1>0, <1>5, <3>2 DEF ListLocations, Locals
  <2>3. pc' \in [Threads -> Labels] /\ pc'[t] = "links" /\ Only(t) /\ Placed(t)'
    BY <1>0, <1>5, <1>s, <1>r, <2>1, <2>2, GoesOn DEF ListLocations
  <2> QED
    BY <1>0, <1>5, <2>1, <2>2, <2>3 DEF ListLocations, TypeOK, Quiet
<1>6. CASE ListLinks(t)
  <2>1. pc[t] = "links" /\ my[t].cmd.op = "list" /\ Key(t) \in Protocols
    BY <1>0, <1>6, CommandIs DEF ListLinks, Placed, Reaches
  <2>2. api' \in Apis
    BY <1>0, <1>6, <2>1, FieldsTyped DEF ListLinks, TypeOK, Apis
  <2> QED
    BY <1>0, <1>6, <2>1, <2>2, FinishTyped DEF ListLinks, TypeOK, Quiet
<1>7. ASSUME NEW p \in Protocols, Key(t) = p,
             AddLocation(t, Served[p]) \/ RemoveLocation(t, Served[p], Port[p])
      PROVE  TypeOK' /\ Only(t) /\ Placed(t)' /\ Quiet(t)
  <2>1. pc[t] = "list" /\ my[t].cmd.op \in Locating /\ Path(t) \in Paths
    <3>1. pc[t] = "list" /\ my[t].cmd.op \in Locating
      BY <1>7, <1>s DEF AddLocation, RemoveLocation
    <3> QED
      BY <3>1, <1>s, CommandIs
  <2>l. PICK list \in SUBSET Paths, w \in BOOLEAN : \E q : ReadsList(t, p, list, w, q)
    <3>1. PICK list \in SUBSET disk.cfg[Served[p]], w \in BOOLEAN : \E q : ReadsList(t, p, list, w, q)
      BY <1>7, LocationRead
    <3>2. list \in SUBSET Paths
      BY <1>7, LocationRead
    <3> QED
      BY <3>1, <3>2
  <2>2. PICK q : ReadsList(t, p, list, w, q)
    BY <2>l
  <2>3. q \in Seq(Entries) /\ q # <<>>
    <3> DEFINE with == list \cup {Path(t)}
               left == list \ {Path(t)}
    <3>1. with \in SUBSET Paths /\ left \in SUBSET Paths
      BY <2>1, <2>2
    <3>2. q \in {<<<<Served[p], with>>>>, <<<<Served[p], left>>>>,
                 <<<<Port[p], 0>>, <<Served[p], left>>>>}
      BY <2>2 DEF ReadsList
    <3> HIDE DEF with, left
    <3>3. /\ <<Served[p], with>> \in Entries /\ <<Served[p], left>> \in Entries
          /\ <<Port[p], 0>> \in Entries
      BY <1>e, <1>s, <3>1, SettingEntries
    <3> QED
      BY <3>2, <3>3, SettingEntries
  <2>4. /\ my' \in [Threads -> Locals] /\ \A u \in Threads \ {t} : my'[u] = my[u]
        /\ my'[t].cmd = my[t].cmd /\ my'[t].pending = q /\ my'[t].ret = "unlock"
    <3>1. [my[t] EXCEPT !.pending = q, !.list = list, !.wiped = w, !.ret = "unlock"] \in Locals
      BY <1>0, <1>s, <2>2, <2>3, FieldsSet
    <3> QED
      BY <1>0, <2>2, <3>1 DEF Locals, ReadsList
  <2>5. pc' \in [Threads -> Labels] /\ pc'[t] = "save" /\ Only(t)
    <3>1. "save" \in Labels /\ Goto(t, "save")
      BY <1>7 DEF AddLocation, RemoveLocation, Labels
    <3> QED
      BY <1>0, <2>4, <3>1, GotoTyped DEF Only
  <2>6. Placed(t)'
    BY <1>0, <1>s, <1>r, <2>1, <2>3, <2>4, <2>5 DEF Placed, Reaches, LoginLabels
  <2>7. /\ locks' \in [Mutexes -> Threads \cup {Free}]
        /\ locks'["settings"] = locks["settings"]
    <3>1. /\ p \in Mutexes \ {"settings"} /\ locks \in [Mutexes -> Threads \cup {Free}]
          /\ "settings" \in Mutexes
      BY <1>0, <1>s DEF TypeOK, Mutexes
    <3>2. locks' = [locks EXCEPT ![p] = t]
      BY <1>7 DEF AddLocation, RemoveLocation, Acquire
    <3> QED
      BY <3>1, <3>2
  <2>8. api' \in Apis
    <3>1. ASSUME NEW b \in BOOLEAN, api' = [api EXCEPT !.running[p] = b] PROVE api' \in Apis
      BY <1>0, <3>1 DEF TypeOK, Apis
    <3> QED
      BY <1>0, <1>7, <3>1, LocationRead DEF TypeOK
  <2>9. failures' \in Nat
    BY <1>0, <2>2 DEF ReadsList, TypeOK
  <2> QED
    BY <1>0, <1>7, <2>1, <2>4, <2>5, <2>6, <2>7, <2>8, <2>9
       DEF AddLocation, RemoveLocation, TypeOK, Quiet
<1>8. CASE UnlockLocations(t)
  <2>1. pc[t] = "unlock" /\ my[t].cmd.op \in Locating /\ Key(t) \in Protocols
    BY <1>0, <1>8, <1>s, CommandIs DEF UnlockLocations, Placed, Reaches
  <2>2. /\ locks' \in [Mutexes -> Threads \cup {Free}]
        /\ locks'["settings"] = locks["settings"]
    BY <1>0, <1>8, <1>s, <2>1 DEF UnlockLocations, Release, TypeOK
  <2> QED
    BY <1>0, <1>8, <2>1, <2>2, FinishTyped DEF UnlockLocations, TypeOK, Quiet
<1> QED
  BY <1>1, <1>2, <1>3, <1>4, <1>5, <1>6, <1>7, <1>8, <1>s
     DEF LocationStep, StartWebdav, StartFtp, addWebdavLocation, addFtpLocation, removeWebdavLocation,
         removeFtpLocation, Port, Served

BackupStep(t) ==
    \/ createOrModifyBackup(t) \/ RegisterBackup(t) \/ RefusedBackup(t)
    \/ UnlockBackups(t) \/ FindBackup(t) \/ BackupNotFound(t) \/ RemoveScheduledCopy(t)
    \/ EraseBackup(t) \/ EraseStoppedBackup(t)

LEMMA BackupsQuiet ==
  ASSUME StoreInv, NEW t \in Threads, BackupStep(t)
  PROVE  TypeOK' /\ Only(t) /\ Placed(t)' /\ Quiet(t)
<1>0. TypeOK /\ Placed(t) /\ my \in [Threads -> Locals]
  BY DEF StoreInv, InCommand, TypeOK
<1> USE DEF AtOp, At
<1>s. /\ "saveBackups" \in Returns
      /\ {"backup", "backup-delete"} = Copying /\ Copying \cap Sessions = {}
      /\ {"register", "refused", "saveBackups", "unlockBackups", "remove", "erase",
          "eraseStopped", "webdav"} \subseteq Labels
      /\ {"settings", "backups"} \subseteq Mutexes
      /\ "firstBackupConfigured" \in Keys \ ListKeys
  BY KeysAre DEF Returns, Labels, LoginLabels, Sessions, Copying, Mutexes
<1>r. /\ Reaches("backup", "register") /\ Reaches("backup", "refused")
      /\ Reaches("backup", "saveBackups") /\ Reaches("backup", "unlockBackups")
      /\ Reaches("backup-delete", "remove") /\ Reaches("backup-delete", "erase")
      /\ Reaches("backup-delete", "eraseStopped") /\ Reaches("backup-delete", "saveBackups")
      /\ Reaches("backup-delete", "unlockBackups") /\ Reaches("login", "webdav")
  BY DEF Reaches, Sessions, Locating, Copying, LoginLabels
<1>b. NoBackup \in Backups /\ \A n \in Nat : Registered(n) \in Backups
  BY DEF NoBackup, Backups, Registered
<1>1. CASE createOrModifyBackup(t)
  <2> DEFINE num == IF Val(t) = 0 THEN api.backups[Path(t)] ELSE Val(t)
  <2>1. /\ pc[t] = "start" /\ my[t].cmd.op = "backup" /\ Path(t) \in Paths /\ num \in Nat
    <3>1. pc[t] = "start" /\ my[t].cmd.op = "backup"
      BY <1>1 DEF createOrModifyBackup
    <3>2. Path(t) \in Paths /\ Val(t) \in Nat
      BY <3>1, <1>s, CommandIs
    <3> QED
      BY <1>0, <3>1, <3>2 DEF TypeOK, Apis
  <2>2. CASE Finish(t) /\ UNCHANGED api
    BY <1>0, <1>1, <2>1, <2>2, FinishTyped DEF createOrModifyBackup, TypeOK, Quiet
  <2>3. ASSUME NEW l \in {"register", "refused"}, my' = [my EXCEPT ![t].val = num], Goto(t, l),
               api' \in Apis
        PROVE  TypeOK' /\ Only(t) /\ Placed(t)' /\ Quiet(t)
    <3> HIDE DEF num
    <3>1. [my[t] EXCEPT !.val = num] \in Locals
      BY <1>0, <2>1, FieldsSet
    <3>2. /\ my' \in [Threads -> Locals] /\ \A u \in Threads \ {t} : my'[u] = my[u]
          /\ my'[t].cmd = my[t].cmd /\ my'[t].pending = my[t].pending
          /\ my'[t].ret = my[t].ret
      BY <1>0, <2>3, <3>1 DEF Locals
    <3>3. pc' \in [Threads -> Labels] /\ pc'[t] = l /\ Only(t) /\ Placed(t)'
      BY <1>0, <1>s, <1>r, <2>1, <2>3, <3>2, GoesOn
    <3> QED
      BY <1>0, <1>1, <2>1, <2>3, <3>2, <3>3 DEF createOrModifyBackup, TypeOK, Quiet
  <2>4. CASE api' = [api EXCEPT !.backups[Path(t)] = num]
    <3>1. api' \in Apis
      <4> HIDE DEF num
      <4> QED
        BY <1>0, <2>1, <2>4 DEF TypeOK, Apis
    <3> QED
      BY <1>1, <2>2, <2>3, <2>4, <3>1, <1>0 DEF createOrModifyBackup, TypeOK
  <2>5. CASE UNCHANGED api
    BY <1>1, <2>2, <2>3, <2>5, <1>0 DEF createOrModifyBackup, TypeOK
  <2> QED
    BY <1>1, <2>4, <2>5 DEF createOrModifyBackup
<1>2. CASE RegisterBackup(t)
  <2>1. /\ pc[t] = "register" /\ my[t].cmd.op = "backup" /\ Path(t) \in Paths /\ my[t].val \in Nat
    BY <1>0, <1>2, <1>s, CommandIs, FieldsTyped DEF RegisterBackup, Placed, Reaches
  <2>2. mem' \in Memories
    BY <1>0, <1>2, <1>b, <2>1 DEF RegisterBackup, TypeOK, Memories
  <2>3. CASE ThenSave(t, <<<<"firstBackupConfigured", 1>>>>, "saveBackups")
    <3>1. /\ pc' \in [Threads -> Labels] /\ my' \in [Threads -> Locals]
          /\ pc'[t] = "save" /\ Only(t) /\ Placed(t)'
      BY <1>0, <1>s, <1>r, <2>1, <2>3, ThenSaveTyped, SettingEntries
    <3> QED
      BY <1>0, <1>2, <2>1, <2>2, <3>1 DEF RegisterBackup, TypeOK, Quiet
  <2>4. CASE Goto(t, "saveBackups") /\ UNCHANGED my
    <3>1. pc' \in [Threads -> Labels] /\ pc'[t] = "saveBackups" /\ Only(t) /\ Placed(t)'
      BY <1>0, <1>s, <1>r, <2>1, <2>4, GoesOn
    <3> QED
      BY <1>0, <1>2, <2>1, <2>2, <2>4, <3>1 DEF RegisterBackup, TypeOK, Quiet
  <2> QED
    BY <1>2, <2>3, <2>4 DEF RegisterBackup
<1>3. CASE RefusedBackup(t)
  <2>1. /\ pc[t] = "refused" /\ my[t].cmd.op = "backup" /\ Path(t) \in Paths /\ my[t].val \in Nat
    BY <1>0, <1>3, <1>s, CommandIs, FieldsTyped DEF RefusedBackup, Placed, Reaches
  <2>2. mem' \in Memories
    BY <1>0, <1>3, <2>1 DEF RefusedBackup, TypeOK, Memories, Backups
  <2> QED
    BY <1>0, <1>3, <2>1, <2>2, FinishTyped DEF RefusedBackup, TypeOK, Quiet
<1>4. CASE UnlockBackups(t)
  <2>1. pc[t] = "unlockBackups" /\ my[t].cmd.op \in Copying \cup {"login"} /\ my[t].cmd.op # "none"
    BY <1>0, <1>4, CommandIs DEF UnlockBackups, Placed, Reaches
  <2>2. /\ locks' \in [Mutexes -> Threads \cup {Free}]
        /\ locks'["settings"] = locks["settings"]
    BY <1>0, <1>4, <1>s DEF UnlockBackups, Release, TypeOK
  <2>3. CASE my[t].cmd.op = "login" /\ Goto(t, "webdav") /\ UNCHANGED my
    <3>1. pc' \in [Threads -> Labels] /\ pc'[t] = "webdav" /\ Only(t) /\ Placed(t)'
      BY <1>0, <1>s, <1>r, <2>1, <2>3, GoesOn
    <3> QED
      BY <1>0, <1>4, <2>1, <2>2, <2>3, <3>1 DEF UnlockBackups, TypeOK, Quiet
  <2>4. CASE Finish(t)
    BY <1>0, <1>4, <2>1, <2>2, <2>4, FinishTyped DEF UnlockBackups, TypeOK, Quiet
  <2> QED
    BY <1>4, <2>3, <2>4 DEF UnlockBackups
<1>5. CASE FindBackup(t)
  <2>1. pc[t] = "start" /\ my[t].cmd.op = "backup-delete" /\ Path(t) \in Paths
    BY <1>0, <1>5, <1>s, CommandIs DEF FindBackup
  <2>2. PICK l \in {"remove", "eraseStopped"} : Goto(t, l)
    BY <1>5 DEF FindBackup
  <2>3. /\ my' \in [Threads -> Locals] /\ \A u \in Threads \ {t} : my'[u] = my[u]
        /\ my'[t].cmd = my[t].cmd /\ my'[t].pending = my[t].pending
        /\ my'[t].ret = my[t].ret
    <3>1. mem.backups[Path(t)].tagged \in BOOLEAN
      BY <1>0, <2>1 DEF TypeOK, Memories, Backups
    <3>2. [my[t] EXCEPT !.found = mem.backups[Path(t)].tagged] \in Locals
      BY <1>0, <3>1, FieldsSet
    <3> QED
      BY <1>0, <1>5, <3>2 DEF FindBackup, Locals
  <2>4. pc' \in [Threads -> Labels] /\ pc'[t] = l /\ Only(t) /\ Placed(t)'
    BY <1>0, <1>s, <1>r, <2>1, <2>2, <2>3, GoesOn
  <2> QED
    BY <1>0, <1>5, <2>1, <2>3, <2>4 DEF FindBackup, TypeOK, Quiet
<1>6. CASE BackupNotFound(t)
  BY <1>0, <1>6, FinishTyped DEF BackupNotFound, TypeOK, Quiet
<1>7. CASE RemoveScheduledCopy(t)
  <2>1. pc[t] = "remove" /\ my[t].cmd.op = "backup-delete" /\ Path(t) \in Paths
    BY <1>0, <1>7, <1>s, CommandIs DEF RemoveScheduledCopy, Placed, Reaches
  <2>2. api' \in Apis
    <3>1. UNCHANGED api \/ api' = [api EXCEPT !.backups[Path(t)] = 0]
      BY <1>7 DEF RemoveScheduledCopy
    <3>2. CASE api' = [api EXCEPT !.backups[Path(t)] = 0]
      BY <1>0, <2>1, <3>2 DEF TypeOK, Apis
    <3> QED
      BY <1>0, <3>1, <3>2 DEF TypeOK
  <2>3. CASE Goto(t, "erase") /\ UNCHANGED my
    <3>1. pc' \in [Threads -> Labels] /\ pc'[t] = "erase" /\ Only(t) /\ Placed(t)'
      BY <1>0, <1>s, <1>r, <2>1, <2>3, GoesOn
    <3> QED
      BY <1>0, <1>7, <2>1, <2>2, <2>3, <3>1 DEF RemoveScheduledCopy, TypeOK, Quiet
  <2>4. CASE Finish(t)
    BY <1>0, <1>7, <2>1, <2>2, <2>4, FinishTyped DEF RemoveScheduledCopy, TypeOK, Quiet
  <2> QED
    BY <1>7, <2>3, <2>4 DEF RemoveScheduledCopy
<1>8. CASE EraseBackup(t)
  <2>1. pc[t] = "erase" /\ my[t].cmd.op = "backup-delete" /\ Path(t) \in Paths
    BY <1>0, <1>8, <1>s, CommandIs DEF EraseBackup, Placed, Reaches
  <2>2. mem' \in Memories
    BY <1>0, <1>8, <1>b, <2>1 DEF EraseBackup, TypeOK, Memories
  <2>3. pc' \in [Threads -> Labels] /\ pc'[t] = "saveBackups" /\ Only(t) /\ Placed(t)'
    BY <1>0, <1>s, <1>r, <1>8, <2>1, GoesOn DEF EraseBackup
  <2> QED
    BY <1>0, <1>8, <2>1, <2>2, <2>3 DEF EraseBackup, TypeOK, Quiet
<1>9. CASE EraseStoppedBackup(t)
  <2>1. pc[t] = "eraseStopped" /\ my[t].cmd.op = "backup-delete" /\ Path(t) \in Paths
    BY <1>0, <1>9, <1>s, CommandIs DEF EraseStoppedBackup, Placed, Reaches
  <2>2. mem' \in Memories
    BY <1>0, <1>9, <1>b, <2>1 DEF EraseStoppedBackup, TypeOK, Memories
  <2>3. pc' \in [Threads -> Labels] /\ pc'[t] = "saveBackups" /\ Only(t) /\ Placed(t)'
    BY <1>0, <1>s, <1>r, <1>9, <2>1, GoesOn DEF EraseStoppedBackup
  <2>4. /\ locks' \in [Mutexes -> Threads \cup {Free}]
        /\ locks'["settings"] = locks["settings"]
    BY <1>0, <1>9, <1>s DEF EraseStoppedBackup, TypeOK
  <2> QED
    BY <1>0, <1>9, <2>1, <2>2, <2>3, <2>4 DEF EraseStoppedBackup, TypeOK, Quiet
<1> QED
  BY <1>1, <1>2, <1>3, <1>4, <1>5, <1>6, <1>7, <1>8, <1>9 DEF BackupStep

-----------------------------------------------------------------------------
(* The steps that begin a write, those that cannot, and the one that ends it *)

Opens(t) ==
    /\ up' = up
    /\ locks["settings"] = Free /\ locks'["settings"] = t
    /\ pc[t] # "writing" /\ pc'[t] = "writing"
    /\ disk'.writing \in Files
    /\ disk'.cfg = IF disk'.writing = "cfg" THEN NoValue ELSE disk.cfg
    /\ unsettled \subseteq unsettled'

Cleared == [k \in Keys |-> IF k \in persistentmcmdconfigurationkeys
                           THEN disk.cfg[k] ELSE NoValue[k]]

SavesOther(t) == SaveBackups(t) \/ LogoutBackups(t) \/ LogoutSyncs(t)

Rewrites(t) == pc'[t] = "writing" /\ (saveProperty(t) \/ clearConfigurationFile(t))

OpensOther(t) ==
    \/ pc'[t] = "writing" /\ (loadsyncs(t) \/ SavesOther(t))
    \/ MigrateAnswer(t) /\ ~UNCHANGED pc

Skips(t) == /\ pc'[t] # "writing"
            /\ saveProperty(t) \/ clearConfigurationFile(t) \/ SavesOther(t)

(* The locals that neither a write nor its end touches. *)
Rest(l, m) ==
    /\ l.cmd = m.cmd /\ l.snap = m.snap /\ l.list = m.list /\ l.i = m.i
    /\ l.val = m.val /\ l.sent = m.sent /\ l.found = m.found

Same(l, m) == Rest(l, m) /\ l.pending = m.pending /\ l.ret = m.ret

(* Where a thread goes on with the locals l after a write. *)
GoesAfter(t, l) ==
    /\ pc'[t] = After(l) /\ pc'[t] # "writing"
    /\ pc'[t] = "idle" => my'[t] = NoLocals
    /\ pc'[t] # "idle" => Same(my'[t], l)

Skipped(t, l) ==
    /\ up' = up
    /\ locks["settings"] = Free /\ locks'["settings"] = Free
    /\ pc[t] # "writing" /\ disk' = disk /\ failures' = failures + 1
    /\ unsettled \subseteq unsettled'
    /\ GoesAfter(t, l)
    /\ pc'[t] # "idle" => my'[t].wiped = l.wiped

(* What is known of the locals with which a command writes. *)
Writable(t, l) ==
    /\ l \in Locals /\ l.cmd = my[t].cmd /\ pc[t] \notin {"idle", "writing"}
    /\ l.ret # "idle" => Reaches(l.cmd.op, l.ret)
    /\ l.cmd.op \in Sessions => l.pending = <<>>

LEMMA PlacedAfter ==
  ASSUME StoreInv, NEW t \in Threads, NEW l, Writable(t, l), GoesAfter(t, l)
  PROVE  Placed(t)'
<1>0. /\ l.ret \in Returns /\ l.cmd.op # "none"
  BY DEF Writable, Locals, StoreInv, InCommand, Placed, Reaches
<1>1. CASE After(l) = "idle"
  BY <1>1 DEF GoesAfter, Placed, NoLocals, NoCommand, Reaches, LoginLabels, Sessions, Locating,
     Copying
<1>2. CASE l.pending # <<>>
  <2>1. pc'[t] = "save" /\ Same(my'[t], l)
    BY <1>2 DEF GoesAfter, After
  <2> QED
    BY <1>0, <1>2, <2>1 DEF Writable, Placed, Same, Rest, Reaches, LoginLabels
<1>3. CASE After(l) # "idle" /\ l.pending = <<>>
  <2>1. pc'[t] = l.ret /\ Same(my'[t], l) /\ l.ret \notin {"idle", "save", "writing", "set", "push"}
    BY <1>0, <1>3 DEF GoesAfter, After, Returns
  <2> QED
    BY <1>3, <2>1 DEF Writable, Placed, Same, Rest
<1> QED
  BY <1>1, <1>2, <1>3

LEMMA BeginWriteTyped ==
  ASSUME StoreInv, NEW t \in Threads, NEW file \in Files, NEW l, Writable(t, l),
         BeginWrite(t, file, l), up' = up, unsettled \subseteq unsettled'
  PROVE  /\ disk' \in Disks /\ my' \in [Threads -> Locals] /\ pc' \in [Threads -> Labels]
         /\ locks' \in [Mutexes -> Threads \cup {Free}]
         /\ my'[t] = l /\ Only(t) /\ Placed(t)' /\ Opens(t) /\ disk'.writing = file
<1>0. TypeOK /\ l \in Locals /\ pc[t] # "writing"
  BY DEF StoreInv, Writable
<1>1. /\ disk' \in Disks /\ disk'.writing = file
      /\ disk'.cfg = IF file = "cfg" THEN NoValue ELSE disk.cfg
  <2>1. CASE file = "cfg"
    <3>1. disk' = [disk EXCEPT !.cfg = NoValue, !.writing = "cfg"]
      BY <2>1 DEF BeginWrite, Emptied
    <3> QED
      BY <1>0, <2>1, <3>1, ConstantsTyped DEF TypeOK, Disks, Files
  <2>2. CASE file = "syncs"
    <3>1. disk' = [disk EXCEPT !.syncs = {}, !.writing = "syncs"]
      BY <2>2 DEF BeginWrite, Emptied
    <3> QED
      BY <1>0, <2>2, <3>1 DEF TypeOK, Disks, Files
  <2>3. CASE file = "backups"
    <3>1. disk' = [disk EXCEPT !.backups = [f \in Paths |-> 0], !.writing = "backups"]
      BY <2>3 DEF BeginWrite, Emptied
    <3> QED
      BY <1>0, <2>3, <3>1 DEF TypeOK, Disks, Files
  <2> QED
    BY <2>1, <2>2, <2>3 DEF Files
<1>2. my' \in [Threads -> Locals] /\ my'[t] = l /\ \A u \in Threads \ {t} : my'[u] = my[u]
  BY <1>0 DEF BeginWrite, TypeOK
<1>3. "writing" \in Labels /\ Goto(t, "writing")
  BY DEF Labels, BeginWrite
<1>4. /\ locks["settings"] = Free /\ locks'["settings"] = t
      /\ locks' \in [Mutexes -> Threads \cup {Free}]
  BY <1>0 DEF BeginWrite, Acquire, TypeOK, Mutexes
<1>5. Only(t) /\ Opens(t) /\ pc' \in [Threads -> Labels] /\ pc'[t] = "writing"
  BY <1>0, <1>1, <1>2, <1>3, <1>4, GotoTyped DEF Only, Opens
<1>6. Placed(t)'
  <2>1. l.cmd.op # "none"
    BY DEF Writable, StoreInv, InCommand, Placed, Reaches
  <2> QED
    BY <1>2, <1>5, <2>1 DEF Writable, Placed, Reaches, LoginLabels
<1> QED
  BY <1>1, <1>2, <1>4, <1>5, <1>6

LEMMA CannotOpenTyped ==
  ASSUME StoreInv, NEW t \in Threads, NEW file \in Files, NEW l, Writable(t, l),
         CannotOpen(t, file, l), up' = up, locks'["settings"] = locks["settings"]
  PROVE  /\ my' \in [Threads -> Locals] /\ pc' \in [Threads -> Labels]
         /\ Only(t) /\ Placed(t)' /\ Skipped(t, l) /\ failures' \in Nat
         /\ unsettled' = unsettled \cup Unsaved(file, Contents(l)[file], disk[file])
<1>0. TypeOK /\ l \in Locals /\ pc[t] # "writing"
  BY DEF StoreInv, Writable
<1>1. After(l) \in Labels \ {"writing"}
  BY <1>0 DEF After, Locals, Returns, Labels
<1>2. /\ pc' \in [Threads -> Labels] /\ pc'[t] = After(l)
      /\ \A u \in Threads \ {t} : pc'[u] = pc[u]
  BY <1>0, <1>1, GotoTyped DEF CannotOpen
<1>3. /\ my' \in [Threads -> Locals] /\ \A u \in Threads \ {t} : my'[u] = my[u]
      /\ my'[t] = IF After(l) = "idle" THEN NoLocals ELSE l
  BY <1>0, ConstantsTyped DEF CannotOpen, TypeOK
<1>4. Skipped(t, l) /\ failures' \in Nat
  BY <1>0, <1>1, <1>2, <1>3, FailsIs DEF CannotOpen, Skipped, GoesAfter, Same, Rest
<1>5. Placed(t)'
  BY <1>4, PlacedAfter DEF Skipped
<1> QED
  BY <1>2, <1>3, <1>4, <1>5 DEF CannotOpen, Only

(* Rewriting megacmd.cfg. *)
Rewritten(t, whole, parts, l) ==
    /\ Opens(t) /\ disk'.writing = "cfg"
    /\ Same(my'[t], l) /\ my'[t].wiped = l.wiped
    /\ my'[t].buf \in parts \cup {whole}
    /\ ~my'[t].lost => my'[t].buf = whole /\ failures' = failures
    /\ my'[t].lost => failures' = failures + 1
    /\ \A k \in Keys : my'[t].buf[k] # whole[k] => k \in unsettled'

NotRewritten(t, whole, l) ==
    /\ Skipped(t, l)
    /\ \A k \in Keys : disk.cfg[k] # whole[k] => k \in unsettled'

LEMMA RewriteTyped ==
  ASSUME StoreInv, NEW t \in Threads, NEW whole \in Properties, NEW parts \in SUBSET Properties,
         NEW l, Writable(t, l), Rewrite(t, whole, parts, l), up' = up
  PROVE  /\ disk' \in Disks /\ my' \in [Threads -> Locals] /\ pc' \in [Threads -> Labels]
         /\ locks' \in [Mutexes -> Threads \cup {Free}] /\ failures' \in Nat
         /\ Only(t) /\ Placed(t)'
         /\ pc'[t] = "writing" => Rewritten(t, whole, parts, l)
         /\ pc'[t] # "writing" => NotRewritten(t, whole, l)
<1>0. TypeOK /\ l \in Locals /\ DOMAIN whole = Keys
  BY DEF StoreInv, Writable, Properties
<1>w. ASSUME NEW part \in Properties, NEW b \in BOOLEAN
      PROVE  LET m == [l EXCEPT !.buf = part, !.lost = b]
             IN  /\ Writable(t, m) /\ Same(m, l) /\ m.wiped = l.wiped
                 /\ m.buf = part /\ m.lost = b
  <2> DEFINE m == [l EXCEPT !.buf = part, !.lost = b]
  <2>1. m \in Locals
    BY <1>0, FieldsSet
  <2>2. Same(m, l) /\ m.wiped = l.wiped /\ m.buf = part /\ m.lost = b
    BY <1>0 DEF Same, Rest, Locals
  <2> HIDE DEF m
  <2>3. Writable(t, m)
    BY <2>1, <2>2 DEF Writable, Same, Rest
  <2> QED
    BY <2>2, <2>3 DEF m
<1>1. ASSUME NEW part \in Perhaps(whole, parts),
             BeginWrite(t, "cfg", [l EXCEPT !.buf = part, !.lost = (part # whole)]),
             unsettled' = unsettled \cup Differing(whole, part), FailsIf(part # whole)
      PROVE  /\ disk' \in Disks /\ my' \in [Threads -> Locals] /\ pc' \in [Threads -> Labels]
             /\ locks' \in [Mutexes -> Threads \cup {Free}] /\ failures' \in Nat
             /\ Only(t) /\ Placed(t)' /\ Rewritten(t, whole, parts, l)
  <2>1. part \in Properties /\ part \in parts \cup {whole}
    BY PerhapsIs
  <2>2. PICK b \in BOOLEAN : b <=> part # whole
    OBVIOUS
  <2>3. [l EXCEPT !.buf = part, !.lost = (part # whole)] = [l EXCEPT !.buf = part, !.lost = b]
    <3>1. (part # whole) = b
      BY <2>2
    <3> QED
      BY <3>1
  <2> DEFINE m == [l EXCEPT !.buf = part, !.lost = b]
  <2>4. /\ Writable(t, m) /\ Same(m, l) /\ m.wiped = l.wiped /\ m.buf = part /\ m.lost = b
        /\ BeginWrite(t, "cfg", m)
    BY <1>1, <1>w, <2>1, <2>3
  <2> HIDE DEF m
  <2>5. /\ disk' \in Disks /\ my' \in [Threads -> Locals] /\ pc' \in [Threads -> Labels]
        /\ locks' \in [Mutexes -> Threads \cup {Free}]
        /\ my'[t] = m /\ Only(t) /\ Placed(t)' /\ Opens(t) /\ disk'.writing = "cfg"
    BY <1>1, <2>4, BeginWriteTyped DEF Files
  <2>6. \A k \in Keys : part[k] # whole[k] => k \in unsettled'
    BY <1>0, <1>1, DifferingIs
  <2>7. failures' \in Nat /\ failures' = (IF part # whole THEN failures + 1 ELSE failures)
    BY <1>0, <1>1, FailsIs
  <2>8. Rewritten(t, whole, parts, l)
    BY <2>1, <2>2, <2>4, <2>5, <2>6, <2>7 DEF Rewritten
  <2> QED
    BY <2>5, <2>7, <2>8
<1>2. CASE CannotOpen(t, "cfg", [l EXCEPT !.buf = whole, !.lost = FALSE]) /\ UNCHANGED locks
  <2> DEFINE m == [l EXCEPT !.buf = whole, !.lost = FALSE]
  <2>1. Writable(t, m) /\ Same(m, l) /\ m.wiped = l.wiped /\ m.buf = whole
    BY <1>w
  <2>2. CannotOpen(t, "cfg", m)
    BY <1>2
  <2> HIDE DEF m
  <2>3. /\ my' \in [Threads -> Locals] /\ pc' \in [Threads -> Labels]
        /\ Only(t) /\ Placed(t)' /\ Skipped(t, m) /\ failures' \in Nat
        /\ unsettled' = unsettled \cup Unsaved("cfg", Contents(m)["cfg"], disk["cfg"])
    BY <1>2, <2>1, <2>2, CannotOpenTyped DEF Files
  <2>4. Contents(m)["cfg"] = whole /\ disk["cfg"] = disk.cfg
    BY <2>1 DEF Contents
  <2>5. \A k \in Keys : disk.cfg[k] # whole[k] => k \in unsettled'
    BY <1>0, <2>3, <2>4, DifferingIs DEF Unsaved
  <2>6. Skipped(t, l)
    BY <2>1, <2>3 DEF Skipped, GoesAfter, After, Same, Rest
  <2>7. disk' \in Disks /\ locks' \in [Mutexes -> Threads \cup {Free}]
    BY <1>0, <1>2 DEF CannotOpen, TypeOK
  <2>8. pc'[t] # "writing"
    BY <2>6 DEF Skipped, GoesAfter
  <2> QED
    BY <2>3, <2>5, <2>6, <2>7, <2>8 DEF NotRewritten
<1>3. Rewritten(t, whole, parts, l) => pc'[t] = "writing"
  BY DEF Rewritten, Opens
<1> QED
  BY <1>1, <1>2, <1>3 DEF Rewrite

(* Where each of the writing steps begins. *)
LEMMA WritersAt ==
  ASSUME StoreInv, NEW t \in Threads
  PROVE  /\ saveProperty(t) => /\ pc[t] = "save" /\ my[t].pending \in Seq(Entries)
                               /\ my[t].pending # <<>> /\ my[t].cmd.op \notin Sessions
         /\ clearConfigurationFile(t) => /\ pc[t] = "clear" /\ RemovesAll(t)
                                         /\ my[t].cmd.op \in {"logout", "logout-keep"}
                                         /\ my[t].pending = <<>>
         /\ SaveBackups(t) => /\ pc[t] = "saveBackups" /\ my[t].pending = <<>>
                              /\ my[t].cmd.op \in Copying \cup {"login"}
         /\ LogoutBackups(t) => /\ pc[t] = "logoutBackups" /\ my[t].pending = <<>>
                                /\ my[t].cmd.op = "logout"
         /\ LogoutSyncs(t) => /\ pc[t] = "logoutSyncs" /\ my[t].pending = <<>>
                              /\ my[t].cmd.op = "logout"
         /\ loadsyncs(t) => /\ pc[t] = "start" /\ my[t].pending = <<>>
                            /\ my[t].cmd.op = "login" /\ locks["settings"] = Free
         /\ MigrateAnswer(t) => /\ pc[t] = "migrating" /\ my[t].pending = <<>>
                                /\ my[t].cmd.op = "login" /\ locks["settings"] = Free
<1>0. TypeOK /\ Placed(t) /\ my[t].pending \in Seq(Entries)
  BY FieldsTyped DEF StoreInv, InCommand
<1> USE <1>0 DEF At, AtOp, Placed, Reaches, LoginLabels
<1>1. saveProperty(t) => /\ pc[t] = "save" /\ my[t].pending # <<>>
                         /\ my[t].cmd.op \notin Sessions
  BY DEF saveProperty
<1>2. clearConfigurationFile(t) => /\ pc[t] = "clear" /\ RemovesAll(t)
                                   /\ my[t].cmd.op \in {"logout", "logout-keep"}
                                   /\ my[t].pending = <<>>
  BY DEF clearConfigurationFile, RemovesAll
<1>3. SaveBackups(t) => /\ pc[t] = "saveBackups" /\ my[t].pending = <<>>
                        /\ my[t].cmd.op \in Copying \cup {"login"}
  BY DEF SaveBackups
<1>4. LogoutBackups(t) => /\ pc[t] = "logoutBackups" /\ my[t].pending = <<>>
                          /\ my[t].cmd.op = "logout"
  BY DEF LogoutBackups
<1>5. LogoutSyncs(t) => /\ pc[t] = "logoutSyncs" /\ my[t].pending = <<>>
                        /\ my[t].cmd.op = "logout"
  BY DEF LogoutSyncs
<1>6. loadsyncs(t) => /\ pc[t] = "start" /\ my[t].pending = <<>>
                      /\ my[t].cmd.op = "login" /\ locks["settings"] = Free
  BY DEF loadsyncs
<1>7. MigrateAnswer(t) => /\ pc[t] = "migrating" /\ my[t].pending = <<>>
                          /\ my[t].cmd.op = "login" /\ locks["settings"] = Free
  BY DEF MigrateAnswer
<1> QED
  BY <1>1, <1>2, <1>3, <1>4, <1>5, <1>6, <1>7

(* The locals with which they write. *)
LEMMA WritableIs ==
  ASSUME StoreInv, NEW t \in Threads, pc[t] \notin {"idle", "writing"}
  PROVE  /\ \A r \in Returns :
               (Reaches(my[t].cmd.op, r) \/ r = "idle") /\ my[t].pending = <<>> =>
               LET l == [my[t] EXCEPT !.ret = r]
               IN  /\ Writable(t, l) /\ Rest(l, my[t]) /\ l.wiped = my[t].wiped
                   /\ l.pending = <<>> /\ l.ret = r
         /\ my[t].pending \in Seq(Entries) /\ my[t].pending # <<>> =>
               LET l == [my[t] EXCEPT !.pending = Tail(my[t].pending)]
               IN  /\ Writable(t, l) /\ Rest(l, my[t]) /\ l.wiped = my[t].wiped
                   /\ l.pending = Tail(my[t].pending) /\ l.ret = my[t].ret
<1>0. TypeOK /\ Placed(t) /\ my[t] \in Locals
  BY DEF StoreInv, InCommand, TypeOK
<1>1. ASSUME NEW r \in Returns, Reaches(my[t].cmd.op, r) \/ r = "idle", my[t].pending = <<>>
      PROVE  LET l == [my[t] EXCEPT !.ret = r]
             IN  /\ Writable(t, l) /\ Rest(l, my[t]) /\ l.wiped = my[t].wiped
                 /\ l.pending = <<>> /\ l.ret = r
  <2> DEFINE l == [my[t] EXCEPT !.ret = r]
  <2>1. l \in Locals
    BY <1>0, FieldsSet
  <2>2. Rest(l, my[t]) /\ l.wiped = my[t].wiped /\ l.pending = <<>> /\ l.ret = r
    BY <1>0, <1>1 DEF Rest, Locals
  <2> HIDE DEF l
  <2>3. Writable(t, l)
    BY <1>0, <1>1, <2>1, <2>2 DEF Writable, Rest
  <2> QED
    BY <2>2, <2>3 DEF l
<1>2. ASSUME my[t].pending \in Seq(Entries), my[t].pending # <<>>
      PROVE  LET l == [my[t] EXCEPT !.pending = Tail(my[t].pending)]
             IN  /\ Writable(t, l) /\ Rest(l, my[t]) /\ l.wiped = my[t].wiped
                 /\ l.pending = Tail(my[t].pending) /\ l.ret = my[t].ret
  <2> DEFINE q == Tail(my[t].pending)
             l == [my[t] EXCEPT !.pending = q]
  <2>0. q \in Seq(Entries) /\ my[t].cmd.op \notin Sessions
    BY <1>0, <1>2, HeadTailProperties DEF Placed
  <2> HIDE DEF q
  <2>1. l \in Locals
    BY <1>0, <2>0, FieldsSet
  <2>2. Rest(l, my[t]) /\ l.wiped = my[t].wiped /\ l.pending = q /\ l.ret = my[t].ret
    BY <1>0 DEF Rest, Locals
  <2> HIDE DEF l
  <2>3. Writable(t, l)
    BY <1>0, <2>0, <2>1, <2>2 DEF Writable, Rest, Placed
  <2> QED
    BY <2>2, <2>3 DEF l, q
<1> QED
  BY <1>1, <1>2

(* saveProperty, whether or not the lines are all read and the file can be  *)
(* opened.                                                                  *)
Edited(t, lines) == [lines EXCEPT ![Head(my[t].pending)[1]] = Head(my[t].pending)[2]]

LEMMA SavePropertyTyped ==
  ASSUME StoreInv, NEW t \in Threads, saveProperty(t)
  PROVE  /\ TypeOK' /\ Only(t) /\ Placed(t)' /\ UNCHANGED <<up, todo, mem, api, loggedIn>>
         /\ Head(my[t].pending) \in Entries
         /\ \E l : /\ Rest(l, my[t]) /\ l.wiped = my[t].wiped
                   /\ l.pending = Tail(my[t].pending) /\ l.ret = my[t].ret
                   /\ pc'[t] = "writing" =>
                        Rewritten(t, Edited(t, disk.cfg),
                                  {Edited(t, lines) : lines \in Parts(disk.cfg, NoValue)}, l)
                   /\ pc'[t] # "writing" => NotRewritten(t, Edited(t, disk.cfg), l)
<1>0. TypeOK /\ disk.cfg \in Properties
  BY DEF StoreInv, TypeOK, Disks
<1>1. pc[t] = "save" /\ my[t].pending \in Seq(Entries) /\ my[t].pending # <<>>
  BY WritersAt
<1>2. Head(my[t].pending) \in Entries
  BY <1>1, HeadTailProperties
<1>3. \A lines \in Properties : Edited(t, lines) \in Properties
  <2> DEFINE e == Head(my[t].pending)
  <2>1. e \in Entries /\ \A lines : Edited(t, lines) = [lines EXCEPT ![e[1]] = e[2]]
    BY <1>2 DEF Edited
  <2> HIDE DEF e
  <2> QED
    BY <2>1 DEF Properties, Entries, ValuesOf
<1> DEFINE whole == Edited(t, disk.cfg)
           parts == {Edited(t, lines) : lines \in Parts(disk.cfg, NoValue)}
           l == [my[t] EXCEPT !.pending = Tail(my[t].pending)]
<1>4. whole \in Properties /\ parts \in SUBSET Properties
  BY <1>0, <1>3, PropertiesKept
<1>5. Rewrite(t, whole, parts, l) /\ UNCHANGED <<up, todo, mem, api, loggedIn>>
  BY DEF saveProperty, Edited
<1>6. /\ Writable(t, l) /\ Rest(l, my[t]) /\ l.wiped = my[t].wiped
      /\ l.pending = Tail(my[t].pending) /\ l.ret = my[t].ret
  BY <1>1, WritableIs
<1> HIDE DEF whole, parts, l
<1>7. /\ disk' \in Disks /\ my' \in [Threads -> Locals] /\ pc' \in [Threads -> Labels]
      /\ locks' \in [Mutexes -> Threads \cup {Free}] /\ failures' \in Nat
      /\ Only(t) /\ Placed(t)'
      /\ pc'[t] = "writing" => Rewritten(t, whole, parts, l)
      /\ pc'[t] # "writing" => NotRewritten(t, whole, l)
  BY <1>4, <1>5, <1>6, RewriteTyped
<1>8. TypeOK'
  BY <1>0, <1>5, <1>7 DEF TypeOK
<1> QED
  BY <1>2, <1>5, <1>6, <1>7, <1>8 DEF whole, parts

LEMMA ClearTyped ==
  ASSUME StoreInv, NEW t \in Threads, clearConfigurationFile(t)
  PROVE  /\ TypeOK' /\ Only(t) /\ Placed(t)' /\ UNCHANGED <<up, todo, mem, api, loggedIn>>
         /\ Cleared \in Properties
         /\ \E l : /\ Rest(l, my[t]) /\ l.wiped = my[t].wiped
                   /\ l.pending = <<>> /\ l.ret = "idle"
                   /\ pc'[t] = "writing" =>
                        Rewritten(t, Cleared, Parts(Cleared, NoValue), l)
                   /\ pc'[t] # "writing" => NotRewritten(t, Cleared, l)
<1>0. TypeOK /\ disk.cfg \in Properties
  BY DEF StoreInv, TypeOK, Disks
<1>1. pc[t] = "clear" /\ my[t].pending = <<>> /\ "idle" \in Returns
  BY WritersAt DEF Returns, Labels
<1>2. Cleared \in Properties
  BY <1>0, ConstantsTyped DEF Cleared, Properties
<1> DEFINE parts == Parts(Cleared, NoValue)
           l == [my[t] EXCEPT !.ret = "idle"]
<1>4. parts \in SUBSET Properties
  BY <1>2, PropertiesKept
<1>5. Rewrite(t, Cleared, parts, l) /\ UNCHANGED <<up, todo, mem, api, loggedIn>>
  BY DEF clearConfigurationFile, Cleared
<1>6. /\ Writable(t, l) /\ Rest(l, my[t]) /\ l.wiped = my[t].wiped
      /\ l.pending = <<>> /\ l.ret = "idle"
  BY <1>1, WritableIs
<1> HIDE DEF parts, l
<1>7. /\ disk' \in Disks /\ my' \in [Threads -> Locals] /\ pc' \in [Threads -> Labels]
      /\ locks' \in [Mutexes -> Threads \cup {Free}] /\ failures' \in Nat
      /\ Only(t) /\ Placed(t)'
      /\ pc'[t] = "writing" => Rewritten(t, Cleared, parts, l)
      /\ pc'[t] # "writing" => NotRewritten(t, Cleared, l)
  BY <1>2, <1>4, <1>5, <1>6, RewriteTyped
<1>8. TypeOK'
  BY <1>0, <1>5, <1>7 DEF TypeOK
<1> QED
  BY <1>2, <1>5, <1>6, <1>7, <1>8 DEF parts

(* What the rewriting of megacmd.cfg leaves of its lines, and what nobody   *)
(* has noticed to be lost.                                                  *)
LEMMA RewritesTyped ==
  ASSUME StoreInv, NEW t \in Threads, Rewrites(t)
  PROVE  /\ TypeOK' /\ Only(t) /\ Placed(t)' /\ Opens(t) /\ disk'.writing = "cfg"
         /\ UNCHANGED <<todo, mem, api, loggedIn>>
         /\ Rest(my'[t], my[t]) /\ my'[t].wiped = my[t].wiped
         /\ my'[t].lost => failures' = failures + 1
         /\ saveProperty(t) =>
               /\ pc[t] = "save"
               /\ my'[t].pending = Tail(my[t].pending) /\ my'[t].ret = my[t].ret
               /\ Head(my[t].pending) \in Entries
               /\ my'[t].buf[Head(my[t].pending)[1]] = Head(my[t].pending)[2]
               /\ \A k \in Keys \ {Head(my[t].pending)[1]} :
                     /\ my'[t].buf[k] \in {disk.cfg[k], NoValue[k]}
                     /\ my'[t].buf[k] # disk.cfg[k] => my'[t].lost /\ k \in unsettled'
               /\ ~my'[t].lost => /\ my'[t].buf = Edited(t, disk.cfg)
                                  /\ failures' = failures
         /\ clearConfigurationFile(t) =>
               /\ pc[t] = "clear" /\ RemovesAll(t)
               /\ my[t].pending = <<>> /\ my'[t].pending = <<>> /\ my'[t].ret = "idle"
               /\ \A k \in Keys :
                     /\ my'[t].buf[k] \in {Cleared[k], NoValue[k]}
                     /\ my'[t].buf[k] # Cleared[k] => my'[t].lost /\ k \in unsettled'
               /\ ~my'[t].lost => my'[t].buf = Cleared /\ failures' = failures
<1>0. TypeOK /\ disk.cfg \in Properties /\ DOMAIN disk.cfg = Keys
  BY DEF StoreInv, TypeOK, Disks, Properties
<1>1. CASE saveProperty(t)
  <2> DEFINE e == Head(my[t].pending)
             whole == Edited(t, disk.cfg)
             parts == {Edited(t, lines) : lines \in Parts(disk.cfg, NoValue)}
  <2>1. /\ TypeOK' /\ Only(t) /\ Placed(t)' /\ UNCHANGED <<up, todo, mem, api, loggedIn>>
        /\ e \in Entries /\ pc[t] = "save"
    BY <1>1, SavePropertyTyped, WritersAt
  <2>2. PICK l : /\ Rest(l, my[t]) /\ l.wiped = my[t].wiped
                 /\ l.pending = Tail(my[t].pending) /\ l.ret = my[t].ret
                 /\ Rewritten(t, whole, parts, l)
    BY <1>1, SavePropertyTyped DEF Rewrites
  <2>3. \A lines \in Properties : /\ Edited(t, lines)[e[1]] = e[2]
                                  /\ \A k \in Keys \ {e[1]} : Edited(t, lines)[k] = lines[k]
    <3> SUFFICES ASSUME NEW lines \in Properties, NEW d, d = e, d \in Entries
                 PROVE  LET new == [lines EXCEPT ![d[1]] = d[2]]
                        IN new[d[1]] = d[2] /\ \A k \in Keys \ {d[1]} : new[k] = lines[k]
      BY <2>1 DEF Edited
    <3> QED
      BY DEF Properties, Entries
  <2>4. \A lines \in Parts(disk.cfg, NoValue) :
           lines \in Properties /\ \A k \in Keys : lines[k] \in {disk.cfg[k], NoValue[k]}
    BY <1>0, PropertiesKept
  <2>5. my'[t].buf[e[1]] = e[2] /\ \A k \in Keys \ {e[1]} : my'[t].buf[k] \in {disk.cfg[k], NoValue[k]}
    BY <1>0, <2>2, <2>3, <2>4 DEF Rewritten
  <2>6. whole[e[1]] = e[2] /\ \A k \in Keys \ {e[1]} : whole[k] = disk.cfg[k]
    BY <1>0, <2>3
  <2> HIDE DEF e, whole, parts
  <2>7. \A k \in Keys \ {e[1]} : my'[t].buf[k] # disk.cfg[k] => my'[t].lost /\ k \in unsettled'
    BY <2>2, <2>6 DEF Rewritten
  <2>8. Opens(t) /\ disk'.writing = "cfg" /\ Rest(my'[t], my[t]) /\ my'[t].wiped = my[t].wiped
        /\ my'[t].pending = Tail(my[t].pending) /\ my'[t].ret = my[t].ret
    BY <2>2 DEF Rewritten, Same, Rest
  <2>9. /\ my'[t].lost => failures' = failures + 1
        /\ ~my'[t].lost => my'[t].buf = whole /\ failures' = failures
    BY <2>2 DEF Rewritten
  <2>10. ~clearConfigurationFile(t)
    BY <2>1, WritersAt
  <2> QED
    BY <2>1, <2>5, <2>7, <2>8, <2>9, <2>10 DEF e, whole
<1>2. CASE clearConfigurationFile(t)
  <2> DEFINE parts == Parts(Cleared, NoValue)
  <2>1. /\ TypeOK' /\ Only(t) /\ Placed(t)' /\ UNCHANGED <<up, todo, mem, api, loggedIn>>
        /\ Cleared \in Properties /\ pc[t] = "clear" /\ RemovesAll(t) /\ my[t].pending = <<>>
    BY <1>2, ClearTyped, WritersAt
  <2>2. PICK l : /\ Rest(l, my[t]) /\ l.wiped = my[t].wiped
                 /\ l.pending = <<>> /\ l.ret = "idle"
                 /\ Rewritten(t, Cleared, parts, l)
    BY <1>2, ClearTyped DEF Rewrites
  <2>3. \A lines \in parts : \A k \in Keys : lines[k] \in {Cleared[k], NoValue[k]}
    BY <2>1, PropertiesKept
  <2> HIDE DEF parts
  <2>5. \A k \in Keys : my'[t].buf[k] \in {Cleared[k], NoValue[k]}
    BY <2>2, <2>3 DEF Rewritten
  <2>7. \A k \in Keys : my'[t].buf[k] # Cleared[k] => my'[t].lost /\ k \in unsettled'
    BY <2>2 DEF Rewritten
  <2>8. Opens(t) /\ disk'.writing = "cfg" /\ Rest(my'[t], my[t]) /\ my'[t].wiped = my[t].wiped
        /\ my'[t].pending = <<>> /\ my'[t].ret = "idle"
    BY <2>2 DEF Rewritten, Same, Rest
  <2>9. /\ my'[t].lost => failures' = failures + 1
        /\ ~my'[t].lost => my'[t].buf = Cleared /\ failures' = failures
    BY <2>2 DEF Rewritten
  <2>10. ~saveProperty(t)
    BY <2>1, WritersAt
  <2> QED
    BY <2>1, <2>5, <2>7, <2>8, <2>9, <2>10
<1> QED
  BY <1>1, <1>2 DEF Rewrites

(* The other files: the locals l with which they are written, or with which *)
(* the thread goes on because the file cannot be opened.                    *)
SavedOther(t, l) ==
    /\ Rest(l, my[t]) /\ l.wiped = my[t].wiped /\ l.pending = <<>>
    /\ l.ret = IF SaveBackups(t) THEN "unlockBackups"
               ELSE IF LogoutBackups(t) THEN "logoutSyncs" ELSE "clear"
    /\ \/ /\ pc'[t] = "writing" /\ Opens(t) /\ my'[t] = l
          /\ disk'.writing = IF LogoutSyncs(t) THEN "syncs" ELSE "backups"
          /\ UNCHANGED <<unsettled, failures>>
       \/ pc'[t] # "writing" /\ Skipped(t, l)

LEMMA SavesOtherTyped ==
  ASSUME StoreInv, NEW t \in Threads, SavesOther(t)
  PROVE  /\ TypeOK' /\ Only(t) /\ Placed(t)' /\ UNCHANGED <<up, todo, mem, api, loggedIn>>
         /\ \E m : SavedOther(t, m)
         /\ SaveBackups(t) => /\ locks.backups \in {Free, t} /\ locks'["backups"] = t
                              /\ \A p \in Protocols \cup {"reclaim"} : locks'[p] = locks[p]
         /\ ~SaveBackups(t) => \A p \in Mutexes \ {"settings"} : locks'[p] = locks[p]
         /\ pc'[t] # "writing" /\ ~LogoutSyncs(t) =>
               \A f \in Paths : disk.backups[f] # mem.backups[f].num => f \in unsettled'
<1>0. TypeOK /\ Placed(t) /\ my \in [Threads -> Locals]
  BY DEF StoreInv, InCommand, TypeOK
<1>r. /\ {"unlockBackups", "logoutSyncs", "clear"} \subseteq Returns
      /\ \A op \in Copying \cup {"login"} : Reaches(op, "unlockBackups")
      /\ Reaches("logout", "logoutSyncs") /\ Reaches("logout", "clear")
  BY DEF Returns, Labels, LoginLabels, Reaches, Sessions, Locating, Copying
<1>m. Mutexes = {"settings", "reclaim", "backups"} \cup Protocols /\ Protocols = {"webdav", "ftp"}
  BY DEF Mutexes, Protocols
<1>f. \A l : Contents(l)["backups"] = [f \in Paths |-> mem.backups[f].num]
  BY DEF Contents
(* Any of them sets where to go on, and then writes or goes on. *)
<1>w. ASSUME NEW file \in {"syncs", "backups"}, NEW l, Writable(t, l),
             \/ BeginWrite(t, file, l) /\ UNCHANGED <<unsettled, failures>>
             \/ CannotOpen(t, file, l) /\ UNCHANGED locks,
             UNCHANGED <<up, todo, mem, api, loggedIn>>
      PROVE  /\ TypeOK' /\ Only(t) /\ Placed(t)'
             /\ pc'[t] = "writing" => /\ Opens(t) /\ my'[t] = l /\ disk'.writing = file
                                     /\ UNCHANGED <<unsettled, failures>>
             /\ pc'[t] # "writing" => Skipped(t, l)
             /\ \A p \in Mutexes \ {"settings"} : locks'[p] = locks[p]
             /\ pc'[t] # "writing" /\ file = "backups" =>
                   \A f \in Paths : disk.backups[f] # mem.backups[f].num => f \in unsettled'
  <2>1. CASE BeginWrite(t, file, l) /\ UNCHANGED <<unsettled, failures>>
    <3>1. /\ disk' \in Disks /\ my' \in [Threads -> Locals] /\ pc' \in [Threads -> Labels]
          /\ locks' \in [Mutexes -> Threads \cup {Free}]
          /\ my'[t] = l /\ Only(t) /\ Placed(t)' /\ Opens(t) /\ disk'.writing = file
      BY <1>w, <2>1, BeginWriteTyped DEF Files
    <3>2. TypeOK'
      BY <1>0, <1>w, <2>1, <3>1 DEF TypeOK
    <3>3. \A p \in Mutexes \ {"settings"} : locks'[p] = locks[p]
      BY <1>0, <2>1 DEF BeginWrite, Acquire, TypeOK
    <3> QED
      BY <2>1, <3>1, <3>2, <3>3 DEF Opens
  <2>2. CASE CannotOpen(t, file, l) /\ UNCHANGED locks
    <3>1. /\ my' \in [Threads -> Locals] /\ pc' \in [Threads -> Labels]
          /\ Only(t) /\ Placed(t)' /\ Skipped(t, l) /\ failures' \in Nat
          /\ unsettled' = unsettled \cup Unsaved(file, Contents(l)[file], disk[file])
      BY <1>w, <2>2, CannotOpenTyped DEF Files
    <3>2. TypeOK'
      BY <1>0, <1>w, <2>2, <3>1 DEF TypeOK, CannotOpen
    <3>3. file = "backups" =>
             \A f \in Paths : disk.backups[f] # mem.backups[f].num => f \in unsettled'
      BY <1>f, <3>1 DEF Unsaved, Differing
    <3> QED
      BY <2>2, <3>1, <3>2, <3>3 DEF Skipped, GoesAfter
  <2> QED
    BY <1>w, <2>1, <2>2
<1>3. CASE SaveBackups(t)
  <2>1. /\ pc[t] = "saveBackups" /\ my[t].pending = <<>>
        /\ my[t].cmd.op \in Copying \cup {"login"} /\ ~LogoutBackups(t) /\ ~LogoutSyncs(t)
    BY <1>3, WritersAt
  <2> DEFINE l == [my[t] EXCEPT !.ret = "unlockBackups"]
  <2>2. /\ Writable(t, l) /\ Rest(l, my[t]) /\ l.wiped = my[t].wiped
        /\ l.pending = <<>> /\ l.ret = "unlockBackups" /\ l \in Locals
    BY <1>r, <2>1, WritableIs DEF Writable
  <2>a. /\ locks.backups \in {Free, t} /\ UNCHANGED <<up, todo, mem, api, loggedIn>>
        /\ \/ /\ locks.settings = Free
              /\ locks' = [locks EXCEPT !.backups = t, !.settings = t]
              /\ disk' = [disk EXCEPT !.backups = Emptied.backups, !.writing = "backups"]
              /\ my' = [my EXCEPT ![t] = l]
              /\ Goto(t, "writing")
              /\ UNCHANGED <<unsettled, failures>>
           \/ CannotOpen(t, "backups", l) /\ locks' = [locks EXCEPT !.backups = t]
    BY <1>3 DEF SaveBackups
  <2> HIDE DEF l
  <2>b. /\ locks' \in [Mutexes -> Threads \cup {Free}] /\ locks'["backups"] = t
        /\ \A p \in Protocols \cup {"reclaim"} : locks'[p] = locks[p]
    BY <1>0, <1>m, <2>a DEF TypeOK
  <2>3. CASE /\ locks.settings = Free
             /\ locks' = [locks EXCEPT !.backups = t, !.settings = t]
             /\ disk' = [disk EXCEPT !.backups = Emptied.backups, !.writing = "backups"]
             /\ my' = [my EXCEPT ![t] = l]
             /\ Goto(t, "writing")
             /\ UNCHANGED <<unsettled, failures>>
    <3>1. my' \in [Threads -> Locals] /\ my'[t] = l /\ \A u \in Threads \ {t} : my'[u] = my[u]
      BY <1>0, <2>2, <2>3
    <3>2. pc' \in [Threads -> Labels] /\ pc'[t] = "writing" /\ Only(t)
      <4>1. "writing" \in Labels
        BY DEF Labels
      <4> QED
        BY <1>0, <2>3, <3>1, <4>1, GotoTyped DEF Only
    <3>3. disk' \in Disks /\ disk'.cfg = disk.cfg /\ disk'.writing = "backups"
      <4>1. disk' = [disk EXCEPT !.backups = [f \in Paths |-> 0], !.writing = "backups"]
        BY <2>3 DEF Emptied
      <4> QED
        BY <1>0, <4>1 DEF TypeOK, Disks, Files
    <3>4. locks'["settings"] = t
      BY <1>0, <1>m, <2>3 DEF TypeOK
    <3>5. Placed(t)'
      BY <1>0, <1>r, <2>1, <2>2, <3>1, <3>2 DEF Placed, Reaches, LoginLabels, Copying, Sessions,
         Rest
    <3>6. Opens(t)
      BY <2>1, <2>a, <2>3, <3>2, <3>3, <3>4 DEF Opens, Files
    <3>7. TypeOK'
      BY <1>0, <2>a, <2>b, <2>3, <3>1, <3>2, <3>3 DEF TypeOK
    <3>8. \E m : SavedOther(t, m)
      BY <1>3, <2>1, <2>2, <2>3, <3>1, <3>2, <3>3, <3>6 DEF SavedOther
    <3> QED
      BY <1>3, <2>a, <2>b, <3>2, <3>5, <3>7, <3>8
  <2>4. CASE CannotOpen(t, "backups", l) /\ locks' = [locks EXCEPT !.backups = t]
    <3>0. locks'["settings"] = locks["settings"]
      BY <1>0, <1>m, <2>4 DEF TypeOK
    <3>1. /\ my' \in [Threads -> Locals] /\ pc' \in [Threads -> Labels]
          /\ Only(t) /\ Placed(t)' /\ Skipped(t, l) /\ failures' \in Nat
          /\ unsettled' = unsettled \cup Unsaved("backups", Contents(l)["backups"], disk["backups"])
      BY <2>a, <2>2, <2>4, <3>0, CannotOpenTyped DEF Files
    <3>2. TypeOK'
      BY <1>0, <2>a, <2>b, <2>4, <3>1 DEF TypeOK, CannotOpen
    <3>3. \A f \in Paths : disk.backups[f] # mem.backups[f].num => f \in unsettled'
      BY <1>f, <3>1 DEF Unsaved, Differing
    <3>4. \E m : SavedOther(t, m)
      BY <1>3, <2>1, <2>2, <3>1 DEF SavedOther, Skipped, GoesAfter
    <3> QED
      BY <1>3, <2>a, <2>b, <3>1, <3>2, <3>3, <3>4
  <2> QED
    BY <2>a, <2>3, <2>4
<1>4. CASE LogoutBackups(t)
  <2>1. /\ pc[t] = "logoutBackups" /\ my[t].pending = <<>> /\ my[t].cmd.op = "logout"
        /\ ~SaveBackups(t) /\ ~LogoutSyncs(t)
    BY <1>4, WritersAt
  <2> DEFINE l == [my[t] EXCEPT !.ret = "logoutSyncs"]
  <2>2. /\ Writable(t, l) /\ Rest(l, my[t]) /\ l.wiped = my[t].wiped
        /\ l.pending = <<>> /\ l.ret = "logoutSyncs"
    BY <1>r, <2>1, WritableIs
  <2>3. /\ \/ BeginWrite(t, "backups", l) /\ UNCHANGED <<unsettled, failures>>
           \/ CannotOpen(t, "backups", l) /\ UNCHANGED locks
        /\ UNCHANGED <<up, todo, mem, api, loggedIn>>
    BY <1>4 DEF LogoutBackups, Saving
  <2> HIDE DEF l
  <2>4. /\ TypeOK' /\ Only(t) /\ Placed(t)'
        /\ pc'[t] = "writing" => /\ Opens(t) /\ my'[t] = l /\ disk'.writing = "backups"
                                /\ UNCHANGED <<unsettled, failures>>
        /\ pc'[t] # "writing" => Skipped(t, l)
        /\ \A p \in Mutexes \ {"settings"} : locks'[p] = locks[p]
        /\ pc'[t] # "writing" =>
              \A f \in Paths : disk.backups[f] # mem.backups[f].num => f \in unsettled'
    BY <1>w, <2>2, <2>3
  <2>5. \E m : SavedOther(t, m)
    BY <1>4, <2>1, <2>2, <2>4 DEF SavedOther
  <2> QED
    BY <1>4, <2>1, <2>3, <2>4, <2>5
<1>5. CASE LogoutSyncs(t)
  <2>1. /\ pc[t] = "logoutSyncs" /\ my[t].pending = <<>> /\ my[t].cmd.op = "logout"
        /\ ~SaveBackups(t) /\ ~LogoutBackups(t)
    BY <1>5, WritersAt
  <2> DEFINE l == [my[t] EXCEPT !.ret = "clear"]
  <2>2. /\ Writable(t, l) /\ Rest(l, my[t]) /\ l.wiped = my[t].wiped
        /\ l.pending = <<>> /\ l.ret = "clear"
    BY <1>r, <2>1, WritableIs
  <2>3. /\ \/ BeginWrite(t, "syncs", l) /\ UNCHANGED <<unsettled, failures>>
           \/ CannotOpen(t, "syncs", l) /\ UNCHANGED locks
        /\ UNCHANGED <<up, todo, mem, api, loggedIn>>
    BY <1>5 DEF LogoutSyncs, Saving
  <2> HIDE DEF l
  <2>4. /\ TypeOK' /\ Only(t) /\ Placed(t)'
        /\ pc'[t] = "writing" => /\ Opens(t) /\ my'[t] = l /\ disk'.writing = "syncs"
                                /\ UNCHANGED <<unsettled, failures>>
        /\ pc'[t] # "writing" => Skipped(t, l)
        /\ \A p \in Mutexes \ {"settings"} : locks'[p] = locks[p]
    BY <1>w, <2>2, <2>3
  <2>5. \E m : SavedOther(t, m)
    BY <1>5, <2>1, <2>2, <2>4 DEF SavedOther
  <2> QED
    BY <1>5, <2>1, <2>3, <2>4, <2>5
<1> QED
  BY <1>3, <1>4, <1>5 DEF SavesOther

(* What loadsyncs makes of the syncs that it reads. *)
LEMMA LoadedTyped ==
  ASSUME StoreInv, NEW read \in SUBSET Legacy,
         mem' = [mem EXCEPT !.syncs = {e \in @ : e[1] \notin read}
                                      \cup {<<s, mem.loads + 1>> : s \in read},
                            !.loads = @ + 1]
  PROVE  mem' \in Memories
<1>0. mem \in Memories
  BY DEF StoreInv, TypeOK
<1> DEFINE kept == {e \in mem.syncs : e[1] \notin read}
           loaded == {<<x, mem.loads + 1>> : x \in read}
           all == kept \cup loaded
<1>1. all \in SUBSET (Legacy \X Nat) /\ mem.loads + 1 \in Nat
  BY <1>0 DEF Memories
<1>2. mem' = [mem EXCEPT !.syncs = all, !.loads = mem.loads + 1]
  OBVIOUS
<1> HIDE DEF all
<1> QED
  BY <1>0, <1>1, <1>2 DEF Memories

LEMMA LoadSyncsTyped ==
  ASSUME StoreInv, NEW t \in Threads, loadsyncs(t)
  PROVE  /\ TypeOK' /\ Only(t) /\ Placed(t)' /\ UNCHANGED <<up, todo, api, loggedIn, unsettled>>
         /\ mem'.backups = mem.backups
         /\ Rest(my'[t], my[t]) /\ my'[t].wiped = my[t].wiped
         /\ my'[t].pending = <<>>
         /\ \A m \in Mutexes \ {"settings"} : locks'[m] = locks[m]
         /\ pc'[t] = "writing" =>
               /\ Opens(t) /\ disk'.writing = "syncs" /\ my'[t].ret = "loadBackups"
         /\ pc'[t] # "writing" =>
               /\ pc'[t] = "loadBackups" /\ disk' = disk
               /\ locks["settings"] = Free /\ locks'["settings"] = Free
<1>0. TypeOK /\ Placed(t) /\ my \in [Threads -> Locals]
  BY DEF StoreInv, InCommand, TypeOK
<1>r. "loadBackups" \in Returns /\ "loadBackups" \in Labels /\ Reaches("login", "loadBackups")
  BY DEF Returns, Labels, LoginLabels, Reaches, Sessions, Locating, Copying
<1>1. /\ pc[t] = "start" /\ my[t].pending = <<>> /\ my[t].cmd.op = "login"
      /\ locks["settings"] = Free
  BY WritersAt
<1> DEFINE l == [my[t] EXCEPT !.ret = "loadBackups"]
<1>2. PICK read \in Perhaps(disk.syncs, SUBSET disk.syncs) :
        /\ mem' = [mem EXCEPT !.syncs = {e \in @ : e[1] \notin read}
                                        \cup {<<s, mem.loads + 1>> : s \in read},
                              !.loads = @ + 1]
        /\ \/ BeginWrite(t, "syncs", l) /\ FailsIf(read # disk.syncs)
           \/ CannotOpen(t, "syncs", l) /\ UNCHANGED locks
           \/ /\ Goto(t, "loadBackups") /\ FailsIf(read # disk.syncs)
              /\ UNCHANGED <<disk, locks, my>>
  BY DEF loadsyncs
<1>3. UNCHANGED <<up, todo, api, loggedIn, unsettled>>
  BY DEF loadsyncs
<1>4. read \in SUBSET Legacy
  BY <1>0, PerhapsIs DEF TypeOK, Disks
<1>5. mem' \in Memories /\ mem'.backups = mem.backups
  <2>1. mem' \in Memories
    BY <1>2, <1>4, LoadedTyped
  <2> QED
    BY <1>0, <1>2, <2>1 DEF TypeOK, Memories
<1>6. /\ Writable(t, l) /\ Rest(l, my[t]) /\ l.wiped = my[t].wiped
      /\ l.pending = <<>> /\ l.ret = "loadBackups"
  BY <1>1, <1>r, WritableIs
<1> HIDE DEF l
<1>7. CASE BeginWrite(t, "syncs", l) /\ FailsIf(read # disk.syncs)
  <2>1. /\ disk' \in Disks /\ my' \in [Threads -> Locals] /\ pc' \in [Threads -> Labels]
        /\ locks' \in [Mutexes -> Threads \cup {Free}]
        /\ my'[t] = l /\ Only(t) /\ Placed(t)' /\ Opens(t) /\ disk'.writing = "syncs"
    BY <1>3, <1>6, <1>7, BeginWriteTyped DEF Files
  <2>2. failures' \in Nat
    BY <1>0, <1>7, FailsIs
  <2>3. TypeOK'
    BY <1>0, <1>3, <1>5, <2>1, <2>2 DEF TypeOK
  <2>4. \A p \in Mutexes \ {"settings"} : locks'[p] = locks[p]
    BY <1>0, <1>7 DEF BeginWrite, Acquire, TypeOK
  <2> QED
    BY <1>3, <1>5, <1>6, <2>1, <2>3, <2>4 DEF Opens
<1>8. CASE CannotOpen(t, "syncs", l) /\ UNCHANGED locks
  <2>1. /\ my' \in [Threads -> Locals] /\ pc' \in [Threads -> Labels]
        /\ Only(t) /\ Placed(t)' /\ Skipped(t, l) /\ failures' \in Nat
    BY <1>3, <1>6, <1>8, CannotOpenTyped DEF Files
  <2>2. TypeOK'
    BY <1>0, <1>3, <1>5, <1>8, <2>1 DEF TypeOK, CannotOpen
  <2>3. pc'[t] = "loadBackups" /\ Same(my'[t], l) /\ my'[t].wiped = l.wiped
    BY <1>6, <2>1 DEF Skipped, GoesAfter, After
  <2> QED
    BY <1>1, <1>3, <1>5, <1>6, <1>8, <2>1, <2>2, <2>3 DEF Skipped, Same, Rest
<1>9. CASE /\ Goto(t, "loadBackups") /\ FailsIf(read # disk.syncs)
           /\ UNCHANGED <<disk, locks, my>>
  <2>1. pc' \in [Threads -> Labels] /\ pc'[t] = "loadBackups" /\ Only(t) /\ Placed(t)'
    BY <1>0, <1>r, <1>1, <1>9, GoesOn
  <2>2. failures' \in Nat
    BY <1>0, <1>9, FailsIs
  <2>3. TypeOK'
    BY <1>0, <1>3, <1>5, <1>9, <2>1, <2>2 DEF TypeOK
  <2> QED
    BY <1>1, <1>3, <1>5, <1>9, <2>1, <2>3 DEF Rest
<1> QED
  BY <1>2, <1>7, <1>8, <1>9

LEMMA OpensOtherTyped ==
  ASSUME StoreInv, NEW t \in Threads, OpensOther(t)
  PROVE  /\ TypeOK' /\ Only(t) /\ Placed(t)' /\ Opens(t) /\ disk'.writing # "cfg"
         /\ UNCHANGED <<up, todo, api, loggedIn, unsettled>>
         /\ mem'.backups = mem.backups
         /\ my'[t].pending = <<>> /\ my'[t].ret # "unlock" /\ my'[t].cmd = my[t].cmd
<1>0. TypeOK /\ Placed(t) /\ my \in [Threads -> Locals]
  BY DEF StoreInv, InCommand, TypeOK
<1>1. CASE pc'[t] = "writing" /\ loadsyncs(t)
  BY <1>1, LoadSyncsTyped DEF Rest
<1>2. CASE pc'[t] = "writing" /\ SavesOther(t)
  <2>1. /\ TypeOK' /\ Only(t) /\ Placed(t)' /\ UNCHANGED <<up, todo, mem, api, loggedIn>>
    BY <1>2, SavesOtherTyped
  <2>2. PICK l : SavedOther(t, l)
    BY <1>2, SavesOtherTyped
  <2> QED
    BY <1>2, <2>1, <2>2 DEF SavedOther, Rest
<1>3. CASE MigrateAnswer(t) /\ ~UNCHANGED pc
  <2>1. /\ pc[t] = "migrating" /\ my[t].pending = <<>> /\ my[t].cmd.op = "login"
        /\ locks["settings"] = Free
    BY <1>3, WritersAt
  <2>r. "migrating" \in Returns /\ Reaches("login", "migrating")
    BY DEF Returns, Labels, LoginLabels, Reaches, Sessions, Locating, Copying
  <2>2. PICK entry \in my[t].sent :
          /\ mem' = [mem EXCEPT !.syncs = @ \ {entry}]
          /\ locks' = [locks EXCEPT !.settings = t]
          /\ disk' = [disk EXCEPT !.cached = @ \cup {entry[1]}, !.syncs = {}, !.writing = "syncs"]
          /\ my' = [my EXCEPT ![t] = [my[t] EXCEPT !.sent = @ \ {entry}, !.ret = "migrating"]]
          /\ Goto(t, "writing")
          /\ UNCHANGED failures
    BY <1>3 DEF MigrateAnswer, removeSyncConfig
  <2>3. my[t].sent \in SUBSET (Legacy \X Nat) /\ entry[1] \in Legacy
    <3>1. my[t].sent \in SUBSET (Legacy \X Nat)
      BY <1>0, FieldsTyped
    <3> QED
      BY <3>1
  <2>5. /\ my' \in [Threads -> Locals] /\ \A u \in Threads \ {t} : my'[u] = my[u]
        /\ my'[t].cmd = my[t].cmd /\ my'[t].pending = my[t].pending
        /\ my'[t].ret = "migrating"
    <3>1. [my[t] EXCEPT !.sent = @ \ {entry}, !.ret = "migrating"] \in Locals
      BY <1>0, <2>r, <2>3, FieldsSet
    <3> QED
      BY <1>0, <2>2, <3>1 DEF Locals
  <2>6. pc' \in [Threads -> Labels] /\ pc'[t] = "writing" /\ Only(t)
    <3>1. "writing" \in Labels
      BY DEF Labels
    <3> QED
      BY <1>0, <2>2, <2>5, <3>1, GotoTyped DEF Only
  <2>7. disk' \in Disks /\ disk'.cfg = disk.cfg /\ disk'.writing = "syncs"
    <3> DEFINE s == entry[1]
    <3>1. s \in Legacy
      BY <2>3
    <3>2. disk' = [disk EXCEPT !.cached = @ \cup {s}, !.syncs = {}, !.writing = "syncs"]
      BY <2>2
    <3> HIDE DEF s
    <3> QED
      BY <1>0, <3>1, <3>2 DEF TypeOK, Disks, Files
  <2>8. mem' \in Memories /\ mem'.backups = mem.backups
    BY <1>0, <2>2 DEF TypeOK, Memories
  <2>9. locks' \in [Mutexes -> Threads \cup {Free}] /\ locks'["settings"] = t
    BY <1>0, <2>2 DEF TypeOK, Mutexes
  <2>10. Placed(t)'
    BY <1>0, <2>r, <2>1, <2>5, <2>6 DEF Placed, Reaches, LoginLabels
  <2>u. UNCHANGED <<up, todo, api, loggedIn, unsettled>>
    BY <1>3 DEF MigrateAnswer
  <2>11. Opens(t)
    BY <2>1, <2>6, <2>7, <2>9, <2>u DEF Opens, Files
  <2>12. TypeOK'
    BY <1>0, <2>2, <2>5, <2>6, <2>7, <2>8, <2>9, <2>u DEF TypeOK
  <2> QED
    BY <2>1, <2>5, <2>6, <2>7, <2>8, <2>10, <2>11, <2>12, <2>u
<1> QED
  BY <1>1, <1>2, <1>3 DEF OpensOther

(* A thread that cannot open the file that it means to write goes on: what  *)
(* then differs from the file is among the unsettled.                       *)
LEMMA SkipsTyped ==
  ASSUME StoreInv, NEW t \in Threads, Skips(t)
  PROVE  /\ TypeOK' /\ Only(t) /\ Placed(t)' /\ UNCHANGED <<up, todo, mem, api, loggedIn, disk>>
         /\ Quiet(t) /\ locks["settings"] = Free /\ failures' = failures + 1
         /\ unsettled \subseteq unsettled'
         /\ \A p \in Protocols \cup {"reclaim"} : locks'[p] = locks[p]
         /\ pc'[t] = "idle" => my'[t] = NoLocals
         /\ pc'[t] # "idle" => Rest(my'[t], my[t]) /\ my'[t].wiped = my[t].wiped
         /\ saveProperty(t) =>
               /\ pc[t] = "save"
               /\ Head(my[t].pending) \in Entries
               /\ \/ disk.cfg[Head(my[t].pending)[1]] = Head(my[t].pending)[2]
                  \/ Head(my[t].pending)[1] \in unsettled'
               /\ pc'[t] = IF Tail(my[t].pending) # <<>> THEN "save" ELSE my[t].ret
               /\ pc'[t] # "idle" => /\ my'[t].pending = Tail(my[t].pending)
                                    /\ my'[t].ret = my[t].ret
         /\ clearConfigurationFile(t) =>
               /\ pc[t] = "clear" /\ pc'[t] = "idle"
               /\ \A k \in Keys : disk.cfg[k] # Cleared[k] => k \in unsettled'
         /\ SavesOther(t) => my'[t].pending = <<>>
         /\ SaveBackups(t) => pc[t] = "saveBackups" /\ pc'[t] = "unlockBackups"
         /\ LogoutBackups(t) => pc[t] = "logoutBackups" /\ pc'[t] = "logoutSyncs"
         /\ LogoutSyncs(t) => pc[t] = "logoutSyncs" /\ pc'[t] = "clear"
         /\ SavesOther(t) /\ ~LogoutSyncs(t) =>
               \A f \in Paths : disk.backups[f] # mem.backups[f].num => f \in unsettled'
<1>0. TypeOK /\ disk.cfg \in Properties /\ pc'[t] # "writing"
  BY DEF StoreInv, TypeOK, Disks, Skips
<1>m. Mutexes = {"settings", "reclaim", "backups"} \cup Protocols /\ Protocols = {"webdav", "ftp"}
  BY DEF Mutexes, Protocols
<1>q. ASSUME NEW l, Skipped(t, l), l.wiped = my[t].wiped, Rest(l, my[t])
      PROVE  /\ Quiet(t) /\ locks["settings"] = Free /\ failures' = failures + 1
             /\ disk' = disk /\ unsettled \subseteq unsettled'
             /\ pc'[t] = "idle" => my'[t] = NoLocals
             /\ pc'[t] # "idle" => Rest(my'[t], my[t]) /\ my'[t].wiped = my[t].wiped
             /\ pc'[t] # "idle" => my'[t].pending = l.pending /\ my'[t].ret = l.ret
             /\ pc'[t] = After(l)
  BY <1>q DEF Skipped, GoesAfter, Same, Rest, Quiet
<1>1. CASE saveProperty(t)
  <2> DEFINE e == Head(my[t].pending)
  <2>1. /\ TypeOK' /\ Only(t) /\ Placed(t)' /\ UNCHANGED <<up, todo, mem, api, loggedIn>>
        /\ e \in Entries /\ pc[t] = "save"
    BY <1>1, SavePropertyTyped, WritersAt
  <2>2. PICK l : /\ Rest(l, my[t]) /\ l.wiped = my[t].wiped
                 /\ l.pending = Tail(my[t].pending) /\ l.ret = my[t].ret
                 /\ NotRewritten(t, Edited(t, disk.cfg), l)
    BY <1>0, <1>1, SavePropertyTyped
  <2>3. e[1] \in Keys /\ Edited(t, disk.cfg)[e[1]] = e[2]
    <3> SUFFICES ASSUME NEW d, d = e, d \in Entries
                 PROVE  d[1] \in Keys /\ [disk.cfg EXCEPT ![d[1]] = d[2]][d[1]] = d[2]
      BY <2>1 DEF Edited
    <3> QED
      BY <1>0 DEF Properties, Entries
  <2>4. disk.cfg[e[1]] = e[2] \/ e[1] \in unsettled'
    BY <2>2, <2>3 DEF NotRewritten
  <2>5. Skipped(t, l)
    BY <2>2 DEF NotRewritten
  <2>6. /\ Quiet(t) /\ locks["settings"] = Free /\ failures' = failures + 1
        /\ disk' = disk /\ unsettled \subseteq unsettled'
        /\ pc'[t] = "idle" => my'[t] = NoLocals
        /\ pc'[t] # "idle" => Rest(my'[t], my[t]) /\ my'[t].wiped = my[t].wiped
        /\ pc'[t] # "idle" => my'[t].pending = Tail(my[t].pending) /\ my'[t].ret = my[t].ret
        /\ pc'[t] = IF Tail(my[t].pending) # <<>> THEN "save" ELSE my[t].ret
    BY <1>q, <2>2, <2>5 DEF After
  <2>7. ~clearConfigurationFile(t) /\ ~SaveBackups(t) /\ ~LogoutBackups(t) /\ ~LogoutSyncs(t)
        /\ ~SavesOther(t)
    BY <2>1, WritersAt DEF SavesOther
  <2>8. \A p \in Protocols \cup {"reclaim"} : locks'[p] = locks[p]
    BY <1>0, <1>1 DEF saveProperty, Rewrite, BeginWrite, Goto, TypeOK
  <2> QED
    BY <2>1, <2>4, <2>6, <2>7, <2>8
<1>2. CASE clearConfigurationFile(t)
  <2>1. /\ TypeOK' /\ Only(t) /\ Placed(t)' /\ UNCHANGED <<up, todo, mem, api, loggedIn>>
        /\ pc[t] = "clear"
    BY <1>2, ClearTyped, WritersAt
  <2>2. PICK l : /\ Rest(l, my[t]) /\ l.wiped = my[t].wiped
                 /\ l.pending = <<>> /\ l.ret = "idle"
                 /\ NotRewritten(t, Cleared, l)
    BY <1>0, <1>2, ClearTyped
  <2>5. Skipped(t, l) /\ \A k \in Keys : disk.cfg[k] # Cleared[k] => k \in unsettled'
    BY <2>2 DEF NotRewritten
  <2>6. /\ Quiet(t) /\ locks["settings"] = Free /\ failures' = failures + 1
        /\ disk' = disk /\ unsettled \subseteq unsettled'
        /\ my'[t] = NoLocals /\ pc'[t] = "idle"
    BY <1>q, <2>2, <2>5 DEF After
  <2>7. ~saveProperty(t) /\ ~SaveBackups(t) /\ ~LogoutBackups(t) /\ ~LogoutSyncs(t)
        /\ ~SavesOther(t)
    BY <2>1, WritersAt DEF SavesOther
  <2>8. \A p \in Protocols \cup {"reclaim"} : locks'[p] = locks[p]
    BY <1>0, <1>2 DEF clearConfigurationFile, Rewrite, BeginWrite, Goto, TypeOK
  <2> QED
    BY <2>1, <2>5, <2>6, <2>7, <2>8
<1>3. CASE SavesOther(t)
  <2>1. /\ TypeOK' /\ Only(t) /\ Placed(t)' /\ UNCHANGED <<up, todo, mem, api, loggedIn>>
        /\ SaveBackups(t) => \A p \in Protocols \cup {"reclaim"} : locks'[p] = locks[p]
        /\ ~SaveBackups(t) => \A p \in Mutexes \ {"settings"} : locks'[p] = locks[p]
        /\ ~LogoutSyncs(t) =>
               \A f \in Paths : disk.backups[f] # mem.backups[f].num => f \in unsettled'
    BY <1>0, <1>3, SavesOtherTyped
  <2>2. PICK l : SavedOther(t, l) /\ Skipped(t, l)
    BY <1>0, <1>3, SavesOtherTyped DEF SavedOther
  <2>3. \A p \in Protocols \cup {"reclaim"} : locks'[p] = locks[p]
    BY <1>m, <2>1
  <2>4. /\ SaveBackups(t) => pc[t] = "saveBackups"
        /\ LogoutBackups(t) => pc[t] = "logoutBackups"
        /\ LogoutSyncs(t) => pc[t] = "logoutSyncs"
        /\ ~saveProperty(t) /\ ~clearConfigurationFile(t)
    BY <1>3, WritersAt DEF SavesOther
  <2>5. /\ Quiet(t) /\ locks["settings"] = Free /\ failures' = failures + 1
        /\ disk' = disk /\ unsettled \subseteq unsettled'
        /\ pc'[t] = "idle" => my'[t] = NoLocals
        /\ pc'[t] # "idle" => Rest(my'[t], my[t]) /\ my'[t].wiped = my[t].wiped
        /\ pc'[t] # "idle" => my'[t].pending = <<>>
        /\ pc'[t] = l.ret
    BY <1>q, <2>2 DEF After, SavedOther
  <2>7. /\ SaveBackups(t) => pc'[t] = "unlockBackups"
        /\ LogoutBackups(t) => pc'[t] = "logoutSyncs"
        /\ LogoutSyncs(t) => pc'[t] = "clear"
    BY <1>3, <2>2, <2>4, <2>5 DEF SavedOther
  <2>6. my'[t].pending = <<>>
    BY <2>5 DEF NoLocals
  <2> QED
    BY <2>1, <2>3, <2>4, <2>5, <2>6, <2>7
<1> QED
  BY <1>1, <1>2, <1>3 DEF Skips

(* The end of a write: what is left of what was to be written, and whose    *)
(* list it has overwritten.                                                 *)
Overwrites(t) == RemovesAll(t) \/ my[t].lost

LEMMA EndWriteIs ==
  ASSUME StoreInv, NEW t \in Threads, EndWrite(t)
  PROVE  /\ pc[t] = "writing" /\ disk.writing \in Files
         /\ UNCHANGED <<up, todo, mem, api, loggedIn>>
         /\ unsettled \subseteq unsettled' /\ failures' \in Nat
         /\ disk' \in Disks /\ disk'.writing = "none"
         /\ disk.writing # "cfg" => disk'.cfg = disk.cfg
         /\ disk.writing = "cfg" =>
               \A k \in Keys : /\ disk'.cfg[k] \in {my[t].buf[k], NoValue[k]}
                               /\ disk'.cfg[k] # my[t].buf[k] => k \in unsettled'
         /\ disk.writing = "cfg" /\ disk'.cfg # my[t].buf => failures' = failures + 1
         /\ disk.writing # "backups" => disk'.backups = disk.backups
         /\ disk.writing = "backups" =>
               \A f \in Paths : disk'.backups[f] # mem.backups[f].num => f \in unsettled'
         /\ \A u \in Threads :
               IF u = t /\ After(my[t]) = "idle" THEN my'[u] = NoLocals
               ELSE \E w \in BOOLEAN :
                      /\ my'[u] = [my[u] EXCEPT !.wiped = w]
                      /\ my[u].wiped \/ Overwrites(t) => w
                      /\ disk.writing = "cfg" /\ disk'.cfg # my[t].buf => w
         /\ my' = [u \in Threads |-> my'[u]]
<1>0. /\ TypeOK /\ pc[t] = "writing" /\ disk.writing \in Files
  BY ThreadsAssumption DEF StoreInv, TypeOK, Writers, EndWrite, At, Disks
<1> DEFINE file == disk.writing
           wanted == Contents(my[t])[file]
           rest == IF file = "syncs" THEN SUBSET wanted ELSE Parts(wanted, Emptied[file])
<1>1. PICK left \in Perhaps(wanted, rest) :
        /\ disk' = [disk EXCEPT ![file] = left, !.writing = "none",
                                !.oldFormat = @ /\ file # "syncs"]
        /\ my' = [u \in Threads |->
                    IF u = t /\ After(my[t]) = "idle" THEN NoLocals
                    ELSE [my[u] EXCEPT !.wiped = \/ @ \/ RemovesAll(t) \/ my[t].lost
                                                 \/ file = "cfg" /\ left # wanted]]
        /\ unsettled' = unsettled \cup Unsaved(file, wanted, left)
        /\ FailsIf(left # wanted)
  BY DEF EndWrite
<1>2. UNCHANGED <<up, todo, mem, api, loggedIn>>
  BY DEF EndWrite
<1>3. failures' \in Nat /\ (left # wanted => failures' = failures + 1)
  <2>1. PICK b \in BOOLEAN : b <=> left # wanted
    OBVIOUS
  <2>2. (left # wanted) = b
    BY <2>1
  <2>3. FailsIf(b)
    BY <1>1, <2>2
  <2> QED
    BY <1>0, <2>1, <2>3, FailsIs
<1>4. PICK old : disk' = [disk EXCEPT ![file] = left, !.writing = "none", !.oldFormat = old]
                 /\ old = (disk.oldFormat /\ file # "syncs")
  BY <1>1
<1>5. old \in BOOLEAN
  BY <1>4
<1>6. CASE file = "cfg"
  <2>1. wanted = my[t].buf /\ Emptied[file] = NoValue /\ my[t].buf \in Properties
        /\ DOMAIN my[t].buf = Keys
    BY <1>0, <1>6, FieldsTyped DEF Contents, Emptied, Properties
  <2>2. /\ left \in Properties
        /\ \A k \in Keys : left[k] \in {my[t].buf[k], NoValue[k]}
    <3>1. left = my[t].buf \/ left \in Parts(my[t].buf, NoValue)
      BY <1>6, <2>1, PerhapsIs
    <3> QED
      BY <2>1, <3>1, PropertiesKept
  <2>3. disk' = [disk EXCEPT !.cfg = left, !.writing = "none", !.oldFormat = old]
    BY <1>4, <1>6
  <2>4. /\ disk' \in Disks /\ disk'.writing = "none" /\ disk'.cfg = left
        /\ disk'.backups = disk.backups
    BY <1>0, <1>5, <2>2, <2>3 DEF TypeOK, Disks
  <2>5. unsettled' = unsettled \cup Differing(my[t].buf, left)
    BY <1>1, <1>6, <2>1 DEF Unsaved
  <2>6. \A k \in Keys : left[k] # my[t].buf[k] => k \in unsettled'
    BY <2>1, <2>5, DifferingIs
  <2>7. \A u \in Threads :
           IF u = t /\ After(my[t]) = "idle" THEN my'[u] = NoLocals
           ELSE \E w \in BOOLEAN : /\ my'[u] = [my[u] EXCEPT !.wiped = w]
                                   /\ my[u].wiped \/ Overwrites(t) => w
                                   /\ left # my[t].buf => w
    <3> SUFFICES ASSUME NEW u \in Threads, ~(u = t /\ After(my[t]) = "idle")
                 PROVE  \E w \in BOOLEAN : /\ my'[u] = [my[u] EXCEPT !.wiped = w]
                                           /\ my[u].wiped \/ Overwrites(t) => w
                                           /\ left # my[t].buf => w
      BY <1>1
    <3>1. my'[u] = [my[u] EXCEPT !.wiped = \/ my[u].wiped \/ RemovesAll(t) \/ my[t].lost
                                           \/ file = "cfg" /\ left # wanted]
      BY <1>0, <1>1 DEF TypeOK, Locals
    <3>2. PICK w : /\ my'[u] = [my[u] EXCEPT !.wiped = w]
                   /\ w = (\/ my[u].wiped \/ RemovesAll(t) \/ my[t].lost
                           \/ file = "cfg" /\ left # wanted)
      BY <3>1
    <3>3. w \in BOOLEAN /\ (my[u].wiped \/ Overwrites(t) => w) /\ (left # my[t].buf => w)
      BY <1>6, <2>1, <3>2 DEF Overwrites
    <3> QED
      BY <3>2, <3>3
  <2> HIDE DEF wanted
  <2>8. my' = [u \in Threads |-> my'[u]]
    BY <1>1
  <2> QED
    BY <1>0, <1>2, <1>3, <1>6, <2>1, <2>2, <2>4, <2>5, <2>6, <2>7, <2>8
<1>7. CASE file # "cfg"
  <2>7. \A u \in Threads :
           IF u = t /\ After(my[t]) = "idle" THEN my'[u] = NoLocals
           ELSE \E w \in BOOLEAN : /\ my'[u] = [my[u] EXCEPT !.wiped = w]
                                   /\ my[u].wiped \/ Overwrites(t) => w
    <3> SUFFICES ASSUME NEW u \in Threads, ~(u = t /\ After(my[t]) = "idle")
                 PROVE  \E w \in BOOLEAN : /\ my'[u] = [my[u] EXCEPT !.wiped = w]
                                           /\ my[u].wiped \/ Overwrites(t) => w
      BY <1>1
    <3>1. my'[u] = [my[u] EXCEPT !.wiped = \/ my[u].wiped \/ RemovesAll(t) \/ my[t].lost
                                           \/ file = "cfg" /\ left # wanted]
      BY <1>0, <1>1 DEF TypeOK, Locals
    <3>2. PICK w : /\ my'[u] = [my[u] EXCEPT !.wiped = w]
                   /\ w = (\/ my[u].wiped \/ RemovesAll(t) \/ my[t].lost
                           \/ file = "cfg" /\ left # wanted)
      BY <3>1
    <3>3. w \in BOOLEAN /\ (my[u].wiped \/ Overwrites(t) => w)
      BY <3>2 DEF Overwrites
    <3> QED
      BY <3>2, <3>3
  <2>8. my' = [u \in Threads |-> my'[u]]
    BY <1>1
  <2>9. CASE file = "syncs"
    <3>1. wanted = {e[1] : e \in mem.syncs}
      BY <2>9 DEF Contents
    <3>2. wanted \in SUBSET Legacy
      BY <1>0, <3>1 DEF TypeOK, Memories
    <3>3. left \in SUBSET Legacy
      BY <2>9, <3>2, PerhapsIs
    <3>4. disk' = [disk EXCEPT !.syncs = left, !.writing = "none", !.oldFormat = old]
      BY <1>4, <2>9
    <3>5. /\ disk' \in Disks /\ disk'.writing = "none" /\ disk'.cfg = disk.cfg
          /\ disk'.backups = disk.backups
      BY <1>0, <1>5, <3>3, <3>4 DEF TypeOK, Disks
    <3>6. unsettled \subseteq unsettled'
      BY <1>1
    <3> HIDE DEF wanted
    <3> QED
      BY <1>0, <1>2, <1>3, <2>7, <2>8, <2>9, <3>5, <3>6
  <2>10. CASE file = "backups"
    <3>1. /\ wanted = [f \in Paths |-> mem.backups[f].num] /\ wanted \in [Paths -> Nat]
      BY <1>0, <2>10 DEF Contents, TypeOK, Memories, Backups
    <3>2. left \in [Paths -> Nat]
      <4>1. left = wanted \/ left \in Parts(wanted, Emptied.backups)
        BY <2>10, PerhapsIs
      <4> QED
        BY <3>1, <4>1, BackupsFileKept
    <3>3. \A f \in Paths : left[f] # mem.backups[f].num => f \in unsettled'
      BY <1>1, <2>10, <3>1 DEF Unsaved, Differing
    <3>4. disk' = [disk EXCEPT !.backups = left, !.writing = "none", !.oldFormat = old]
      BY <1>4, <2>10
    <3>5. /\ disk' \in Disks /\ disk'.writing = "none" /\ disk'.cfg = disk.cfg
          /\ disk'.backups = left
      BY <1>0, <1>5, <3>2, <3>4 DEF TypeOK, Disks
    <3>6. unsettled \subseteq unsettled'
      BY <1>1
    <3> HIDE DEF wanted
    <3> QED
      BY <1>0, <1>2, <1>3, <2>7, <2>8, <2>10, <3>3, <3>5, <3>6
  <2> QED
    BY <1>0, <1>7, <2>9, <2>10 DEF Files
<1> QED
  BY <1>6, <1>7

LEMMA EndWriteKeeps ==
  ASSUME StoreInv, NEW t \in Threads, EndWrite(t)
  PROVE  /\ TypeOK'
         /\ \A u \in Threads : Placed(u)'
         /\ \A u \in Threads \ {t} : pc'[u] = pc[u] /\ Same(my'[u], my[u])
         /\ GoesAfter(t, my[t])
         /\ \A u \in Threads : u # t \/ pc'[t] # "idle" =>
               /\ my[u].wiped \/ Overwrites(t) => my'[u].wiped
               /\ disk.writing = "cfg" /\ disk'.cfg # my[t].buf => my'[u].wiped
         /\ locks'["settings"] = Free /\ \A m \in Mutexes \ {"settings"} : locks'[m] = locks[m]
<1>0. TypeOK /\ Placed(t) /\ my \in [Threads -> Locals] /\ pc[t] = "writing"
  BY DEF StoreInv, InCommand, TypeOK, EndWrite, At
<1> DEFINE next == After(my[t])
<1>1. next \in Labels \ {"writing", "start"}
  BY <1>0, FieldsTyped DEF Returns, Labels, After
<1>2. pc'[t] = next /\ (\A u \in Threads \ {t} : pc'[u] = pc[u]) /\ pc' \in [Threads -> Labels]
  BY <1>0, <1>1, GotoTyped DEF EndWrite
<1>3. \A u \in Threads :
         IF u = t /\ next = "idle" THEN my'[u] = NoLocals
         ELSE \E w \in BOOLEAN : /\ my'[u] = [my[u] EXCEPT !.wiped = w]
                                 /\ my[u].wiped \/ Overwrites(t) => w
                                 /\ disk.writing = "cfg" /\ disk'.cfg # my[t].buf => w
  BY EndWriteIs
<1> HIDE DEF next
<1>4. \A u \in Threads : ~(u = t /\ next = "idle") =>
         /\ my'[u] \in Locals /\ Same(my'[u], my[u])
         /\ my[u].wiped \/ Overwrites(t) => my'[u].wiped
         /\ disk.writing = "cfg" /\ disk'.cfg # my[t].buf => my'[u].wiped
  <2> SUFFICES ASSUME NEW u \in Threads, ~(u = t /\ next = "idle")
               PROVE  /\ my'[u] \in Locals /\ Same(my'[u], my[u])
                      /\ my[u].wiped \/ Overwrites(t) => my'[u].wiped
                      /\ disk.writing = "cfg" /\ disk'.cfg # my[t].buf => my'[u].wiped
    OBVIOUS
  <2>1. PICK w \in BOOLEAN : /\ my'[u] = [my[u] EXCEPT !.wiped = w]
                             /\ my[u].wiped \/ Overwrites(t) => w
                             /\ disk.writing = "cfg" /\ disk'.cfg # my[t].buf => w
    BY <1>3
  <2>2. my'[u] \in Locals
    <3>1. my[u] \in Locals
      BY <1>0
    <3>2. [my[u] EXCEPT !.wiped = w] \in Locals
      BY <3>1, FieldsSet
    <3> QED
      BY <2>1, <3>2
  <2>3. Same(my'[u], my[u]) /\ my'[u].wiped = w
    <3>1. my[u] \in Locals /\ my'[u] = [my[u] EXCEPT !.wiped = w]
      BY <1>0, <2>1
    <3> QED
      BY <3>1 DEF Same, Rest, Locals
  <2> QED
    BY <2>1, <2>2, <2>3
<1>5. GoesAfter(t, my[t])
  BY <1>1, <1>2, <1>3, <1>4 DEF GoesAfter, next
<1>6. \A u \in Threads \ {t} : Placed(u)'
  BY <1>2, <1>4 DEF StoreInv, InCommand, Placed, Same, Rest
<1>7. Placed(t)'
  <2>1. next = "idle" => my'[t] = NoLocals
    BY <1>3
  <2>2. my[t].ret \in Returns /\ my[t].cmd.op # "none"
    BY <1>0, FieldsTyped DEF Placed, Reaches
  <2>3. CASE next = "idle"
    BY <2>3, <2>1, <1>2 DEF Placed, NoLocals, NoCommand, Reaches, LoginLabels, Sessions,
       Locating, Copying
  <2>4. CASE my[t].pending # <<>>
    BY <2>4, <2>2, <1>0, <1>2, <1>4 DEF Placed, Reaches, LoginLabels, Same, Rest, next, After
  <2>5. CASE next # "idle" /\ my[t].pending = <<>>
    <3>1. my[t].ret \notin {"save", "set", "push", "writing"} /\ next = my[t].ret
      BY <2>2, <2>5 DEF Returns, next, After
    <3> QED
      BY <2>5, <1>0, <1>2, <1>4, <3>1 DEF Placed, Same, Rest
  <2> QED
    BY <2>3, <2>4, <2>5
<1>8. /\ locks'["settings"] = Free /\ \A m \in Mutexes \ {"settings"} : locks'[m] = locks[m]
      /\ locks' \in [Mutexes -> Threads \cup {Free}]
  BY <1>0 DEF EndWrite, Release, TypeOK, Mutexes
<1>9. my' \in [Threads -> Locals]
  <2>1. \A u \in Threads : my'[u] \in Locals
    BY <1>3, <1>4, ConstantsTyped
  <2>2. my' = [u \in Threads |-> my'[u]]
    BY EndWriteIs
  <2> QED
    BY <2>1, <2>2
<1>10. TypeOK'
  BY <1>0, <1>2, <1>8, <1>9, EndWriteIs DEF TypeOK
<1> QED
  BY <1>2, <1>4, <1>5, <1>6, <1>7, <1>8, <1>10 DEF next

-----------------------------------------------------------------------------
(* The login, and the unloading of a logout *)

LoginStep(t) ==
    \/ loadsyncs(t) /\ pc'[t] # "writing"
    \/ loadbackups(t)
    \/ transitionLegacyExclusionRules(t) \/ AddFilters(t) \/ HideLegacyFile(t)
    \/ ApplyRead(t) \/ ApplySet(t) \/ ApplyPush(t)
    \/ migrateSyncConfig(t)
    \/ MigrateAnswer(t) /\ UNCHANGED pc
    \/ ResumeBackups(t) \/ ResumeBackup(t) \/ RestartWebdav(t) \/ RestartFtp(t)
    \/ unloadConfiguration(t)

LEMMA LoginQuiet ==
  ASSUME StoreInv, NEW t \in Threads, LoginStep(t)
  PROVE  TypeOK' /\ Only(t) /\ Placed(t)' /\ Quiet(t)
<1>0. TypeOK /\ Placed(t) /\ my \in [Threads -> Locals]
  BY DEF StoreInv, InCommand, TypeOK
<1> USE DEF AtOp, At
<1>s. /\ LoginLabels \cup {"logoutBackups", "clear", "saveBackups", "unlockBackups"} \subseteq Labels
      /\ {"settings", "backups"} \subseteq Mutexes
  BY DEF Labels, Mutexes
<1>r. /\ \A l \in LoginLabels \cup {"saveBackups", "unlockBackups"} :
            Reaches("login", l) /\ l \notin {"idle", "save", "writing", "push"}
      /\ Reaches("logout", "logoutBackups") /\ Reaches("logout", "clear")
      /\ Reaches("logout-keep", "clear")
  BY DEF Reaches, Sessions, Locating, Copying, LoginLabels
<1>t. /\ \A l \in LoginLabels : pc[t] = l => my[t].cmd.op = "login" /\ l \notin {"save", "writing", "idle"}
  BY <1>0 DEF Placed, Reaches, LoginLabels
<1>1. CASE loadsyncs(t) /\ pc'[t] # "writing"
  <2>1. pc[t] = "start" /\ locks["settings"] = Free
    BY <1>1, WritersAt
  <2> QED
    BY <1>0, <1>1, <2>1, LoadSyncsTyped DEF Quiet
<1>2. CASE loadbackups(t)
  <2>1. pc[t] = "loadBackups" /\ my[t].cmd.op = "login"
    BY <1>2, <1>t DEF loadbackups, LoginLabels
  <2>2. mem' \in Memories
    <3>1. PICK read \in Perhaps(disk.backups, Parts(disk.backups, Emptied.backups)) :
             mem' = [mem EXCEPT !.backups =
                       [f \in Paths |-> IF read[f] = 0 THEN @[f]
                                        ELSE [num |-> read[f], tagged |-> FALSE]]]
      BY <1>2 DEF loadbackups
    <3>2. disk.backups \in [Paths -> Nat]
      BY <1>0 DEF TypeOK, Disks
    <3>3. read = disk.backups \/ read \in Parts(disk.backups, Emptied.backups)
      BY <3>1, PerhapsIs
    <3>4. read \in [Paths -> Nat]
      BY <3>2, <3>3, BackupsFileKept
    <3> QED
      BY <1>0, <3>1, <3>4 DEF TypeOK, Memories, Backups
  <2>4. failures' \in Nat
    <3>1. PICK read : FailsIf(read # disk.backups)
      BY <1>2 DEF loadbackups
    <3> QED
      BY <1>0, <3>1 DEF FailsIf, TypeOK
  <2>3. pc' \in [Threads -> Labels] /\ pc'[t] = "transition" /\ Only(t) /\ Placed(t)'
    BY <1>0, <1>2, <1>s, <1>r, <2>1, GoesOn DEF loadbackups, LoginLabels
  <2> QED
    BY <1>0, <1>2, <2>1, <2>2, <2>3, <2>4 DEF loadbackups, TypeOK, Quiet
<1>3. CASE transitionLegacyExclusionRules(t)
  <2>1. pc[t] = "transition" /\ my[t].cmd.op = "login"
    BY <1>3, <1>t DEF transitionLegacyExclusionRules, LoginLabels
  <2>2. PICK l \in {"apply", "addFilters"} : Goto(t, l)
    BY <1>3 DEF transitionLegacyExclusionRules
  <2>3. pc' \in [Threads -> Labels] /\ pc'[t] = l /\ Only(t) /\ Placed(t)'
    BY <1>0, <1>3, <1>s, <1>r, <2>1, <2>2, GoesOn DEF transitionLegacyExclusionRules, LoginLabels
  <2>4. disk' \in Disks /\ disk'.cfg = disk.cfg /\ disk'.writing = disk.writing
    BY <1>0, <1>3 DEF transitionLegacyExclusionRules, TypeOK, Disks
  <2> QED
    BY <1>0, <1>3, <2>1, <2>3, <2>4, FailsIs DEF transitionLegacyExclusionRules, TypeOK, Quiet
<1>4. CASE AddFilters(t)
  <2>1. pc[t] = "addFilters" /\ my[t].cmd.op = "login"
    BY <1>4, <1>t DEF AddFilters, LoginLabels
  <2>2. pc' \in [Threads -> Labels] /\ pc'[t] = "hide" /\ Only(t) /\ Placed(t)'
    BY <1>0, <1>4, <1>s, <1>r, <2>1, GoesOn DEF AddFilters, LoginLabels
  <2>3. disk' \in Disks /\ disk'.cfg = disk.cfg /\ disk'.writing = disk.writing
    BY <1>0, <1>4 DEF AddFilters, TypeOK, Disks
  <2> QED
    BY <1>0, <1>4, <2>1, <2>2, <2>3, FailsIs DEF AddFilters, TypeOK, Quiet
<1>5. CASE HideLegacyFile(t)
  <2>1. pc[t] = "hide" /\ my[t].cmd.op = "login"
    BY <1>5, <1>t DEF HideLegacyFile, LoginLabels
  <2>2. pc' \in [Threads -> Labels] /\ pc'[t] = "apply" /\ Only(t) /\ Placed(t)'
    BY <1>0, <1>5, <1>s, <1>r, <2>1, GoesOn DEF HideLegacyFile, LoginLabels
  <2>3. disk' \in Disks /\ disk'.cfg = disk.cfg /\ disk'.writing = disk.writing
    BY <1>0, <1>5 DEF HideLegacyFile, TypeOK, Disks
  <2> QED
    BY <1>0, <1>5, <2>1, <2>2, <2>3, FailsIs DEF HideLegacyFile, TypeOK, Quiet
<1>6. CASE ApplyRead(t)
  <2>1. pc[t] = "apply" /\ my[t].cmd.op = "login" /\ my[t].i \in 0 .. 8
    BY <1>0, <1>6, <1>t, FieldsTyped DEF ApplyRead, LoginLabels
  <2>2. CASE Goto(t, "migrate") /\ UNCHANGED <<my, failures>>
    <3>1. pc' \in [Threads -> Labels] /\ pc'[t] = "migrate" /\ Only(t) /\ Placed(t)'
      BY <1>0, <1>s, <1>r, <2>1, <2>2, GoesOn DEF LoginLabels
    <3> QED
      BY <1>0, <1>6, <2>1, <2>2, <3>1 DEF ApplyRead, TypeOK, Quiet
  <2>3. CASE my[t].i # 8
    <3> DEFINE key == ApplyOrder[my[t].i + 1]
    <3>0. PICK value \in Perhaps(Restored(key), {Default[key]}), l \in {"apply", "set"} :
            /\ my' = [my EXCEPT ![t].i = @ + 1, ![t].val = value] /\ Goto(t, l)
            /\ FailsIf(value # Restored(key))
      BY <1>6, <2>1, <2>3, ApplyOrderIs DEF ApplyRead
    <3>1. value \in Nat
      <4>1. disk.cfg \in Properties /\ ApplyOrder[my[t].i + 1] \in SettingKeys
        BY <1>0, <2>1, <2>3, ApplyOrderIs DEF TypeOK, Disks
      <4>2. \A k \in SettingKeys : k \in Keys /\ disk.cfg[k] \in Nat /\ Default[k] \in Nat
        BY <4>1, KeysAre, ConstantsTyped DEF Properties, ValuesOf
      <4>3. value = Restored(key) \/ value = Default[key]
        BY <3>0, PerhapsIs
      <4> QED
        BY <4>1, <4>2, <4>3 DEF Restored
    <3>2. failures' \in Nat
      BY <1>0, <3>0 DEF FailsIf, TypeOK
    <3> HIDE DEF key
    <3>3. [my[t] EXCEPT !.i = my[t].i + 1, !.val = value] \in Locals
      <4>1. my[t].i + 1 \in 0 .. 8
        BY <2>1, <2>3
      <4> QED
        BY <1>0, <3>1, <4>1, FieldsSet
    <3>4. /\ my' \in [Threads -> Locals] /\ \A u \in Threads \ {t} : my'[u] = my[u]
          /\ my'[t].cmd = my[t].cmd /\ my'[t].pending = my[t].pending
          /\ my'[t].ret = my[t].ret /\ my'[t].i = my[t].i + 1
      BY <1>0, <3>0, <3>3 DEF Locals
    <3>5. pc' \in [Threads -> Labels] /\ pc'[t] = l /\ Only(t)
      BY <1>0, <1>s, <3>0, <3>4, GotoTyped DEF Only, LoginLabels
    <3>6. Placed(t)'
      BY <1>0, <1>r, <2>1, <3>4, <3>5 DEF Placed, LoginLabels
    <3> QED
      BY <1>0, <1>6, <2>1, <3>2, <3>4, <3>5, <3>6 DEF ApplyRead, TypeOK, Quiet
  <2> QED
    BY <1>6, <2>2, <2>3, ApplyOrderIs DEF ApplyRead
<1>7. CASE ApplySet(t)
  <2>1. /\ pc[t] = "set" /\ my[t].cmd.op = "login" /\ my[t].i \in 1 .. 8
        /\ my[t].val \in Nat /\ ApplyOrder[my[t].i] \in SettingKeys
    BY <1>0, <1>7, <1>t, FieldsTyped, ApplyOrderIs DEF ApplySet, LoginLabels, Placed
  <2>2. CASE /\ Push(ApplyOrder[my[t].i], my[t].val) /\ Goto(t, "apply")
             /\ UNCHANGED <<my, locks>>
    <3>1. pc' \in [Threads -> Labels] /\ pc'[t] = "apply" /\ Only(t) /\ Placed(t)'
      BY <1>0, <1>s, <1>r, <2>1, <2>2, GoesOn DEF LoginLabels
    <3>2. api' \in Apis
      BY <1>0, <2>1, <2>2, PushTyped
    <3> QED
      BY <1>0, <1>7, <2>1, <2>2, <3>1, <3>2 DEF ApplySet, TypeOK, Quiet
  <2>3. CASE /\ ApplyOrder[my[t].i] \in ReclaimKeys /\ UNCHANGED api
             /\ FetchReclaim(t, ApplyOrder[my[t].i], my[t].val, "push")
    <3>1. /\ pc' \in [Threads -> Labels] /\ my' \in [Threads -> Locals]
          /\ locks' \in [Mutexes -> Threads \cup {Free}]
          /\ pc'[t] = "push" /\ locks'["settings"] = locks["settings"]
          /\ Only(t) /\ Placed(t)'
      BY <1>0, <2>1, <2>3, FetchReclaimTyped
    <3> QED
      BY <1>0, <1>7, <2>1, <2>3, <3>1 DEF ApplySet, TypeOK, Quiet
  <2>4. CASE Goto(t, "apply") /\ UNCHANGED <<my, locks, api>>
    <3>1. pc' \in [Threads -> Labels] /\ pc'[t] = "apply" /\ Only(t) /\ Placed(t)'
      BY <1>0, <1>s, <1>r, <2>1, <2>4, GoesOn DEF LoginLabels
    <3> QED
      BY <1>0, <1>7, <2>1, <2>4, <3>1 DEF ApplySet, TypeOK, Quiet
  <2> QED
    BY <1>7, <2>2, <2>3, <2>4 DEF ApplySet
<1>8. CASE ApplyPush(t)
  <2>1. pc[t] = "push" /\ my[t].cmd.op = "login"
    BY <1>8 DEF ApplyPush
  <2>2. pc' \in [Threads -> Labels] /\ pc'[t] = "apply" /\ Only(t) /\ Placed(t)'
    BY <1>0, <1>8, <1>s, <1>r, <2>1, GoesOn DEF ApplyPush, LoginLabels
  <2>3. /\ api' \in Apis /\ locks' \in [Mutexes -> Threads \cup {Free}]
        /\ locks'["settings"] = locks["settings"]
    <3>1. Release("reclaim")
      BY <1>8 DEF ApplyPush, PushReclaim
    <3>2. PushReclaim(t) \/ UNCHANGED api
      BY <1>8 DEF ApplyPush
    <3> QED
      BY <1>0, <3>1, <3>2, PushTyped DEF TypeOK
  <2> QED
    BY <1>0, <1>8, <2>1, <2>2, <2>3 DEF ApplyPush, TypeOK, Quiet
<1>9. CASE migrateSyncConfig(t)
  <2>1. pc[t] = "migrate" /\ my[t].cmd.op = "login"
    BY <1>9, <1>t DEF migrateSyncConfig, LoginLabels
  <2>2. /\ my' \in [Threads -> Locals] /\ \A u \in Threads \ {t} : my'[u] = my[u]
        /\ my'[t].cmd = my[t].cmd /\ my'[t].pending = my[t].pending
        /\ my'[t].ret = my[t].ret
    <3>1. mem.syncs \in SUBSET (Legacy \X Nat)
      BY <1>0 DEF TypeOK, Memories
    <3>2. [my[t] EXCEPT !.sent = mem.syncs] \in Locals
      BY <1>0, <3>1, FieldsSet
    <3> QED
      BY <1>0, <1>9, <3>2 DEF migrateSyncConfig, Locals
  <2>3. pc' \in [Threads -> Labels] /\ pc'[t] = "migrating" /\ Only(t) /\ Placed(t)'
    BY <1>0, <1>9, <1>s, <1>r, <2>1, <2>2, GoesOn DEF migrateSyncConfig, LoginLabels
  <2> QED
    BY <1>0, <1>9, <2>1, <2>2, <2>3 DEF migrateSyncConfig, TypeOK, Quiet
<1>10. CASE MigrateAnswer(t) /\ UNCHANGED pc
  <2>1. pc[t] = "migrating" /\ my[t].cmd.op = "login"
    BY <1>10, <1>t DEF MigrateAnswer, LoginLabels
  <2>2. PICK entry \in my[t].sent :
          \E sent \in SUBSET my[t].sent, r \in {my[t].ret, "migrating"} :
            /\ my' = [my EXCEPT ![t] = [my[t] EXCEPT !.sent = sent, !.ret = r]]
            /\ disk' = disk \/ disk' = [disk EXCEPT !.cached = @ \cup {entry[1]}]
            /\ mem' = mem \/ mem' = [mem EXCEPT !.syncs = @ \ {entry}]
            /\ failures' = failures \/ Fail
            /\ UNCHANGED <<locks, pc>>
    <3>1. PICK entry \in my[t].sent :
            \/ removeSyncConfig(t, entry)
            \/ /\ my' = [my EXCEPT ![t].sent = @ \ {entry}]
               /\ UNCHANGED <<disk, mem, locks, pc, failures>>
      BY <1>10 DEF MigrateAnswer
    <3>2. ~Goto(t, "writing")
      BY <1>0, <1>10, <2>1, GotoTyped DEF Goto, TypeOK
    <3>3. CASE removeSyncConfig(t, entry)
      <4>1. my' = [my EXCEPT ![t] = [my[t] EXCEPT !.sent = my[t].sent \ {entry},
                                                  !.ret = "migrating"]]
        BY <3>3 DEF removeSyncConfig
      <4>2. /\ disk' = [disk EXCEPT !.cached = @ \cup {entry[1]}]
            /\ mem' = mem \/ mem' = [mem EXCEPT !.syncs = @ \ {entry}]
            /\ failures' = failures \/ Fail
            /\ UNCHANGED <<locks, pc>>
        BY <3>2, <3>3 DEF removeSyncConfig
      <4> QED
        BY <4>1, <4>2
    <3>4. CASE /\ my' = [my EXCEPT ![t].sent = @ \ {entry}]
               /\ UNCHANGED <<disk, mem, locks, pc, failures>>
      <4>1. my' = [my EXCEPT ![t] = [my[t] EXCEPT !.sent = my[t].sent \ {entry},
                                                  !.ret = my[t].ret]]
        BY <1>0, <3>4 DEF Locals
      <4> QED
        BY <3>4, <4>1
    <3> QED
      BY <3>1, <3>3, <3>4
  <2>p. PICK sent \in SUBSET my[t].sent, r \in {my[t].ret, "migrating"} :
            /\ my' = [my EXCEPT ![t] = [my[t] EXCEPT !.sent = sent, !.ret = r]]
            /\ disk' = disk \/ disk' = [disk EXCEPT !.cached = @ \cup {entry[1]}]
            /\ mem' = mem \/ mem' = [mem EXCEPT !.syncs = @ \ {entry}]
            /\ failures' = failures \/ Fail
            /\ UNCHANGED <<locks, pc>>
    BY <2>2
  <2>3. my[t].sent \in SUBSET (Legacy \X Nat)
    BY <1>0, FieldsTyped
  <2>4. /\ my' \in [Threads -> Locals] /\ \A u \in Threads \ {t} : my'[u] = my[u]
        /\ my'[t].cmd = my[t].cmd /\ my'[t].i = my[t].i
        /\ my'[t].pending = my[t].pending /\ my'[t].ret = r
    <3>1. my[t].ret \in Returns /\ "migrating" \in Returns
      BY <1>0, FieldsTyped DEF Returns, Labels, LoginLabels
    <3>2. [my[t] EXCEPT !.sent = sent, !.ret = r] \in Locals
      BY <1>0, <2>3, <3>1, FieldsSet
    <3>3. my'[t] = [my[t] EXCEPT !.sent = sent, !.ret = r]
      BY <1>0, <2>p
    <3> QED
      BY <1>0, <2>p, <3>2, <3>3 DEF Locals
  <2>5. disk' \in Disks /\ disk'.cfg = disk.cfg /\ disk'.writing = disk.writing
    <3>1. entry[1] \in Legacy
      BY <2>3
    <3>2. CASE disk' = [disk EXCEPT !.cached = @ \cup {entry[1]}]
      BY <1>0, <3>1, <3>2 DEF TypeOK, Disks
    <3> QED
      BY <1>0, <2>p, <3>2 DEF TypeOK
  <2>6. Placed(t)' /\ Only(t)
    <3>1. Only(t) /\ pc'[t] = "migrating"
      BY <1>0, <2>1, <2>p, <2>4 DEF Only
    <3>2. Reaches("login", "migrating")
      BY <1>r DEF LoginLabels
    <3>3. /\ my[t].pending = <<>>
          /\ my[t].ret # "idle" => Reaches("login", my[t].ret)
      BY <1>0, <2>1 DEF Placed
    <3>4. r # "idle" => Reaches("login", r)
      BY <3>2, <3>3
    <3>5. my'[t].cmd.op = "login" /\ my'[t].pending = <<>> /\ my'[t].ret = r
      BY <2>1, <2>4, <3>3
    <3> QED
      BY <3>1, <3>2, <3>4, <3>5 DEF Placed
  <2>7. mem' \in Memories
    <3>1. mem \in Memories
      BY <1>0 DEF TypeOK
    <3>2. CASE mem' = [mem EXCEPT !.syncs = @ \ {entry}]
      BY <3>1, <3>2 DEF Memories
    <3> QED
      BY <2>p, <3>1, <3>2
  <2>8. failures' \in Nat
    BY <1>0, <2>p, FailsIs DEF TypeOK
  <2> QED
    BY <1>0, <1>10, <2>1, <2>p, <2>4, <2>5, <2>6, <2>7, <2>8 DEF MigrateAnswer, TypeOK, Quiet
<1>11. CASE ResumeBackups(t)
  <2>1. pc[t] = "migrating" /\ my[t].cmd.op = "login"
    BY <1>11, <1>t DEF ResumeBackups, LoginLabels
  <2>2. PICK l \in {"resume", "unlockBackups"} : Goto(t, l)
    BY <1>11 DEF ResumeBackups
  <2>3. /\ my' \in [Threads -> Locals] /\ \A u \in Threads \ {t} : my'[u] = my[u]
        /\ my'[t].cmd = my[t].cmd /\ my'[t].pending = my[t].pending
        /\ my'[t].ret = my[t].ret
    <3>1. [my[t] EXCEPT !.list = {f \in Paths : mem.backups[f] # NoBackup}] \in Locals
      BY <1>0, FieldsSet
    <3> QED
      BY <1>0, <1>11, <3>1 DEF ResumeBackups, Locals
  <2>4. pc' \in [Threads -> Labels] /\ pc'[t] = l /\ Only(t) /\ Placed(t)'
    BY <1>0, <1>s, <1>r, <2>1, <2>2, <2>3, GoesOn DEF LoginLabels
  <2>5. /\ locks' \in [Mutexes -> Threads \cup {Free}]
        /\ locks'["settings"] = locks["settings"]
    BY <1>0, <1>11, <1>s DEF ResumeBackups, Acquire, TypeOK
  <2> QED
    BY <1>0, <1>11, <2>1, <2>3, <2>4, <2>5 DEF ResumeBackups, TypeOK, Quiet
<1>12. CASE ResumeBackup(t)
  <2>1. pc[t] = "resume" /\ my[t].cmd.op = "login" /\ my[t].list \in SUBSET Paths
    BY <1>0, <1>12, <1>t, FieldsTyped DEF ResumeBackup, LoginLabels
  <2>2. CASE Goto(t, "saveBackups") /\ UNCHANGED <<my, mem, api>>
    <3>1. pc' \in [Threads -> Labels] /\ pc'[t] = "saveBackups" /\ Only(t) /\ Placed(t)'
      BY <1>0, <1>s, <1>r, <2>1, <2>2, GoesOn DEF LoginLabels
    <3> QED
      BY <1>0, <1>12, <2>1, <2>2, <3>1 DEF ResumeBackup, TypeOK, Quiet
  <2>3. ASSUME NEW f \in my[t].list, my' = [my EXCEPT ![t].list = @ \ {f}], UNCHANGED pc,
               \/ /\ api' = [api EXCEPT !.backups[f] = mem.backups[f].num]
                  /\ mem' = [mem EXCEPT !.backups[f].tagged = TRUE]
               \/ UNCHANGED <<mem, api>>
        PROVE  TypeOK' /\ Only(t) /\ Placed(t)' /\ Quiet(t)
    <3>1. /\ my' \in [Threads -> Locals] /\ \A u \in Threads \ {t} : my'[u] = my[u]
          /\ my'[t].cmd = my[t].cmd /\ my'[t].pending = my[t].pending
          /\ my'[t].ret = my[t].ret
      <4>1. [my[t] EXCEPT !.list = @ \ {f}] \in Locals
        BY <1>0, <2>1, FieldsSet
      <4> QED
        BY <1>0, <2>3, <4>1 DEF Locals
    <3>2. f \in Paths
      BY <2>1
    <3>6. api' \in Apis /\ mem' \in Memories
      <4>1. CASE UNCHANGED <<mem, api>>
        BY <1>0, <4>1 DEF TypeOK
      <4>2. CASE /\ api' = [api EXCEPT !.backups[f] = mem.backups[f].num]
                 /\ mem' = [mem EXCEPT !.backups[f].tagged = TRUE]
        <5>1. mem.backups[f] \in Backups /\ mem.backups[f].num \in Nat
          BY <1>0, <3>2 DEF TypeOK, Memories, Backups
        <5>2. api' \in Apis
          BY <1>0, <3>2, <4>2, <5>1 DEF TypeOK, Apis
        <5>3. [mem.backups[f] EXCEPT !.tagged = TRUE] \in Backups
          BY <5>1 DEF Backups
        <5>4. mem' \in Memories
          BY <1>0, <3>2, <4>2, <5>3 DEF TypeOK, Memories
        <5> QED
          BY <5>2, <5>4
      <4> QED
        BY <2>3, <4>1, <4>2
    <3>5. Placed(t)' /\ Only(t)
      BY <1>0, <2>1, <2>3, <3>1 DEF Placed, Only
    <3> QED
      BY <1>0, <1>12, <2>1, <2>3, <3>1, <3>5, <3>6 DEF ResumeBackup, TypeOK, Quiet
  <2> QED
    BY <1>12, <2>2, <2>3 DEF ResumeBackup
<1>a. \A p \in Protocols : RestartServer(p) => api' \in Apis
  <2>1. disk.cfg \in Properties /\ \A p \in Protocols : Served[p] \in ListKeys
    BY <1>0 DEF TypeOK, Disks, ListKeys
  <2>2. \A p \in Protocols : disk.cfg[Served[p]] \in SUBSET Paths
    BY <2>1, KeysAre DEF Properties, ValuesOf
  <2>3. ASSUME NEW p \in Protocols,
               api' = [api EXCEPT !.running[p] = TRUE, !.allowed[p] = @ \cup disk.cfg[Served[p]]]
        PROVE  api' \in Apis
    <3> DEFINE d == disk.cfg[Served[p]]
    <3>1. d \in SUBSET Paths
      BY <2>2
    <3> HIDE DEF d
    <3>2. api' = [api EXCEPT !.running[p] = TRUE, !.allowed[p] = @ \cup d]
      BY <2>3 DEF d
    <3> QED
      BY <1>0, <3>1, <3>2 DEF TypeOK, Apis
  <2> QED
    BY <1>0, <2>3 DEF RestartServer, TypeOK
<1>13. CASE RestartWebdav(t)
  <2>1. pc[t] = "webdav" /\ my[t].cmd.op = "login"
    BY <1>13, <1>t DEF RestartWebdav, LoginLabels
  <2>2. pc' \in [Threads -> Labels] /\ pc'[t] = "ftp" /\ Only(t) /\ Placed(t)'
    BY <1>0, <1>13, <1>s, <1>r, <2>1, GoesOn DEF RestartWebdav, LoginLabels
  <2>3. api' \in Apis
    BY <1>13, <1>a DEF RestartWebdav, Protocols
  <2> QED
    BY <1>0, <1>13, <2>1, <2>2, <2>3 DEF RestartWebdav, TypeOK, Quiet
<1>14. CASE RestartFtp(t)
  <2>1. pc[t] = "ftp"
    BY <1>14 DEF RestartFtp
  <2>2. /\ pc' \in [Threads -> Labels] /\ my' \in [Threads -> Locals]
        /\ pc'[t] = "idle" /\ Only(t) /\ Placed(t)'
    BY <1>0, <1>14, FinishTyped DEF RestartFtp
  <2>3. api' \in Apis
    BY <1>14, <1>a DEF RestartFtp, Protocols
  <2> QED
    BY <1>0, <1>14, <2>1, <2>2, <2>3 DEF RestartFtp, TypeOK, Quiet
<1>15. CASE unloadConfiguration(t)
  <2>1. pc[t] = "start" /\ my[t].cmd.op \in {"logout", "logout-keep"}
    BY <1>15 DEF unloadConfiguration
  <2>2. PICK l \in {"logoutBackups", "clear"} :
           Goto(t, l) /\ (l = "logoutBackups" => my[t].cmd.op = "logout")
    BY <1>15 DEF unloadConfiguration
  <2>3. pc' \in [Threads -> Labels] /\ pc'[t] = l /\ Only(t) /\ Placed(t)'
    BY <1>0, <1>15, <1>s, <1>r, <2>1, <2>2, GoesOn DEF unloadConfiguration
  <2>4. mem' \in Memories /\ api' \in Apis
    BY <1>0, <1>15 DEF unloadConfiguration, TypeOK, Memories, Backups, NoBackup, Apis
  <2> QED
    BY <1>0, <1>15, <2>1, <2>3, <2>4 DEF unloadConfiguration, TypeOK, Quiet
<1> QED
  BY <1>1, <1>2, <1>3, <1>4, <1>5, <1>6, <1>7, <1>8, <1>9, <1>10, <1>11, <1>12, <1>13, <1>14,
     <1>15 DEF LoginStep

LEMMA StartQuiet ==
  ASSUME StoreInv, NEW t \in Threads, Start(t)
  PROVE  /\ TypeOK' /\ Only(t) /\ Placed(t)' /\ Quiet(t)
         /\ my'[t].cmd = Head(todo[t]) /\ my'[t].cmd \in Commands
<1>0. TypeOK /\ Placed(t) /\ my \in [Threads -> Locals] /\ pc[t] = "idle"
  BY DEF StoreInv, InCommand, TypeOK, Start, At
<1>1. pc' \in [Threads -> Labels] /\ pc'[t] = "start" /\ \A u \in Threads \ {t} : pc'[u] = pc[u]
  BY <1>0, GotoTyped DEF Start, Labels
<1>2. /\ my'[t].cmd = Head(todo[t]) /\ my'[t].pending = my[t].pending /\ my'[t].ret = my[t].ret
      /\ \A u \in Threads \ {t} : my'[u] = my[u]
  BY <1>0 DEF Start, Locals
<1>3. Head(todo[t]) \in Commands
  <2>1. todo[t] \in Seq(Commands) /\ todo[t] # <<>>
    BY <1>0 DEF TypeOK, Start
  <2> QED
    BY <2>1, HeadTailProperties
<1>4. Placed(t)'
  BY <1>0, <1>1, <1>2, <1>3, CommandsAre DEF Placed, Reaches, LoginLabels
<1> QED
  BY <1>0, <1>1, <1>2, <1>3, <1>4, StartTyped DEF Start, Only, Quiet

-----------------------------------------------------------------------------
(* The steps of the system *)

QuietStep(t) == Start(t) \/ SettingStep(t) \/ LocationStep(t) \/ BackupStep(t) \/ LoginStep(t)

LEMMA StepsAre ==
  ASSUME Next
  PROVE  \/ \E t \in Threads : \/ QuietStep(t) \/ Rewrites(t) \/ OpensOther(t) \/ Skips(t)
                               \/ EndWrite(t)
         \/ Crash \/ Restart \/ Done
<1>1. ASSUME NEW t \in Threads,
             Start(t) \/ saveProperty(t) \/ EndWrite(t) \/ Command(t) \/ Login(t) \/ Logout(t)
      PROVE  QuietStep(t) \/ Rewrites(t) \/ OpensOther(t) \/ Skips(t) \/ EndWrite(t)
  <2>1. CASE Command(t)
    BY <2>1 DEF Command, QuietStep, SettingStep, LocationStep, BackupStep, OpensOther, Skips,
                SavesOther
  <2>2. CASE Login(t)
    BY <2>2 DEF Login, QuietStep, LoginStep, OpensOther
  <2>3. CASE Logout(t)
    BY <2>3 DEF Logout, QuietStep, LoginStep, OpensOther, Rewrites, Skips, SavesOther
  <2>4. CASE saveProperty(t)
    BY <2>4 DEF Rewrites, Skips
  <2> QED
    BY <1>1, <2>1, <2>2, <2>3, <2>4 DEF QuietStep
<1> QED
  BY <1>1 DEF Next

LEMMA QuietKeeps ==
  ASSUME StoreInv, NEW t \in Threads, QuietStep(t)
  PROVE  TypeOK' /\ Only(t) /\ Placed(t)' /\ Quiet(t)
BY StartQuiet, SettingsQuiet, LocationsQuiet, BackupsQuiet, LoginQuiet DEF QuietStep

LEMMA CrashKeeps ==
  ASSUME StoreInv, Crash
  PROVE  StoreInv'
<1>1. /\ pc' = [t \in Threads |-> "idle"] /\ my' = [t \in Threads |-> NoLocals]
      /\ locks' = [m \in Mutexes |-> Free] /\ disk' \in Disks /\ disk'.writing = "none"
  BY DEF StoreInv, TypeOK, Crash, Disks
<1>2. TypeOK'
  BY <1>1, ConstantsTyped, FailsIs
     DEF StoreInv, TypeOK, Crash, Labels, Memories, Backups, NoBackup
<1>3. InCommand'
  BY <1>1 DEF InCommand, Placed, Reaches, NoLocals, NoCommand, LoginLabels, Sessions, Locating,
     Copying
<1>4. Writers'
  BY <1>1, ThreadsAssumption DEF Writers, Mutexes
<1> QED
  BY <1>2, <1>3, <1>4 DEF StoreInv

LEMMA RestartKeeps ==
  ASSUME StoreInv, Restart
  PROVE  StoreInv'
<1>1. disk.cfg["proxy_url"] \in Nat
  BY KeysAre DEF StoreInv, TypeOK, Disks, Properties, ValuesOf
<1> DEFINE proxy == [NoCommand EXCEPT !.op = "proxy", !.val = disk.cfg["proxy_url"]]
           login == [NoCommand EXCEPT !.op = "login"]
           first == IF disk.cfg["proxy_url"] # 0 THEN <<proxy, login>> ELSE <<login>>
<1>2. login \in Commands
  BY DEF NoCommand, Commands, Sessions
<1>3. disk.cfg["proxy_url"] # 0 => proxy \in Commands
  <2>1. "proxy" \in DOMAIN Setting /\ "none" \in Setting["proxy"]
    <3>1. Setting.proxy = {"proxy", "none"} /\ "proxy" \in DOMAIN Setting
      BY DEF Setting
    <3> QED
      BY <3>1
  <2>2. \A v \in Nat \ {0} :
           LET c == [NoCommand EXCEPT !.op = "proxy", !.val = v]
           IN  /\ c \in [op : DOMAIN Setting, val : Nat \ {0}, path : {"none"},
                        key : SettingKeys \cup {"both", "proxy", "autoupdate", "none"}]
               /\ c.op = "proxy" /\ c.key = "none"
    BY <2>1 DEF NoCommand
  <2>3. \A v \in Nat \ {0} : [NoCommand EXCEPT !.op = "proxy", !.val = v] \in Commands
    BY <2>1, <2>2 DEF Commands
  <2> QED
    BY <1>1, <2>3
<1>4. first \in Seq(Commands)
  <2> HIDE DEF proxy, login
  <2> QED
    BY <1>2, <1>3
<1>5. todo' \in [Threads -> Seq(Commands)]
  <2>1. todo' = [todo EXCEPT ![Startup] = first \o @]
    BY DEF Restart
  <2> HIDE DEF first
  <2>2. \A q \in Seq(Commands) : first \o q \in Seq(Commands)
    BY <1>4
  <2> QED
    BY <2>1, <2>2, ThreadsAssumption DEF StoreInv, TypeOK
<1> QED
  BY <1>5 DEF StoreInv, TypeOK, Restart, InCommand, Placed, Writers

LEMMA StoreInvKept ==
  ASSUME StoreInv, [Next]_vars
  PROVE  StoreInv'
<1>0. TypeOK /\ InCommand /\ Writers
  BY DEF StoreInv
<1>1. ASSUME NEW t \in Threads, QuietStep(t) \/ Skips(t) PROVE StoreInv'
  <2>1. TypeOK' /\ Only(t) /\ Placed(t)' /\ Quiet(t)
    BY <1>1, QuietKeeps, SkipsTyped
  <2>2. InCommand'
    BY <1>0, <2>1 DEF InCommand, Only, Placed
  <2>3. Writers'
    BY <1>0, <2>1 DEF Writers, Only, Quiet
  <2> QED
    BY <2>1, <2>2, <2>3 DEF StoreInv
<1>2. ASSUME NEW t \in Threads, Rewrites(t) \/ OpensOther(t) PROVE StoreInv'
  <2>1. TypeOK' /\ Only(t) /\ Placed(t)' /\ Opens(t)
    BY <1>2, RewritesTyped, OpensOtherTyped
  <2>2. InCommand'
    BY <1>0, <2>1 DEF InCommand, Only, Placed
  <2>3. Writers'
    <3>1. locks["settings"] = Free /\ disk.writing = "none" /\ disk'.writing # "none"
      BY <1>0, <2>1 DEF Writers, Opens, Files
    <3>2. \A u \in Threads : pc'[u] = "writing" <=> u = t
      BY <1>0, <2>1, <3>1, ThreadsAssumption DEF Writers, Only, Opens
    <3> QED
      BY <2>1, <3>1, <3>2, ThreadsAssumption DEF Writers, Opens
  <2> QED
    BY <2>1, <2>2, <2>3 DEF StoreInv
<1>3. ASSUME NEW t \in Threads, EndWrite(t) PROVE StoreInv'
  <2>1. /\ TypeOK' /\ pc[t] = "writing" /\ pc'[t] # "writing"
        /\ \A u \in Threads : Placed(u)'
        /\ \A u \in Threads \ {t} : pc'[u] = pc[u]
        /\ locks'["settings"] = Free /\ disk'.writing = "none"
    BY <1>3, EndWriteKeeps, EndWriteIs DEF GoesAfter
  <2>2. Writers'
    BY <1>0, <2>1, ThreadsAssumption DEF Writers
  <2> QED
    BY <2>1, <2>2 DEF StoreInv, InCommand
<1>4. CASE UNCHANGED vars
  BY <1>4 DEF StoreInv, TypeOK, InCommand, Placed, Writers, vars
<1> QED
  BY <1>1, <1>2, <1>3, <1>4, StepsAre, CrashKeeps, RestartKeeps DEF Done

(* The types, the place of every thread in its command, and the one writer  *)
(* of a file are right in every reachable state.                            *)
THEOREM StoreInvHolds ==
  Spec => []StoreInv
<1>1. Init => StoreInv
  BY InitTyped
<1>2. StoreInv /\ [Next]_vars => StoreInv'
  BY StoreInvKept
<1> QED
  BY <1>1, <1>2, PTL DEF Spec

-----------------------------------------------------------------------------
(* megacmd.cfg implements the store *)

(* What a thread is writing to it. *)
LEMMA StoredIs ==
  ASSUME StoreInv
  PROVE  /\ disk.writing # "cfg" => Stored = disk.cfg
         /\ \A t \in Threads : pc[t] = "writing" /\ disk.writing = "cfg" => Stored = my[t].buf
         /\ Stored \in Properties
<1>1. ASSUME NEW t \in Threads, pc[t] = "writing", disk.writing = "cfg"
      PROVE  Stored = my[t].buf
  <2>1. \A u \in Threads : pc[u] = "writing" <=> u = t
    BY <1>1, ThreadsAssumption DEF StoreInv, Writers
  <2>2. (CHOOSE u \in Threads : pc[u] = "writing") = t
    BY <2>1
  <2> QED
    BY <1>1, <2>2 DEF Stored
<1>2. disk.writing = "cfg" => \E t \in Threads : pc[t] = "writing"
  BY ThreadsAssumption DEF StoreInv, Writers, TypeOK, Mutexes
<1> QED
  BY <1>1, <1>2, FieldsTyped DEF Stored, StoreInv, TypeOK, Disks

LEMMA StoredQuiet ==
  ASSUME StoreInv, StoreInv', NEW t \in Threads, Only(t), Quiet(t)
  PROVE  Stored' = Stored
<1>1. CASE disk.writing = "cfg"
  <2>1. PICK u \in Threads : pc[u] = "writing"
    BY <1>1, ThreadsAssumption DEF StoreInv, Writers, TypeOK, Mutexes
  <2>2. Stored = my[u].buf
    BY <1>1, <2>1, StoredIs
  <2>3. pc'[u] = "writing" /\ my'[u] = my[u] /\ disk'.writing = "cfg"
    BY <1>1, <2>1 DEF Only, Quiet
  <2>4. Stored' = my'[u].buf
    <3>1. \A v \in Threads : pc'[v] = "writing" <=> v = u
      BY <2>3, ThreadsAssumption DEF StoreInv, Writers
    <3>2. (CHOOSE v \in Threads : pc'[v] = "writing") = u
      BY <3>1
    <3> QED
      BY <2>3, <3>2 DEF Stored
  <2> QED
    BY <2>2, <2>3, <2>4
<1>2. CASE disk.writing # "cfg"
  BY <1>2 DEF Stored, Quiet
<1> QED
  BY <1>1, <1>2

(* A thread that writes megacmd.cfg has changed the store. *)
LEMMA StoredWritten ==
  ASSUME StoreInv', NEW t \in Threads, pc'[t] = "writing", disk'.writing = "cfg"
  PROVE  Stored' = my'[t].buf
<1>1. \A v \in Threads : pc'[v] = "writing" <=> v = t
  BY ThreadsAssumption DEF StoreInv, Writers
<1>2. (CHOOSE v \in Threads : pc'[v] = "writing") = t
  BY <1>1
<1> QED
  BY <1>2 DEF Stored

(* A step counts one failure at most. *)
LEMMA FailuresCounted ==
  ASSUME StoreInv, [Next]_vars
  PROVE  failures' \in {failures, failures + 1}
<1>0. failures \in Nat
  BY DEF StoreInv, TypeOK
<1>1. \A b : FailsIf(b) => failures' \in {failures, failures + 1}
  BY DEF FailsIf
<1>2. Fail => failures' \in {failures, failures + 1}
  BY DEF Fail
<1>3. \A t, file, l : CannotOpen(t, file, l) => Fail
  BY DEF CannotOpen
<1>4. ASSUME NEW t \in Threads, saveProperty(t) \/ clearConfigurationFile(t)
      PROVE  failures' \in {failures, failures + 1}
  BY <1>1, <1>2, <1>3, <1>4 DEF saveProperty, clearConfigurationFile, Rewrite
<1>5. ASSUME NEW t \in Threads, SavesOther(t) PROVE failures' \in {failures, failures + 1}
  BY <1>2, <1>3, <1>5 DEF SavesOther, SaveBackups, LogoutBackups, LogoutSyncs, Saving
<1>6. ASSUME NEW t \in Threads, EndWrite(t) PROVE failures' \in {failures, failures + 1}
  BY <1>1, <1>6 DEF EndWrite
<1>7. ASSUME NEW t \in Threads, Login(t) PROVE failures' \in {failures, failures + 1}
  <2>1. CASE loadsyncs(t)
    BY <1>1, <1>2, <1>3, <2>1 DEF loadsyncs
  <2>2. CASE loadbackups(t)
    BY <1>1, <2>2 DEF loadbackups
  <2>3. CASE transitionLegacyExclusionRules(t) \/ AddFilters(t) \/ HideLegacyFile(t)
    BY <1>2, <2>3 DEF transitionLegacyExclusionRules, AddFilters, HideLegacyFile
  <2>4. CASE ApplyRead(t)
    BY <1>1, <2>4 DEF ApplyRead
  <2>5. CASE MigrateAnswer(t)
    <3>1. PICK entry \in my[t].sent :
            \/ removeSyncConfig(t, entry)
            \/ /\ my' = [my EXCEPT ![t].sent = @ \ {entry}]
               /\ UNCHANGED <<disk, mem, locks, pc, failures>>
      BY <2>5 DEF MigrateAnswer
    <3> QED
      BY <1>2, <3>1 DEF removeSyncConfig
  <2> QED
    BY <1>7, <2>1, <2>2, <2>3, <2>4, <2>5
       DEF Login, ApplySet, ApplyPush, migrateSyncConfig, ResumeBackups, ResumeBackup,
           RestartWebdav, RestartFtp
<1>8. ASSUME NEW t \in Threads, Command(t) PROVE failures' \in {failures, failures + 1}
  <2>1. CASE \/ addWebdavLocation(t) \/ addFtpLocation(t)
             \/ removeWebdavLocation(t) \/ removeFtpLocation(t)
    BY <1>1, <2>1 DEF addWebdavLocation, addFtpLocation, removeWebdavLocation,
                     removeFtpLocation, AddLocation, RemoveLocation
  <2> QED
    BY <1>5, <1>8, <2>1
       DEF Command, SavesOther, Configure, ConfigurePush, Speedlimit, SpeedlimitUp, Graphics,
           GraphicsSave, Permissions, setProxy, UpdateAuto, StartWebdav, StartFtp, StartServer,
           Link, Unserve, RemoveAll, ListLocations, ListLinks, UnlockLocations,
           createOrModifyBackup, RegisterBackup, RefusedBackup, UnlockBackups, FindBackup,
           BackupNotFound, RemoveScheduledCopy, EraseBackup, EraseStoppedBackup
<1>9. ASSUME NEW t \in Threads, Logout(t) PROVE failures' \in {failures, failures + 1}
  BY <1>4, <1>5, <1>9 DEF Logout, SavesOther, unloadConfiguration
<1>10. ASSUME NEW t \in Threads, Start(t) PROVE failures' \in {failures, failures + 1}
  BY <1>10 DEF Start
<1>11. CASE \E t \in Threads :
              \/ Start(t) \/ saveProperty(t) \/ EndWrite(t)
              \/ Command(t) \/ Login(t) \/ Logout(t)
  BY <1>4, <1>6, <1>7, <1>8, <1>9, <1>10, <1>11
<1> QED
  BY <1>2, <1>11 DEF Next, Crash, Restart, Done, vars

LEMMA StoredNext ==
  ASSUME StoreInv'
  PROVE  Stored' \in Properties
<1>1. my' \in [Threads -> Locals] /\ disk'.cfg \in Properties
  BY DEF StoreInv, TypeOK, Disks
<1>2. CASE disk'.writing = "cfg"
  <2>1. PICK t \in Threads : pc'[t] = "writing"
    BY <1>2, ThreadsAssumption DEF StoreInv, Writers, TypeOK, Mutexes
  <2>2. my'[t].buf \in Properties
    BY <1>1 DEF Locals
  <2>3. Stored' = my'[t].buf
    BY <1>2, <2>1, StoredWritten
  <2> QED
    BY <2>2, <2>3
<1> QED
  BY <1>1, <1>2 DEF Stored

(* What a step that fails may do to the store: it loses nothing but lines.  *)
Loses == /\ failures' = failures + 1
         /\ \A k \in Keys : Stored'[k] \in {Stored[k], NoValue[k]}

LEMMA LosesIs ==
  ASSUME StoreInv, StoreInv', Loses
  PROVE  \E k \in Keys : Store!Lose(k)
<1>1. Stored' \in Properties /\ "autoupdate" \in Keys
  BY StoredNext, KeysAre
<1>2. DOMAIN Stored' = Keys
  BY <1>1 DEF Properties
<1> QED
  BY <1>1, <1>2 DEF Loses, Store!Lose

(* Every step of the system is one of the store: saving one property,       *)
(* clearing all but the persistent ones, losing them with a failure, or     *)
(* none.                                                                    *)
LEMMA StoreStep ==
  ASSUME StoreInv, StoreInv', [Next]_vars
  PROVE  [Store!Next]_(Store!vars)
<1> USE DEF Store!Next
<1>l. Leaving' \in BOOLEAN
  BY DEF Leaving
<1>d. Stored \in Properties /\ DOMAIN Stored = Keys /\ disk.cfg \in Properties
  BY StoredIs DEF Properties, StoreInv, TypeOK, Disks
<1>u. Stored' = Stored => [Store!Next]_(Store!vars)
  <2>1. Stored' = Stored /\ failures' = failures + 1 => Loses
    BY DEF Loses
  <2> QED
    BY <1>l, <2>1, FailuresCounted, LosesIs
<1>1. ASSUME NEW t \in Threads, QuietStep(t) \/ Skips(t) PROVE Stored' = Stored
  BY <1>1, QuietKeeps, SkipsTyped, StoredQuiet
<1>w. ASSUME NEW t \in Threads, Rewrites(t) PROVE Stored = disk.cfg /\ Stored' = my'[t].buf
  <2>1. Opens(t) /\ disk'.writing = "cfg"
    BY <1>w, RewritesTyped
  <2>2. disk.writing = "none"
    BY <2>1 DEF Opens, StoreInv, Writers
  <2> QED
    BY <2>1, <2>2, StoredIs, StoredWritten DEF Opens
<1>p. Stored' \in Properties
  BY StoredNext
<1>2. ASSUME NEW t \in Threads, saveProperty(t), Rewrites(t)
      PROVE  \E k \in Keys : Store!Save(k) \/ Store!Lose(k)
  <2> DEFINE e == Head(my[t].pending)
  <2>1. my[t].pending \in Seq(Entries) /\ my[t].pending # <<>>
    BY <1>2, FieldsTyped DEF saveProperty, At, StoreInv, InCommand, Placed
  <2>2. e[1] \in Keys
    <3>1. e \in Entries
      BY <2>1, HeadTailProperties
    <3> HIDE DEF e
    <3> QED
      BY <3>1 DEF Entries
  <2>3. /\ Stored = disk.cfg
        /\ \A k \in Keys \ {e[1]} : Stored'[k] \in {Stored[k], NoValue[k]}
        /\ my'[t].lost => failures' = failures + 1
        /\ ~my'[t].lost => Stored' = [disk.cfg EXCEPT ![e[1]] = e[2]] /\ failures' = failures
    BY <1>2, <1>w, RewritesTyped DEF Edited
  <2> HIDE DEF e
  <2>4. CASE my'[t].lost
    <3>1. Store!Lose(e[1])
      BY <1>p, <2>2, <2>3, <2>4 DEF Store!Lose, Properties
    <3> QED
      BY <2>2, <3>1
  <2>5. CASE ~my'[t].lost
    <3>1. Store!Save(e[1])
      BY <1>d, <2>2, <2>3, <2>5 DEF Store!Save
    <3> QED
      BY <2>2, <3>1
  <2> QED
    BY <2>4, <2>5
<1>3. ASSUME NEW t \in Threads, clearConfigurationFile(t), Rewrites(t)
      PROVE  Store!Clear \/ \E k \in Keys : Store!Lose(k)
  <2>1. /\ Stored' = my'[t].buf /\ Stored = disk.cfg
        /\ \A k \in Keys : my'[t].buf[k] \in {Cleared[k], NoValue[k]}
        /\ my'[t].lost => failures' = failures + 1
        /\ ~my'[t].lost => my'[t].buf = Cleared /\ failures' = failures
    BY <1>3, <1>w, RewritesTyped
  <2>2. CASE my'[t].lost
    <3>1. \A k \in Keys : Cleared[k] \in {Stored[k], NoValue[k]}
      BY <2>1 DEF Cleared
    <3>2. Loses
      BY <2>1, <2>2, <3>1 DEF Loses
    <3> QED
      BY <3>2, LosesIs
  <2>3. CASE ~my'[t].lost
    <3>1. Leaving
      BY <1>3, WritersAt DEF Leaving
    <3> QED
      BY <2>1, <2>3, <3>1 DEF Store!Clear, Cleared
  <2> QED
    BY <2>2, <2>3
<1>4. ASSUME NEW t \in Threads, OpensOther(t) PROVE Stored' = Stored
  <2>1. Opens(t) /\ disk'.writing # "cfg"
    BY <1>4, OpensOtherTyped
  <2>2. disk.writing = "none" /\ disk'.cfg = disk.cfg
    BY <2>1 DEF Opens, StoreInv, Writers
  <2> QED
    BY <2>1, <2>2 DEF Stored
<1>5. ASSUME NEW t \in Threads, EndWrite(t) PROVE Stored' = Stored \/ Loses
  <2>1. /\ pc[t] = "writing" /\ disk'.writing = "none"
        /\ disk.writing # "cfg" => disk'.cfg = disk.cfg
        /\ disk.writing = "cfg" =>
              /\ \A k \in Keys : disk'.cfg[k] \in {my[t].buf[k], NoValue[k]}
              /\ disk'.cfg # my[t].buf => failures' = failures + 1
    BY <1>5, EndWriteIs
  <2>2. Stored' = disk'.cfg
    BY <2>1 DEF Stored
  <2>3. CASE disk.writing = "cfg"
    BY <2>1, <2>2, <2>3, StoredIs DEF Loses
  <2> QED
    BY <2>1, <2>2, <2>3, StoredIs
<1>6. CASE Crash
  <2>1. disk' = [disk EXCEPT !.writing = "none"] /\ disk \in Disks /\ failures' = failures + 1
    BY <1>6 DEF Crash, Fail, StoreInv, TypeOK
  <2>2. disk'.cfg = disk.cfg /\ disk'.writing = "none"
    BY <2>1 DEF Disks
  <2>3. Stored' = disk.cfg
    BY <2>2 DEF Stored
  <2>4. CASE disk.writing = "cfg"
    <3>1. disk.cfg = NoValue
      BY <2>4 DEF StoreInv, Writers
    <3>2. Loses
      BY <2>1, <2>3, <3>1 DEF Loses
    <3> QED
      BY <1>l, <3>2, LosesIs
  <2> QED
    BY <1>u, <2>3, <2>4, StoredIs, LosesIs
<1>7. ASSUME UNCHANGED <<pc, my, disk>> PROVE Stored' = Stored
  BY <1>7 DEF Stored
<1> QED
  BY <1>l, <1>u, <1>1, <1>2, <1>3, <1>4, <1>5, <1>6, <1>7, StepsAre, LosesIs
     DEF Rewrites, vars, Done, Restart

(* The commands, logins and logouts of all the threads together implement   *)
(* the store: ConfigurationManager's saveProperty and                       *)
(* clearConfigurationFile lose nothing to each other, only a logout clears  *)
(* the file, and more is lost only in a step that fails: the process dies,  *)
(* or the file cannot be read to its end or written.                        *)
THEOREM ImplementsStoreHolds ==
  Spec => ImplementsStore
<1>1. Init => Store!Init
  <2> SUFFICES ASSUME Init PROVE Store!Init
    OBVIOUS
  <2>1. Stored \in Properties /\ failures = 0
    BY InitTyped, StoredIs DEF Init
  <2>2. ~Leaving
    BY DEF Leaving, Init, InitProcess, NoLocals, NoCommand
  <2> QED
    BY <2>1, <2>2 DEF Store!Init, Properties
<1>2. StoreInv /\ StoreInv' /\ [Next]_vars => [Store!Next]_(Store!vars)
  BY StoreStep
<1> QED
  BY <1>1, <1>2, StoreInvHolds, PTL DEF Spec, ImplementsStore, Store!Spec

-----------------------------------------------------------------------------
(* The lists of served locations *)

(* A thread changes the list of a protocol under the mutex of its           *)
(* locations, from reading it to having saved it.                           *)
Saves(t) == pc[t] \in {"save", "writing"}
Holding(t) == pc[t] = "unlock" \/ (Saves(t) /\ my[t].ret = "unlock")

BeingWiped == \E u \in Threads : pc[u] = "writing" /\ Overwrites(u)

(* What it still has to save; it is the list it read, with its location or  *)
(* without, unless another command removes all of it in the meantime, or    *)
(* the file could not be read to its end or written.                        *)
SavesList(t) ==
    \E l \in {my[t].list \cup {Path(t)}, my[t].list \ {Path(t)}} :
        my[t].pending \in {<<>>, <<<<Served[Key(t)], l>>>>,
                           <<<<Port[Key(t)], 0>>, <<Served[Key(t)], l>>>>}

ListIsRead(t) == my[t].wiped \/ BeingWiped \/ Stored[Served[Key(t)]] = my[t].list

NoLists(t) == \A i \in 1 .. Len(my[t].pending) : my[t].pending[i][1] \notin ListKeys

Listed(t) ==
    /\ Holding(t) => locks[Key(t)] = t
    /\ Saves(t) /\ my[t].ret = "unlock" =>
          SavesList(t) /\ (my[t].pending # <<>> => ListIsRead(t))
    /\ Saves(t) /\ my[t].ret # "unlock" => RemovesAll(t) \/ NoLists(t)

ListInv == \A t \in Threads : Listed(t)

(* A thread that holds the mutex of a list adds a location or removes one. *)
LEMMA HoldingIs ==
  ASSUME StoreInv, NEW t \in Threads, Holding(t)
  PROVE  /\ my[t].cmd.op \in Locating /\ Key(t) \in Protocols /\ Path(t) \in Paths
         /\ Served[Key(t)] \in ListKeys /\ ~RemovesAll(t)
<1>1. pc[t] # "idle" /\ my[t].cmd.op \in Locating
  BY DEF Holding, Saves, StoreInv, InCommand, Placed, Reaches
<1>2. Key(t) \in Protocols /\ Path(t) \in Paths
  BY <1>1, CommandIs DEF Locating
<1> QED
  BY <1>1, <1>2 DEF RemovesAll, Locating, ListKeys

(* Steps that take a thread to where it neither saves nor holds a list.     *)
LEMMA Elsewhere ==
  ASSUME TypeOK, NEW t \in Threads
  PROVE  /\ Finish(t) => Listed(t)'
         /\ \A l : Goto(t, l) /\ l \notin {"save", "writing", "unlock"} => Listed(t)'
         /\ \A q \in Seq(Entries), r \in Returns \ {"unlock"} :
               /\ ThenSave(t, q, r)
               /\ RemovesAll(t) \/ \A i \in 1 .. Len(q) : q[i][1] \notin ListKeys
               => Listed(t)'
<1>1. ASSUME NEW l, Goto(t, l), l \notin {"save", "writing", "unlock"} PROVE Listed(t)'
  <2>1. pc'[t] = l
    BY <1>1 DEF Goto, TypeOK
  <2> QED
    BY <1>1, <2>1 DEF Listed, Holding, Saves
<1>2. ASSUME NEW q \in Seq(Entries), NEW r \in Returns \ {"unlock"}, ThenSave(t, q, r),
             RemovesAll(t) \/ \A i \in 1 .. Len(q) : q[i][1] \notin ListKeys
      PROVE  Listed(t)'
  <2>1. my'[t].cmd = my[t].cmd /\ my'[t].pending = q /\ my'[t].ret = r
    BY <1>2 DEF TypeOK, ThenSave, Locals
  <2>2. pc'[t] = "save"
    BY <1>2 DEF ThenSave, Goto, TypeOK
  <2> QED
    BY <1>2, <2>1, <2>2 DEF Listed, Holding, Saves, RemovesAll, NoLists
<1>3. Finish(t) => Listed(t)'
  BY <1>1 DEF Finish
<1> QED
  BY <1>1, <1>2, <1>3

(* The mutexes that are not those of the lists. *)
LEMMA OtherMutexes ==
  ASSUME TypeOK, NEW m \in {"settings", "reclaim", "backups"},
         Release(m) \/ \E t \in Threads : Acquire(t, m)
  PROVE  \A p \in Protocols : locks'[p] = locks[p]
BY DEF TypeOK, Mutexes, Protocols, Release, Acquire

LEMMA SettingsListed ==
  ASSUME StoreInv, NEW t \in Threads, SettingStep(t)
  PROVE  Listed(t)' /\ \A p \in Protocols : locks'[p] = locks[p]
<1>0. TypeOK /\ Placed(t)
  BY DEF StoreInv, InCommand
<1> USE CommandIs, KeysAre DEF AtOp, At
<1>s. /\ "idle" \in Returns \ {"unlock"}
      /\ {"age", "target", "nodes", "speedup", "speeddown", "conns", "graphics", "permissions",
          "autoupdate", "proxy_url", "proxy_username"} \subseteq Keys \ ListKeys
  BY DEF Returns, Labels
<1>a. \A k \in Keys \ ListKeys, v \in Nat : ThenSave(t, <<<<k, v>>>>, "idle") => Listed(t)'
  <2> TAKE k \in Keys \ ListKeys, v \in Nat
  <2>1. <<<<k, v>>>> \in Seq(Entries)
    BY SettingEntries
  <2>2. \A i \in 1 .. Len(<<<<k, v>>>>) : <<<<k, v>>>>[i][1] \notin ListKeys
    OBVIOUS
  <2> QED
    BY <1>0, <1>s, <2>1, <2>2, Elsewhere
<1>b. \A k, l \in Keys \ ListKeys, v \in Nat :
         ThenSave(t, <<<<k, v>>, <<l, v>>>>, "idle") => Listed(t)'
  <2> TAKE k, l \in Keys \ ListKeys, v \in Nat
  <2>1. <<<<k, v>>, <<l, v>>>> \in Seq(Entries)
    BY SettingEntries
  <2>2. \A i \in 1 .. Len(<<<<k, v>>, <<l, v>>>>) : <<<<k, v>>, <<l, v>>>>[i][1] \notin ListKeys
    OBVIOUS
  <2> QED
    BY <1>0, <1>s, <2>1, <2>2, Elsewhere
<1>m. \/ UNCHANGED locks
      \/ Release("reclaim") \/ Acquire(t, "reclaim")
  BY DEF SettingStep, Configure, ConfigurePush, Speedlimit, SpeedlimitUp, Graphics, GraphicsSave,
     Permissions, setProxy, UpdateAuto, FetchReclaim, PushReclaim
<1>1. CASE Configure(t)
  <2>1. /\ my[t].cmd.op = "configure" /\ Val(t) \in Nat /\ Key(t) \in Keys \ ListKeys
    BY <1>1, <1>s DEF Configure
  <2>2. \/ Finish(t) \/ Goto(t, "push") \/ ThenSave(t, <<<<Key(t), Val(t)>>>>, "idle")
    BY <1>1 DEF Configure, FetchReclaim
  <2> QED
    BY <1>0, <1>a, <1>m, <2>1, <2>2, Elsewhere, OtherMutexes
<1>2. CASE ConfigurePush(t)
  <2>1. /\ my[t].cmd.op = "configure" /\ Val(t) \in Nat /\ Key(t) \in Keys \ ListKeys
    BY <1>2, <1>s DEF ConfigurePush
  <2>2. \/ Finish(t) \/ ThenSave(t, <<<<Key(t), Val(t)>>>>, "idle")
    BY <1>2 DEF ConfigurePush
  <2> QED
    BY <1>0, <1>a, <1>m, <2>1, <2>2, Elsewhere, OtherMutexes
<1>3. CASE Speedlimit(t)
  <2>0. my[t].cmd.op = "speedlimit" /\ pc[t] = "start"
    BY <1>3 DEF Speedlimit
  <2>1. Val(t) \in Nat /\ (Key(t) # "both" => Key(t) \in Keys \ ListKeys)
    BY <2>0, <1>s
  <2>2. \/ Finish(t) \/ Goto(t, "speedup")
        \/ Key(t) # "both" /\ ThenSave(t, <<<<Key(t), Val(t)>>>>, "idle")
    BY <1>3 DEF Speedlimit
  <2> QED
    BY <1>0, <1>a, <1>m, <2>1, <2>2, Elsewhere, OtherMutexes
<1>4. CASE SpeedlimitUp(t)
  <2>1. Val(t) \in Nat
    BY <1>4 DEF SpeedlimitUp
  <2>2. ThenSave(t, <<<<"speedup", Val(t)>>, <<"speeddown", Val(t)>>>>, "idle")
    BY <1>4 DEF SpeedlimitUp
  <2> QED
    BY <1>0, <1>b, <1>s, <1>m, <2>1, <2>2, OtherMutexes
<1>5. CASE Graphics(t)
  BY <1>0, <1>5, <1>m, Elsewhere, OtherMutexes DEF Graphics
<1>6. CASE GraphicsSave(t)
  <2>1. api.settings["graphics"] \in Nat
    BY <1>0 DEF TypeOK, Apis
  <2>2. ThenSave(t, <<<<"graphics", api.settings["graphics"]>>>>, "idle")
    BY <1>6 DEF GraphicsSave
  <2> QED
    BY <1>0, <1>a, <1>s, <1>m, <2>1, <2>2, OtherMutexes
<1>7. CASE Permissions(t)
  <2>1. Val(t) \in Nat /\ ThenSave(t, <<<<"permissions", Val(t)>>>>, "idle")
    BY <1>7 DEF Permissions
  <2> QED
    BY <1>0, <1>a, <1>s, <1>m, <2>1, OtherMutexes
<1>8. CASE setProxy(t)
  <2>1. /\ Val(t) \in Nat
        /\ \/ Finish(t)
           \/ ThenSave(t, <<<<"proxy_url", Val(t)>>, <<"proxy_username", Val(t)>>>>, "idle")
    BY <1>8 DEF setProxy
  <2> QED
    BY <1>0, <1>b, <1>s, <1>m, <2>1, Elsewhere, OtherMutexes
<1>9. CASE UpdateAuto(t)
  <2>1. Val(t) \in Nat /\ ThenSave(t, <<<<"autoupdate", Val(t)>>>>, "idle")
    BY <1>9 DEF UpdateAuto
  <2> QED
    BY <1>0, <1>a, <1>s, <1>m, <2>1, OtherMutexes
<1> QED
  BY <1>1, <1>2, <1>3, <1>4, <1>5, <1>6, <1>7, <1>8, <1>9 DEF SettingStep

(* A location that is added or removed: the mutex of the list is taken, and *)
(* the list read.                                                           *)
LEMMA LocationListed ==
  ASSUME StoreInv, NEW t \in Threads, NEW p \in Protocols, Key(t) = p,
         AddLocation(t, Served[p]) \/ RemoveLocation(t, Served[p], Port[p])
  PROVE  /\ Listed(t)'
         /\ locks[p] = Free /\ locks' = [locks EXCEPT ![p] = t]
<1>0. TypeOK /\ my \in [Threads -> Locals]
  BY DEF StoreInv, TypeOK
<1>1. /\ locks[p] = Free /\ locks' = [locks EXCEPT ![p] = t] /\ Goto(t, "save")
      /\ locks["settings"] = Free /\ pc[t] = "list" /\ disk' = disk
  BY DEF AddLocation, RemoveLocation, Acquire, AtOp, At
<1>2. PICK list : \E w \in BOOLEAN : \E q : ReadsList(t, p, list, w, q)
  BY LocationRead
<1>w. PICK w \in BOOLEAN : \E q : ReadsList(t, p, list, w, q)
  BY <1>2
<1>q. PICK q : ReadsList(t, p, list, w, q)
  BY <1>w
<1>3. /\ my'[t].pending = q /\ my'[t].list = list /\ my'[t].ret = "unlock"
      /\ my'[t].cmd = my[t].cmd /\ my'[t].wiped = w
  BY <1>0, <1>q DEF Locals, ReadsList
<1>4. pc'[t] = "save" /\ \A u \in Threads \ {t} : pc'[u] = pc[u]
  BY <1>0, <1>1 DEF Goto, TypeOK
<1>5. Key(t)' = p /\ Path(t)' = Path(t)
  BY <1>3 DEF Key, Path
<1>6. SavesList(t)'
  <2>1. \E l \in {list \cup {Path(t)}, list \ {Path(t)}} :
           q \in {<<>>, <<<<Served[p], l>>>>, <<<<Port[p], 0>>, <<Served[p], l>>>>}
    BY <1>q DEF ReadsList
  <2> QED
    BY <1>3, <1>5, <2>1 DEF SavesList
<1>7. w \/ Stored'[Served[p]] = list
  <2>1. disk.writing = "none" /\ disk'.writing = "none" /\ disk'.cfg = disk.cfg
    BY <1>1 DEF StoreInv, Writers
  <2> QED
    BY <1>q, <2>1 DEF Stored, ReadsList
<1>8. locks'[p] = t
  BY <1>0, <1>1 DEF TypeOK, Mutexes
<1> QED
  BY <1>1, <1>3, <1>4, <1>5, <1>6, <1>7, <1>8 DEF Listed, Holding, Saves, ListIsRead

OtherLocationStep(t) ==
    \/ StartWebdav(t) \/ StartFtp(t) \/ Link(t) \/ Unserve(t) \/ RemoveAll(t)
    \/ ListLocations(t) \/ ListLinks(t)

LEMMA OtherLocationsListed ==
  ASSUME StoreInv, NEW t \in Threads, OtherLocationStep(t)
  PROVE  Listed(t)' /\ locks' = locks
<1>0. TypeOK /\ Placed(t)
  BY DEF StoreInv, InCommand
<1> USE DEF AtOp, At
<1>1. locks' = locks
  BY DEF OtherLocationStep, StartWebdav, StartFtp, StartServer, Link, Unserve, RemoveAll,
     ListLocations, ListLinks
<1>2. ASSUME NEW p \in Protocols, Key(t) = p, StartServer(t, Port[p]) PROVE Listed(t)'
  <2>1. Finish(t) \/ Goto(t, "link") \/ ThenSave(t, <<<<Port[p], 1>>>>, "link")
    BY <1>2 DEF StartServer
  <2>2. /\ <<<<Port[p], 1>>>> \in Seq(Entries) /\ "link" \in Returns \ {"unlock"}
        /\ \A i \in 1 .. Len(<<<<Port[p], 1>>>>) : <<<<Port[p], 1>>>>[i][1] \notin ListKeys
    <3>1. Port[p] \in Keys \ ListKeys
      BY KeysAre DEF Port, Protocols
    <3> QED
      BY <3>1, SettingEntries DEF Returns, Labels
  <2> QED
    BY <1>0, <2>1, <2>2, Elsewhere
<1>3. CASE RemoveAll(t)
  <2>1. /\ my[t].cmd.op = "remove-all" /\ RemovesAll(t) /\ Key(t) \in Protocols
        /\ ThenSave(t, <<<<Served[Key(t)], {}>>, <<Port[Key(t)], 0>>>>, "idle")
    BY <1>3, CommandIs DEF RemoveAll, RemovesAll
  <2>2. <<<<Served[Key(t)], {}>>, <<Port[Key(t)], 0>>>> \in Seq(Entries)
    <3>1. <<Served[Key(t)], {}>> \in Entries /\ <<Port[Key(t)], 0>> \in Entries
      BY <2>1, KeysAre DEF Entries, ValuesOf, Served, Port, Protocols
    <3> QED
      BY <3>1, SettingEntries
  <2>3. "idle" \in Returns \ {"unlock"}
    BY DEF Returns, Labels
  <2> DEFINE q == <<<<Served[Key(t)], {}>>, <<Port[Key(t)], 0>>>>
  <2>4. q \in Seq(Entries) /\ ThenSave(t, q, "idle")
    BY <2>1, <2>2
  <2> HIDE DEF q
  <2> QED
    BY <1>0, <1>1, <2>1, <2>3, <2>4, Elsewhere
<1>4. Link(t) \/ Unserve(t) \/ ListLocations(t) \/ ListLinks(t) => Listed(t)'
  BY <1>0, Elsewhere DEF Link, Unserve, ListLocations, ListLinks
<1> QED
  BY <1>1, <1>2, <1>3, <1>4
     DEF OtherLocationStep, StartWebdav, StartFtp, Port, Protocols

LEMMA BackupsListed ==
  ASSUME StoreInv, NEW t \in Threads, BackupStep(t)
  PROVE  Listed(t)' /\ \A p \in Protocols : locks'[p] = locks[p]
<1>0. TypeOK
  BY DEF StoreInv
<1>1. \/ UNCHANGED locks \/ Release("backups") \/ Acquire(t, "backups")
  BY DEF BackupStep, createOrModifyBackup, RegisterBackup, RefusedBackup, UnlockBackups, FindBackup,
     BackupNotFound, RemoveScheduledCopy, EraseBackup, EraseStoppedBackup, Acquire
<1>2. RegisterBackup(t) => Listed(t)'
  <2>1. ASSUME ThenSave(t, <<<<"firstBackupConfigured", 1>>>>, "saveBackups") PROVE Listed(t)'
    <3>1. /\ <<<<"firstBackupConfigured", 1>>>> \in Seq(Entries)
          /\ "saveBackups" \in Returns \ {"unlock"} /\ "firstBackupConfigured" \notin ListKeys
      BY KeysAre, SettingEntries DEF Returns, Labels
    <3> QED
      BY <1>0, <2>1, <3>1, Elsewhere
  <2> QED
    BY <1>0, <2>1, Elsewhere DEF RegisterBackup
<1>3. BackupStep(t) => RegisterBackup(t) \/ Finish(t) \/
        \E l \in {"register", "refused", "webdav", "remove", "eraseStopped", "erase",
                  "saveBackups"} : Goto(t, l)
  BY DEF BackupStep, createOrModifyBackup, RefusedBackup, UnlockBackups, FindBackup,
     BackupNotFound, RemoveScheduledCopy, EraseBackup, EraseStoppedBackup
<1> QED
  BY <1>0, <1>1, <1>2, <1>3, Elsewhere, OtherMutexes

LEMMA LoginListed ==
  ASSUME StoreInv, NEW t \in Threads, LoginStep(t)
  PROVE  Listed(t)' /\ \A p \in Protocols : locks'[p] = locks[p]
<1>0. TypeOK /\ Placed(t)
  BY DEF StoreInv, InCommand
<1>1. CASE loadsyncs(t) /\ pc'[t] # "writing"
  <2>1. pc'[t] = "loadBackups" /\ \A m \in Mutexes \ {"settings"} : locks'[m] = locks[m]
    BY <1>1, LoadSyncsTyped
  <2> QED
    BY <2>1 DEF Listed, Holding, Saves, Mutexes, Protocols
<1>2. CASE MigrateAnswer(t) /\ UNCHANGED pc
  <2>1. PICK entry \in my[t].sent :
          removeSyncConfig(t, entry) \/ UNCHANGED locks
    BY <1>2 DEF MigrateAnswer
  <2>2. pc[t] = "migrating"
    BY <1>2 DEF MigrateAnswer, At
  <2>3. ~Goto(t, "writing")
    BY <1>0, <1>2, <2>2 DEF Goto, TypeOK
  <2>4. UNCHANGED locks
    BY <2>1, <2>3 DEF removeSyncConfig
  <2> QED
    BY <1>2, <2>2, <2>4 DEF Listed, Holding, Saves
<1>3. CASE ~(loadsyncs(t) /\ pc'[t] # "writing") /\ ~(MigrateAnswer(t) /\ UNCHANGED pc)
  <2>1. \/ UNCHANGED locks \/ Release("reclaim") \/ Acquire(t, "reclaim") \/ Acquire(t, "backups")
    BY <1>3 DEF LoginStep, loadbackups, transitionLegacyExclusionRules, AddFilters, HideLegacyFile,
     ApplyRead, ApplySet, ApplyPush, migrateSyncConfig,
     ResumeBackups, ResumeBackup, RestartWebdav, RestartFtp, unloadConfiguration, FetchReclaim,
     PushReclaim
  <2>2. \/ Finish(t)
        \/ \E l \in LoginLabels \cup {"push", "saveBackups", "unlockBackups", "logoutBackups",
                                      "clear"} : Goto(t, l)
        \/ pc[t] = "resume" /\ UNCHANGED pc
    BY <1>3 DEF LoginStep, loadbackups, transitionLegacyExclusionRules, AddFilters, HideLegacyFile,
     ApplyRead, ApplySet, ApplyPush, migrateSyncConfig,
     ResumeBackups, ResumeBackup, RestartWebdav, RestartFtp, unloadConfiguration, FetchReclaim,
     LoginLabels, At
  <2>3. pc[t] = "resume" /\ UNCHANGED pc => Listed(t)'
    BY DEF Listed, Holding, Saves
  <2>4. \A l \in LoginLabels \cup {"push", "saveBackups", "unlockBackups", "logoutBackups", "clear"} :
          l \notin {"save", "writing", "unlock"}
    BY DEF LoginLabels
  <2>5. Listed(t)'
    BY <1>0, <2>2, <2>3, <2>4, Elsewhere
  <2>6. \A p \in Protocols : locks'[p] = locks[p]
    BY <1>0, <2>1, OtherMutexes
  <2> QED
    BY <2>5, <2>6
<1> QED
  BY <1>1, <1>2, <1>3 DEF LoginStep

(* What a step of another thread must leave alone. *)
LEMMA OthersListed ==
  ASSUME StoreInv, NEW u \in Threads, Listed(u), pc'[u] = pc[u], my'[u] = my[u],
         Holding(u) => /\ locks'[Key(u)] = u
                       /\ BeingWiped' \/ Stored'[Served[Key(u)]] = Stored[Served[Key(u)]],
         BeingWiped => BeingWiped'
  PROVE  Listed(u)'
<1>1. Holding(u)' = Holding(u) /\ Saves(u)' = Saves(u) /\ Key(u)' = Key(u) /\ Path(u)' = Path(u)
  BY DEF Holding, Saves, Key, Path
<1>2. SavesList(u)' = SavesList(u) /\ NoLists(u)' = NoLists(u) /\ RemovesAll(u)' = RemovesAll(u)
  BY <1>1 DEF SavesList, NoLists, RemovesAll
<1>3. Holding(u) /\ ListIsRead(u) => ListIsRead(u)'
  BY <1>1 DEF ListIsRead
<1>4. Holding(u) => locks'[Key(u)'] = u
  BY <1>1
<1> QED
  BY <1>1, <1>2, <1>3, <1>4 DEF Listed, Holding

LEMMA WipingKept ==
  ASSUME NEW t \in Threads, Only(t), Quiet(t), BeingWiped
  PROVE  BeingWiped'
BY DEF Only, Quiet, BeingWiped, Overwrites, RemovesAll

(* The steps that write no file. *)
LEMMA QuietListed ==
  ASSUME StoreInv, StoreInv', ListInv, NEW t \in Threads, QuietStep(t)
  PROVE  ListInv'
<1>1. Only(t) /\ Quiet(t) /\ Stored' = Stored /\ TypeOK /\ Placed(t)
  BY QuietKeeps, StoredQuiet DEF StoreInv, InCommand
<1>2. Listed(t)' /\ \A p \in Protocols : locks[p] \in Threads \ {t} => locks'[p] = locks[p]
  <2>1. CASE Start(t)
    BY <1>1, <2>1, Elsewhere DEF Start
  <2>2. CASE SettingStep(t) \/ BackupStep(t) \/ LoginStep(t)
    BY <2>2, SettingsListed, BackupsListed, LoginListed
  <2>3. CASE OtherLocationStep(t)
    BY <2>3, OtherLocationsListed
  <2>4. ASSUME NEW p \in Protocols, Key(t) = p,
               AddLocation(t, Served[p]) \/ RemoveLocation(t, Served[p], Port[p])
        PROVE  Listed(t)' /\ \A r \in Protocols : locks[r] \in Threads \ {t} => locks'[r] = locks[r]
    <3>1. Listed(t)' /\ locks[p] = Free /\ locks' = [locks EXCEPT ![p] = t]
      BY <2>4, LocationListed
    <3> QED
      BY <1>1, <3>1, ThreadsAssumption DEF TypeOK, Mutexes
  <2>5. CASE UnlockLocations(t)
    <3>1. pc[t] = "unlock" /\ Finish(t) /\ Release(Key(t)) /\ locks[Key(t)] = t
      BY <2>5 DEF UnlockLocations, At, ListInv, Listed, Holding
    <3>2. locks' = [locks EXCEPT ![Key(t)] = Free]
      BY <3>1 DEF Release
    <3> QED
      BY <1>1, <3>1, <3>2, Elsewhere DEF TypeOK, Mutexes
  <2>6. CASE LocationStep(t)
    BY <2>3, <2>4, <2>5, <2>6
       DEF LocationStep, OtherLocationStep, addWebdavLocation, addFtpLocation, removeWebdavLocation,
           removeFtpLocation, Port, Served, Protocols
  <2> QED
    BY <2>1, <2>2, <2>6 DEF QuietStep
<1>3. ASSUME NEW u \in Threads \ {t} PROVE Listed(u)'
  <2>1. Holding(u) => Key(u) \in Protocols /\ locks[Key(u)] = u
    BY HoldingIs DEF ListInv, Listed
  <2> QED
    BY <1>1, <1>2, <2>1, OthersListed, WipingKept DEF Only, ListInv
<1> QED
  BY <1>2, <1>3 DEF ListInv

(* Two threads that hold a list hold different ones. *)
LEMMA ListsDiffer ==
  ASSUME StoreInv, ListInv, NEW t \in Threads, NEW u \in Threads \ {t}, Holding(t), Holding(u)
  PROVE  Served[Key(t)] # Served[Key(u)] /\ Served[Key(u)] # Port[Key(t)]
<1>1. Key(t) \in Protocols /\ Key(u) \in Protocols
  BY HoldingIs
<1>2. Key(t) # Key(u)
  BY DEF ListInv, Listed
<1> QED
  BY <1>1, <1>2 DEF Protocols, Served, Port

LEMMA RewritesLocks ==
  ASSUME StoreInv, NEW t \in Threads, Rewrites(t)
  PROVE  /\ \A p \in Protocols \cup {"reclaim"} : locks'[p] = locks[p]
         /\ disk'.backups = disk.backups
<1>1. TypeOK /\ Opens(t)
  BY RewritesTyped DEF StoreInv
<1>2. ASSUME NEW locals, CannotOpen(t, "cfg", locals) /\ UNCHANGED locks PROVE FALSE
  BY <1>1, <1>2, ThreadsAssumption DEF Opens
<1>3. ASSUME NEW whole, NEW parts, NEW locals, Rewrite(t, whole, parts, locals)
      PROVE  \E m : BeginWrite(t, "cfg", m)
  BY <1>2, <1>3 DEF Rewrite
<1>4. PICK m : BeginWrite(t, "cfg", m)
  BY <1>3 DEF Rewrites, saveProperty, clearConfigurationFile
<1>5. Acquire(t, "settings") /\ disk' = [disk EXCEPT !["cfg"] = Emptied["cfg"], !.writing = "cfg"]
  BY <1>4 DEF BeginWrite
<1>6. disk'.backups = disk.backups
  BY <1>1, <1>5 DEF TypeOK, Disks
<1> QED
  BY <1>1, <1>5, <1>6 DEF Acquire, TypeOK, Mutexes, Protocols

(* A property that is saved: which it is, and what is left to save. *)
Next1(t) == Head(my[t].pending)

LEMMA ListIsSaved ==
  ASSUME StoreInv, ListInv, NEW t \in Threads, pc[t] = "save", ~RemovesAll(t), ~BeingWiped,
         my'[t].cmd = my[t].cmd, my'[t].pending = Tail(my[t].pending),
         my'[t].list = my[t].list, my'[t].wiped = my[t].wiped, my'[t].ret = my[t].ret,
         pc'[t] = "writing" \/ pc'[t] = After(my'[t]),
         \A p \in Protocols : locks'[p] = locks[p]
  PROVE  /\ \/ Next1(t)[1] \notin ListKeys
            \/ /\ Holding(t) /\ Next1(t)[1] = Served[Key(t)]
               /\ Next1(t)[2] \in {my[t].list \cup {Path(t)}, my[t].list \ {Path(t)}}
               /\ my[t].wiped \/ Stored[Served[Key(t)]] = my[t].list
         /\ \/ BeingWiped'
            \/ Holding(t) /\ Next1(t)[1] \notin ListKeys =>
                  Stored'[Served[Key(t)]] = Stored[Served[Key(t)]]
            => Listed(t)'
<1> DEFINE e == Next1(t)
<1>0. /\ Listed(t) /\ TypeOK /\ Placed(t)
      /\ my[t].pending \in Seq(Entries) /\ my[t].pending # <<>>
      /\ my[t].ret \notin {"save", "writing"}
  BY FieldsTyped DEF ListInv, StoreInv, InCommand, Placed, Returns
<1>e. e = Head(my[t].pending)
  BY DEF Next1
<1> HIDE DEF e
<1>3. Key(t)' = Key(t) /\ Path(t)' = Path(t) /\ Saves(t)
  BY DEF Key, Path, Saves
<1>p. my'[t].pending = <<>> => pc'[t] \in {"writing", my[t].ret}
  BY DEF After
<1>4. CASE my[t].ret # "unlock"
  <2>1. NoLists(t)
    BY <1>0, <1>3, <1>4 DEF Listed
  <2>2. e[1] \notin ListKeys
    BY <1>0, <1>e, <2>1 DEF NoLists
  <2>3. NoLists(t)'
    BY <1>0, <2>1 DEF NoLists
  <2>4. pc'[t] # "unlock"
    BY <1>4 DEF After
  <2>5. Listed(t)'
    BY <1>4, <2>3, <2>4 DEF Listed, Holding
  <2> QED
    BY <2>2, <2>5 DEF e
<1>5. CASE my[t].ret = "unlock"
  <2>1. Holding(t) /\ SavesList(t) /\ ListIsRead(t) /\ locks[Key(t)] = t
    BY <1>0, <1>3, <1>5 DEF Holding, Listed
  <2>2. Key(t) \in Protocols /\ locks'[Key(t)'] = t
    BY <1>3, <2>1, HoldingIs
  <2>r. my[t].wiped \/ Stored[Served[Key(t)]] = my[t].list
    BY <2>1 DEF ListIsRead
  <2>3. PICK l \in {my[t].list \cup {Path(t)}, my[t].list \ {Path(t)}} :
          my[t].pending \in {<<<<Served[Key(t)], l>>>>,
                             <<<<Port[Key(t)], 0>>, <<Served[Key(t)], l>>>>}
    BY <1>0, <2>1 DEF SavesList
  <2>4. CASE my[t].pending = <<<<Served[Key(t)], l>>>>
    <3>1. e = <<Served[Key(t)], l>> /\ my'[t].pending = <<>>
      BY <1>e, <2>4
    <3>2. SavesList(t)'
      BY <3>1 DEF SavesList
    <3>3. Listed(t)'
      BY <1>3, <1>5, <2>2, <3>1, <3>2 DEF Listed, Holding
    <3> QED
      BY <2>1, <2>r, <3>1, <3>3 DEF e
  <2>5. CASE my[t].pending = <<<<Port[Key(t)], 0>>, <<Served[Key(t)], l>>>>
    <3>1. e = <<Port[Key(t)], 0>> /\ my'[t].pending = <<<<Served[Key(t)], l>>>>
      BY <1>e, <2>5
    <3>2. e[1] \notin ListKeys
      BY <2>2, <3>1 DEF ListKeys, Protocols, Served, Port
    <3>3. SavesList(t)'
      BY <1>3, <3>1 DEF SavesList
    <3>4. ASSUME BeingWiped' \/ Stored'[Served[Key(t)]] = Stored[Served[Key(t)]]
          PROVE  ListIsRead(t)'
      BY <1>3, <2>r, <3>4 DEF ListIsRead
    <3>5. ASSUME BeingWiped' \/ Stored'[Served[Key(t)]] = Stored[Served[Key(t)]]
          PROVE  Listed(t)'
      BY <1>5, <2>2, <3>3, <3>4, <3>5 DEF Listed, Holding
    <3> QED
      BY <2>1, <3>2, <3>5 DEF e
  <2> QED
    BY <2>3, <2>4, <2>5
<1> QED
  BY <1>4, <1>5

(* ... when the file is opened to write it. *)
LEMMA SavedList ==
  ASSUME StoreInv, StoreInv', ListInv, NEW t \in Threads, Rewrites(t), saveProperty(t), ~RemovesAll(t)
  PROVE  /\ ~my'[t].lost => Stored' = [Stored EXCEPT ![Next1(t)[1]] = Next1(t)[2]]
         /\ \/ Next1(t)[1] \notin ListKeys
            \/ /\ Holding(t) /\ Next1(t)[1] = Served[Key(t)]
               /\ Next1(t)[2] \in {my[t].list \cup {Path(t)}, my[t].list \ {Path(t)}}
               /\ my[t].wiped \/ Stored[Served[Key(t)]] = my[t].list
         /\ Listed(t)'
<1>1. /\ pc[t] = "save" /\ Opens(t) /\ disk'.writing = "cfg" /\ Rest(my'[t], my[t])
      /\ my'[t].pending = Tail(my[t].pending)
      /\ my'[t].wiped = my[t].wiped /\ my'[t].ret = my[t].ret
      /\ ~my'[t].lost => my'[t].buf = Edited(t, disk.cfg)
  BY RewritesTyped
<1>2. ~BeingWiped /\ pc'[t] = "writing" /\ disk.writing = "none"
  BY <1>1, ThreadsAssumption DEF BeingWiped, Opens, StoreInv, Writers
<1>3. Stored' = my'[t].buf /\ Stored = disk.cfg /\ Stored \in Properties
  BY <1>1, <1>2, StoredIs, StoredWritten DEF Opens
<1>4. ~my'[t].lost => Stored' = [Stored EXCEPT ![Next1(t)[1]] = Next1(t)[2]]
  BY <1>1, <1>3 DEF Edited, Next1
<1>5. \A p \in Protocols : locks'[p] = locks[p]
  BY <1>2, RewritesLocks
<1>6. my'[t].lost => BeingWiped'
  BY <1>2 DEF BeingWiped, Overwrites
<1>7. ASSUME ~my'[t].lost, Holding(t), Next1(t)[1] \notin ListKeys
      PROVE  Stored'[Served[Key(t)]] = Stored[Served[Key(t)]]
  <2>1. Served[Key(t)] \in ListKeys
    BY <1>7, HoldingIs
  <2>2. Served[Key(t)] \in DOMAIN Stored /\ Served[Key(t)] # Next1(t)[1]
    BY <1>3, <1>7, <2>1, KeysAre DEF Properties
  <2> QED
    BY <1>4, <1>7, <2>2
<1> QED
  BY <1>1, <1>2, <1>4, <1>5, <1>6, <1>7, ListIsSaved DEF Rest

LEMMA RewritesListed ==
  ASSUME StoreInv, StoreInv', ListInv, NEW t \in Threads, Rewrites(t)
  PROVE  ListInv'
<1>0. /\ Only(t) /\ Opens(t) /\ my'[t].cmd = my[t].cmd /\ ~BeingWiped /\ TypeOK /\ Listed(t)
      /\ Stored \in Properties
  <2>1. Only(t) /\ Opens(t) /\ my'[t].cmd = my[t].cmd
    BY RewritesTyped DEF Rest
  <2>2. ~BeingWiped
    BY <2>1, ThreadsAssumption DEF BeingWiped, Opens, StoreInv, Writers
  <2> QED
    BY <2>1, <2>2, StoredIs DEF StoreInv, ListInv
<1>1. \A p \in Protocols : locks'[p] = locks[p]
  BY RewritesLocks
<1>2. RemovesAll(t) \/ my'[t].lost => BeingWiped'
  BY <1>0 DEF BeingWiped, Overwrites, RemovesAll, Opens
<1>3. Listed(t)'
  <2>1. CASE RemovesAll(t)
    <3>1. ~Holding(t)
      BY <2>1, HoldingIs
    <3>2. saveProperty(t) => my'[t].ret = my[t].ret /\ pc[t] = "save"
      BY RewritesTyped DEF Rewrites
    <3>3. clearConfigurationFile(t) => my'[t].ret = "idle"
      BY RewritesTyped DEF Rewrites
    <3>4. my'[t].ret # "unlock" /\ RemovesAll(t)' /\ pc'[t] = "writing"
      BY <1>0, <2>1, <3>1, <3>2, <3>3 DEF Holding, Saves, RemovesAll, Rewrites, Opens
    <3> QED
      BY <3>4 DEF Listed, Holding
  <2>2. CASE ~RemovesAll(t)
    <3>1. saveProperty(t)
      BY <2>2, RewritesTyped DEF Rewrites
    <3> QED
      BY <2>2, <3>1, SavedList
  <2> QED
    BY <2>1, <2>2
<1>4. ASSUME NEW u \in Threads \ {t} PROVE Listed(u)'
  <2>1. Holding(u) => Key(u) \in Protocols /\ Served[Key(u)] \in ListKeys /\ locks[Key(u)] = u
    BY HoldingIs DEF ListInv, Listed
  <2>2. ASSUME Holding(u), ~RemovesAll(t), ~my'[t].lost
        PROVE  Stored'[Served[Key(u)]] = Stored[Served[Key(u)]]
    <3>1. saveProperty(t)
      BY <2>2, RewritesTyped DEF Rewrites
    <3>2. /\ Stored' = [Stored EXCEPT ![Next1(t)[1]] = Next1(t)[2]]
          /\ Next1(t)[1] \notin ListKeys \/ (Holding(t) /\ Next1(t)[1] = Served[Key(t)])
      BY <2>2, <3>1, SavedList
    <3>3. Next1(t)[1] # Served[Key(u)]
      BY <2>1, <2>2, <3>2, ListsDiffer
    <3> QED
      BY <1>0, <2>1, <2>2, <3>2, <3>3, KeysAre DEF Properties
  <2> QED
    BY <1>0, <1>1, <1>2, <2>1, <2>2, OthersListed DEF Only, ListInv
<1> QED
  BY <1>3, <1>4 DEF ListInv

(* A file that cannot be opened is as it was. *)
LEMMA SkipsListed ==
  ASSUME StoreInv, StoreInv', ListInv, NEW t \in Threads, Skips(t)
  PROVE  ListInv'
<1>0. /\ Only(t) /\ Quiet(t) /\ Stored' = Stored /\ locks["settings"] = Free
      /\ \A p \in Protocols : locks'[p] = locks[p]
  BY SkipsTyped, StoredQuiet
<1>1. ~BeingWiped
  BY <1>0, ThreadsAssumption DEF BeingWiped, StoreInv, Writers
<1>2. Listed(t)'
  <2>1. CASE pc'[t] \notin {"save", "writing", "unlock"}
    BY <2>1 DEF Listed, Holding, Saves
  <2>2. CASE saveProperty(t) /\ pc'[t] # "idle"
    <3>1. /\ pc[t] = "save" /\ Rest(my'[t], my[t]) /\ my'[t].wiped = my[t].wiped
          /\ pc'[t] = IF Tail(my[t].pending) # <<>> THEN "save" ELSE my[t].ret
          /\ my'[t].pending = Tail(my[t].pending) /\ my'[t].ret = my[t].ret
      BY <2>2, SkipsTyped
    <3>2. CASE RemovesAll(t)
      <4>1. ~Holding(t)
        BY <3>2, HoldingIs
      <4>2. my'[t].ret # "unlock" /\ RemovesAll(t)' /\ pc'[t] # "unlock"
        BY <3>1, <3>2, <4>1 DEF Holding, Saves, RemovesAll, Rest
      <4> QED
        BY <4>2 DEF Listed, Holding
    <3>3. CASE ~RemovesAll(t)
      BY <1>0, <1>1, <3>1, <3>3, ListIsSaved DEF Rest, After
    <3> QED
      BY <3>2, <3>3
  <2> QED
    BY <1>0, <2>1, <2>2, SkipsTyped DEF Skips, SavesOther
<1>3. ASSUME NEW u \in Threads \ {t} PROVE Listed(u)'
  <2>1. Holding(u) => Key(u) \in Protocols
    BY HoldingIs
  <2>2. Holding(u) => locks[Key(u)] = u
    BY DEF ListInv, Listed
  <2> QED
    BY <1>0, <1>1, <2>1, <2>2, OthersListed DEF Only, ListInv
<1> QED
  BY <1>2, <1>3 DEF ListInv

LEMMA OpensOtherListed ==
  ASSUME StoreInv, StoreInv', ListInv, NEW t \in Threads, OpensOther(t)
  PROVE  ListInv'
<1>0. /\ Only(t) /\ Opens(t) /\ disk'.writing # "cfg" /\ my'[t].pending = <<>>
      /\ my'[t].ret # "unlock" /\ TypeOK /\ ~BeingWiped
  BY OpensOtherTyped, ThreadsAssumption DEF BeingWiped, Opens, StoreInv, Writers
<1>1. Stored' = Stored
  <2>1. disk.writing = "none" /\ disk'.cfg = disk.cfg
    BY <1>0 DEF Opens, StoreInv, Writers
  <2> QED
    BY <1>0, <2>1 DEF Stored
<1>2. \A p \in Protocols : locks'[p] = locks[p]
  <2>1. CASE pc'[t] = "writing" /\ loadsyncs(t)
    BY <2>1, LoadSyncsTyped DEF Mutexes, Protocols
  <2>2. CASE pc'[t] = "writing" /\ SavesOther(t)
    BY <2>2, SavesOtherTyped DEF Mutexes, Protocols
  <2>3. CASE MigrateAnswer(t) /\ ~UNCHANGED pc
    <3>1. PICK entry \in my[t].sent : removeSyncConfig(t, entry) \/ UNCHANGED <<locks, pc>>
      BY <2>3 DEF MigrateAnswer
    <3>2. locks' = [locks EXCEPT !.settings = t]
      BY <2>3, <3>1 DEF removeSyncConfig
    <3> QED
      BY <1>0, <3>2 DEF TypeOK, Mutexes, Protocols
  <2> QED
    BY <2>1, <2>2, <2>3 DEF OpensOther
<1>3. Listed(t)'
  BY <1>0 DEF Listed, Holding, Opens, NoLists
<1>4. ASSUME NEW u \in Threads \ {t} PROVE Listed(u)'
  <2>1. Holding(u) => Key(u) \in Protocols /\ locks[Key(u)] = u
    BY HoldingIs DEF ListInv, Listed
  <2> QED
    BY <1>0, <1>1, <1>2, <2>1, OthersListed DEF Only, ListInv
<1> QED
  BY <1>3, <1>4 DEF ListInv

(* Ending a write tells the others that the lists were removed, or lines lost. *)
LEMMA EndWriteListed ==
  ASSUME StoreInv, StoreInv', ListInv, NEW t \in Threads, EndWrite(t)
  PROVE  ListInv'
<1>0. /\ pc[t] = "writing" /\ pc'[t] # "writing" /\ TypeOK
      /\ \A u \in Threads \ {t} : pc'[u] = pc[u]
      /\ \A m \in Mutexes \ {"settings"} : locks'[m] = locks[m]
      /\ disk'.writing = "none"
      /\ pc'[t] # "idle" => pc'[t] = IF my[t].pending # <<>> THEN "save" ELSE my[t].ret
      /\ \A u \in Threads : u # t \/ pc'[t] # "idle" =>
            /\ Same(my'[u], my[u])
            /\ my[u].wiped \/ Overwrites(t) => my'[u].wiped
            /\ disk.writing = "cfg" /\ disk'.cfg # my[t].buf => my'[u].wiped
  BY EndWriteKeeps, EndWriteIs DEF StoreInv, GoesAfter, After
<1>1. Stored' = Stored \/ (disk.writing = "cfg" /\ disk'.cfg # my[t].buf)
  <2>1. Stored' = disk'.cfg
    BY <1>0 DEF Stored
  <2> QED
    BY <1>0, <2>1, StoredIs, EndWriteIs
<1>2. BeingWiped => Overwrites(t)
  BY <1>0, ThreadsAssumption DEF BeingWiped, StoreInv, Writers
<1>3. \A p \in Protocols : locks'[p] = locks[p]
  BY <1>0 DEF Mutexes, Protocols
<1>4. ASSUME NEW u \in Threads, ~(u = t /\ pc'[t] = "idle"), Listed(u),
             Holding(u)' => Holding(u), Saves(u)' => Saves(u)
      PROVE  Listed(u)'
  <2>1. /\ my'[u].cmd = my[u].cmd /\ my'[u].pending = my[u].pending /\ my'[u].ret = my[u].ret
        /\ my'[u].list = my[u].list
        /\ my[u].wiped => my'[u].wiped
    BY <1>0, <1>4 DEF Same, Rest
  <2>2. /\ Key(u)' = Key(u)
        /\ SavesList(u)' = SavesList(u) /\ NoLists(u)' = NoLists(u)
        /\ RemovesAll(u)' = RemovesAll(u)
    BY <2>1 DEF Key, Path, SavesList, NoLists, RemovesAll
  <2>3. ListIsRead(u) => ListIsRead(u)'
    BY <1>0, <1>1, <1>2, <1>4, <2>1, <2>2 DEF ListIsRead
  <2>4. Holding(u) => Key(u) \in Protocols
    BY HoldingIs
  <2> QED
    BY <1>3, <1>4, <2>1, <2>2, <2>3, <2>4 DEF Listed
<1>5. Listed(t)'
  <2>1. CASE pc'[t] = "idle"
    BY <2>1 DEF Listed, Holding, Saves
  <2>2. CASE pc'[t] # "idle"
    <3>1. /\ my'[t].ret = my[t].ret /\ my[t].ret \notin {"save", "writing"}
          /\ pc'[t] = IF my[t].pending # <<>> THEN "save" ELSE my[t].ret
      BY <1>0, <2>2, FieldsTyped DEF Returns, Same
    <3>2. Listed(t) /\ (Holding(t)' => Holding(t)) /\ (Saves(t)' => Saves(t))
      BY <1>0, <3>1 DEF ListInv, Holding, Saves
    <3> QED
      BY <1>4, <2>2, <3>2
  <2> QED
    BY <2>1, <2>2
<1>6. ASSUME NEW u \in Threads \ {t} PROVE Listed(u)'
  <2>1. pc'[u] = pc[u] /\ my'[u].ret = my[u].ret
    BY <1>0 DEF Same
  <2>2. Listed(u) /\ (Holding(u)' => Holding(u)) /\ (Saves(u)' => Saves(u))
    BY <2>1 DEF ListInv, Holding, Saves
  <2> QED
    BY <1>4, <2>2
<1> QED
  BY <1>5, <1>6 DEF ListInv

LEMMA ListInvKept ==
  ASSUME StoreInv, StoreInv', ListInv, [Next]_vars
  PROVE  ListInv'
<1>1. CASE Crash
  <2>1. \A t \in Threads : pc'[t] = "idle"
    BY <1>1 DEF Crash
  <2> QED
    BY <2>1 DEF ListInv, Listed, Holding, Saves
<1>2. CASE UNCHANGED <<pc, my, disk, locks>>
  <2>1. Stored' = Stored
    BY <1>2 DEF Stored
  <2>2. BeingWiped => BeingWiped'
    BY <1>2 DEF BeingWiped, Overwrites, RemovesAll
  <2>3. \A t \in Threads : Holding(t) => locks[Key(t)] = t
    BY DEF ListInv, Listed
  <2> QED
    BY <1>2, <2>1, <2>2, <2>3, OthersListed DEF ListInv
<1> QED
  BY <1>1, <1>2, StepsAre, QuietListed, SkipsListed, RewritesListed, OpensOtherListed,
     EndWriteListed DEF vars, Done, Restart

(* While a command has the mutex of a list, the list it read stays the one  *)
(* of the file, unless everything is removed or lines of the file are lost. *)
THEOREM ListInvHolds ==
  Spec => []ListInv
<1>1. Init => ListInv
  BY DEF Init, InitProcess, ListInv, Listed, Holding, Saves
<1>2. StoreInv /\ StoreInv' /\ ListInv /\ [Next]_vars => ListInv'
  BY ListInvKept
<1> QED
  BY <1>1, <1>2, StoreInvHolds, PTL DEF Spec

LEMMA LocationsStep ==
  ASSUME StoreInv, StoreInv', ListInv, [Next]_vars, up', failures' = failures
  PROVE  \A p \in Protocols :
           ListChange(p) = {} \/
           \E t \in Threads :
              /\ pc[t] # "writing" /\ pc'[t] = "writing"
              /\ \/ RemovesAll(t)
                 \/ my[t].wiped
                 \/ ListChange(p) \subseteq {Path(t)}
<1> DEFINE Survives(p) ==
             ListChange(p) = {} \/
             \E t \in Threads :
                /\ pc[t] # "writing" /\ pc'[t] = "writing"
                /\ \/ RemovesAll(t)
                   \/ my[t].wiped
                   \/ ListChange(p) \subseteq {Path(t)}
<1>1. CASE Stored' = Stored
  BY <1>1 DEF ListChange
<1>2. ASSUME NEW t \in Threads, Rewrites(t), NEW p \in Protocols PROVE Survives(p)
  <2>1. Opens(t)
    BY <1>2, RewritesTyped
  <2>2. pc[t] # "writing" /\ pc'[t] = "writing"
    BY <2>1 DEF Opens
  <2>3. CASE RemovesAll(t)
    BY <2>2, <2>3
  <2>4. CASE ~RemovesAll(t)
    <3> DEFINE e == Next1(t)
    <3>1. saveProperty(t)
      BY <1>2, <2>4, RewritesTyped DEF Rewrites
    <3>0. failures \in Nat /\ (my'[t].lost => failures' = failures + 1)
      BY <1>2, RewritesTyped DEF StoreInv, TypeOK
    <3>2. /\ Stored' = [Stored EXCEPT ![e[1]] = e[2]]
          /\ \/ e[1] \notin ListKeys
             \/ /\ Holding(t) /\ e[1] = Served[Key(t)]
                /\ e[2] \in {my[t].list \cup {Path(t)}, my[t].list \ {Path(t)}}
                /\ my[t].wiped \/ Stored[Served[Key(t)]] = my[t].list
      BY <1>2, <2>4, <3>0, <3>1, SavedList
    <3> HIDE DEF e
    <3>4. Served[p] \in ListKeys /\ Served[p] \in Keys /\ DOMAIN Stored = Keys
      BY KeysAre, StoredIs DEF ListKeys, Properties
    <3>5. CASE e[1] # Served[p]
      <4>1. Stored'[Served[p]] = Stored[Served[p]]
        BY <3>2, <3>4, <3>5
      <4> QED
        BY <4>1 DEF ListChange
    <3>6. CASE e[1] = Served[p]
      <4>1. Stored'[Served[p]] = e[2]
        BY <3>2, <3>4, <3>6
      <4>2. Key(t) \in Protocols /\ Served[Key(t)] = Served[p]
        BY <3>2, <3>4, <3>6, HoldingIs
      <4>3. my[t].wiped \/ Stored[Served[p]] = my[t].list
        BY <3>2, <3>4, <3>6, <4>2
      <4>4. Stored[Served[p]] = my[t].list => ListChange(p) \subseteq {Path(t)}
        BY <3>2, <3>4, <3>6, <4>1 DEF ListChange
      <4> QED
        BY <2>2, <4>3, <4>4
    <3> QED
      BY <3>5, <3>6
  <2> QED
    BY <2>3, <2>4
<1>3. ASSUME NEW t \in Threads, QuietStep(t) \/ Skips(t) PROVE Stored' = Stored
  BY <1>3, QuietKeeps, SkipsTyped, StoredQuiet
<1>4. ASSUME NEW t \in Threads, OpensOther(t) PROVE Stored' = Stored
  <2>1. Opens(t) /\ disk'.writing # "cfg"
    BY <1>4, OpensOtherTyped
  <2>2. disk.writing = "none" /\ disk'.cfg = disk.cfg
    BY <2>1 DEF Opens, StoreInv, Writers
  <2> QED
    BY <2>1, <2>2 DEF Stored
<1>5. ASSUME NEW t \in Threads, EndWrite(t) PROVE Stored' = Stored
  <2>0. failures \in Nat
    BY DEF StoreInv, TypeOK
  <2>3. /\ pc[t] = "writing" /\ disk'.writing = "none"
        /\ disk.writing # "cfg" => disk'.cfg = disk.cfg
        /\ disk.writing = "cfg" /\ disk'.cfg # my[t].buf => failures' = failures + 1
    BY <1>5, EndWriteIs
  <2>1. /\ pc[t] = "writing" /\ disk'.writing = "none"
        /\ disk'.cfg = IF disk.writing = "cfg" THEN my[t].buf ELSE disk.cfg
    BY <2>0, <2>3
  <2>2. Stored' = disk'.cfg
    BY <2>1 DEF Stored
  <2> QED
    BY <2>1, <2>2, StoredIs
<1>6. UNCHANGED <<pc, my, disk>> => Stored' = Stored
  BY DEF Stored
<1>7. Restart \/ Done \/ UNCHANGED vars => UNCHANGED <<pc, my, disk>>
  BY DEF Restart, Done, vars
<1>8. ~Crash
  BY DEF Crash
<1> HIDE DEF Survives
<1>9. \A p \in Protocols : Survives(p)
  <2>1. CASE \E t \in Threads : Rewrites(t)
    BY <1>2, <2>1
  <2>2. CASE Stored' = Stored
    BY <2>2 DEF Survives, ListChange
  <2> QED
    BY <1>3, <1>4, <1>5, <1>6, <1>7, <1>8, <2>1, <2>2, StepsAre
<1> QED
  BY <1>9 DEF Survives

(* No command loses the location that another one is adding: the saved list *)
(* changes by the location of the command that saves it, or everything is   *)
(* removed (addWebdavLocation, removeWebdavLocation and those of ftp, and   *)
(* the mutex of each protocol), as long as the file can be read and written.*)
THEOREM LocationsSurviveHolds ==
  Spec => LocationsSurvive
<1>1. StoreInv /\ StoreInv' /\ ListInv /\ [Next]_vars =>
        [up' /\ failures' = failures => \A p \in Protocols :
           ListChange(p) = {} \/
           \E t \in Threads :
              /\ pc[t] # "writing" /\ pc'[t] = "writing"
              /\ \/ RemovesAll(t)
                 \/ my[t].wiped
                 \/ ListChange(p) \subseteq {Path(t)}]_vars
  BY LocationsStep
<1> QED
  BY <1>1, StoreInvHolds, ListInvHolds, PTL DEF Spec, LocationsSurvive

-----------------------------------------------------------------------------
(* The settings of the SDK and those of the file *)

Shown(k) == IF Stored[k] # 0 THEN Stored[k] ELSE Default[k]
Agrees(k) == Shown(k) \in {0, api.settings[k]}

Works(t, k) == pc[t] # "idle" /\ k \in Touches(my[t].cmd)
IsSaving(t, k) == \E n \in 1 .. Len(my[t].pending) : my[t].pending[n][1] = k

(* A setting that two threads work on at once is unsettled. *)
Apart ==
    \A t \in Threads : \A u \in Threads \ {t}, k \in SettingKeys :
        Works(t, k) /\ Works(u, k) => k \in unsettled

(* The options for the reclaiming, between their being fetched and pushed. *)
Own(t) == IF my[t].cmd.op = "login" THEN ApplyOrder[my[t].i] ELSE Key(t)
Given(t) == IF my[t].cmd.op = "login" THEN my[t].val ELSE Val(t)

Fetched ==
    \A t \in Threads : pc[t] = "push" =>
        /\ locks.reclaim = t /\ Own(t) \in ReclaimKeys
        /\ \A k \in ReclaimKeys :
             my[t].snap[k] = IF k = Own(t) THEN Given(t) ELSE api.settings[k]

(* A command saves settings of its own. *)
SavesOwn == \A t \in Threads : \A k \in SettingKeys : IsSaving(t, k) => Works(t, k)

(* A login has gone through all the settings when it comes to the syncs,    *)
(* and none of what it writes is its last step.                             *)
AfterSettings(t) ==
    LET at == IF pc[t] = "writing" THEN my[t].ret ELSE pc[t]
    IN  at \in {"migrate", "migrating", "resume", "saveBackups", "unlockBackups", "webdav", "ftp"}

WentThrough ==
    \A t \in Threads : my[t].cmd.op = "login" =>
        /\ AfterSettings(t) => my[t].i = Len(ApplyOrder)
        /\ pc[t] = "writing" => my[t].ret # "idle"

(* Where a command is with a setting that nobody else works on: what it has *)
(* given the SDK is what it will save, and until it gives the SDK another   *)
(* value the two agree.                                                     *)
CommandOn(t, k) ==
    IF IsSaving(t, k)
    THEN /\ \A n \in 1 .. Len(my[t].pending) :
              my[t].pending[n][1] = k => my[t].pending[n][2] = api.settings[k]
         /\ api.settings[k] # 0
    ELSE IF pc[t] = "graphics" \/ (pc[t] = "speedup" /\ k = "speeddown")
    THEN api.settings[k] = Val(t)
    ELSE loggedIn => Agrees(k)

(* ... a login: the settings it has been through agree. *)
Restoring(t) == pc[t] \in {"set", "push"}
LoginOn(t, k) ==
    /\ \A n \in 1 .. my[t].i :
         ApplyOrder[n] = k /\ ~(n = my[t].i /\ Restoring(t)) => Agrees(k)
    /\ Restoring(t) /\ k = ApplyOrder[my[t].i] => my[t].val = Shown(k)

(* ... and a logout: the session is over before the file is cleared. *)
WorksOn(t, k) ==
    /\ my[t].cmd.op \notin Sessions => CommandOn(t, k)
    /\ my[t].cmd.op = "login" => LoginOn(t, k)
    /\ my[t].cmd.op \in {"logout", "logout-keep"} /\ pc[t] # "start" => ~loggedIn

SettingsInv ==
    /\ Apart
    /\ Fetched
    /\ SavesOwn
    /\ WentThrough
    /\ ~up => ~loggedIn
    /\ \A k \in SettingKeys \ unsettled :
          /\ \A t \in Threads : Works(t, k) => WorksOn(t, k)
          /\ ~Busy(k) /\ loggedIn => Agrees(k)

LEMMA SettingsAre ==
  /\ SettingKeys \subseteq Keys \ ListKeys
  /\ ReclaimKeys = {"age", "target"} /\ ReclaimKeys \subseteq SettingKeys
  /\ Default \in [SettingKeys -> Nat]
  /\ \A k \in SettingKeys : \E n \in 1 .. 8 : ApplyOrder[n] = k
  /\ \A m, n \in 1 .. 8 : ApplyOrder[m] = ApplyOrder[n] => m = n
  /\ Len(ApplyOrder) = 8 /\ \A n \in 1 .. 8 : ApplyOrder[n] \in SettingKeys
  /\ \A c : c.op \in Sessions => SettingKeys \subseteq Touches(c)
<1>1. /\ SettingKeys \subseteq Keys \ ListKeys /\ Default \in [SettingKeys -> Nat]
      /\ ReclaimKeys = {"age", "target"} /\ ReclaimKeys \subseteq SettingKeys
  BY KeysAre, ConstantsTyped DEF ReclaimKeys
<1>2. /\ \A k \in SettingKeys : \E n \in 1 .. 8 : ApplyOrder[n] = k
      /\ \A m, n \in 1 .. 8 : ApplyOrder[m] = ApplyOrder[n] => m = n
  BY KeysAre DEF ApplyOrder
<1>3. \A c : c.op \in Sessions => SettingKeys \subseteq Touches(c)
  BY DEF Touches
<1> QED
  BY <1>1, <1>2, <1>3, ApplyOrderIs

LEMMA SettingsTyped ==
  ASSUME StoreInv, NEW k \in SettingKeys
  PROVE  Stored[k] \in Nat /\ Shown(k) \in Nat /\ api.settings[k] \in Nat
<1>1. Stored[k] \in Nat
  BY StoredIs, SettingsAre DEF Properties, ValuesOf
<1> QED
  BY <1>1, SettingsAre DEF Shown, StoreInv, TypeOK, Apis

LEMMA Unmoved ==
  ASSUME NEW k, Stored'[k] = Stored[k], api'.settings[k] = api.settings[k]
  PROVE  Shown(k)' = Shown(k) /\ Agrees(k)' = Agrees(k)
<1>1. Shown(k)' = Shown(k)
  BY DEF Shown
<1> QED
  BY <1>1 DEF Agrees

(* What a step of a thread leaves alone, and what it must see to itself.    *)
LeavesOthers(t) ==
    /\ \A u \in Threads \ {t} :
          /\ pc'[u] = pc[u]
          /\ my'[u].cmd = my[u].cmd /\ my'[u].pending = my[u].pending /\ my'[u].ret = my[u].ret
          /\ my'[u].i = my[u].i /\ my'[u].val = my[u].val /\ my'[u].snap = my[u].snap
          /\ locks["reclaim"] = u => locks'["reclaim"] = u
    /\ \A k \in SettingKeys : ~Works(t, k) =>
          /\ k \in unsettled' \/ Stored'[k] = Stored[k]
          /\ api'.settings[k] = api.settings[k]
    /\ locks["reclaim"] # t => \A k \in ReclaimKeys : api'.settings[k] = api.settings[k]
    /\ unsettled \subseteq unsettled'
    /\ loggedIn' = loggedIn \/ my[t].cmd.op \in Sessions
    /\ up /\ up'

Snapped(t) ==
    pc[t] = "push" =>
        /\ locks.reclaim = t /\ Own(t) \in ReclaimKeys
        /\ \A k \in ReclaimKeys :
             my[t].snap[k] = IF k = Own(t) THEN Given(t) ELSE api.settings[k]

KeepsOwn(t) ==
    /\ Snapped(t)'
    /\ \A k \in SettingKeys : IsSaving(t, k)' => Works(t, k)'
    /\ my'[t].cmd.op = "login" =>
          /\ AfterSettings(t)' => my'[t].i = 8
          /\ pc'[t] = "writing" => my'[t].ret # "idle"
    /\ \A k \in SettingKeys \ unsettled' :
          /\ Works(t, k)' => WorksOn(t, k)' /\ (Works(t, k) \/ ~Busy(k))
          /\ Works(t, k) /\ ~Works(t, k)' /\ loggedIn' => Agrees(k)'

LEMMA SessionsWork ==
  ASSUME StoreInv, NEW t \in Threads, my[t].cmd.op \in Sessions, NEW k \in SettingKeys
  PROVE  Works(t, k)
BY SettingsAre DEF Works, StoreInv, InCommand, Placed, NoCommand, Sessions

LEMMA SettingsKept ==
  ASSUME StoreInv, SettingsInv, NEW t \in Threads, LeavesOthers(t), KeepsOwn(t)
  PROVE  SettingsInv'
<1> USE DEF SettingsInv
<1>0. \A u \in Threads \ {t}, k \in SettingKeys : /\ Works(u, k)' = Works(u, k)
                                                  /\ IsSaving(u, k)' = IsSaving(u, k)
  BY DEF LeavesOthers, Works, IsSaving
<1>1. Apart'
  <2> SUFFICES ASSUME NEW u \in Threads, NEW v \in Threads \ {u}, NEW k \in SettingKeys \ unsettled',
                      Works(u, k)', Works(v, k)'
               PROVE  FALSE
    BY DEF Apart
  <2>1. k \notin unsettled
    BY DEF LeavesOthers
  <2>2. CASE u = t
    BY <1>0, <2>1, <2>2 DEF Apart, KeepsOwn, Busy, Works
  <2>3. CASE v = t
    BY <1>0, <2>1, <2>3 DEF Apart, KeepsOwn, Busy, Works
  <2>4. CASE u # t /\ v # t
    BY <1>0, <2>1, <2>4 DEF Apart
  <2> QED
    BY <2>2, <2>3, <2>4
<1>2. Fetched'
  <2> SUFFICES ASSUME NEW u \in Threads \ {t} PROVE Snapped(u)'
    BY DEF Fetched, KeepsOwn, Snapped
  <2> SUFFICES ASSUME pc'[u] = "push" PROVE Snapped(u)'
    BY DEF Snapped
  <2>1. Snapped(u) /\ pc[u] = "push" /\ locks["reclaim"] = u
    BY DEF LeavesOthers, Fetched, Snapped
  <2>2. Own(u)' = Own(u) /\ Given(u)' = Given(u)
    BY DEF LeavesOthers, Own, Given, Key, Val
  <2>3. \A k \in ReclaimKeys : api'.settings[k] = api.settings[k]
    BY <2>1 DEF LeavesOthers
  <2> QED
    BY <2>1, <2>2, <2>3 DEF Snapped, LeavesOthers
<1>3. SavesOwn'
  BY <1>0 DEF SavesOwn, KeepsOwn
<1>4. WentThrough'
  BY SettingsAre DEF WentThrough, KeepsOwn, LeavesOthers, AfterSettings
<1>5. (~up => ~loggedIn)'
  BY DEF LeavesOthers
<1>6. ASSUME NEW k \in SettingKeys \ unsettled', NEW u \in Threads, Works(u, k)'
      PROVE  WorksOn(u, k)'
  <2> SUFFICES ASSUME u # t PROVE WorksOn(u, k)'
    BY <1>6 DEF KeepsOwn
  <2>1. Works(u, k) /\ k \notin unsettled /\ WorksOn(u, k)
    BY <1>0, <1>6 DEF LeavesOthers
  <2>2. ~Works(t, k)
    BY <2>1 DEF Apart
  <2>3. Stored'[k] = Stored[k] /\ api'.settings[k] = api.settings[k] /\ loggedIn' = loggedIn
    BY <2>2, SessionsWork DEF LeavesOthers
  <2>4. Shown(k)' = Shown(k) /\ Agrees(k)' = Agrees(k)
    BY <2>3, Unmoved
  <2>5. /\ pc'[u] = pc[u] /\ my'[u].cmd = my[u].cmd /\ my'[u].pending = my[u].pending
        /\ my'[u].i = my[u].i /\ my'[u].val = my[u].val
    BY DEF LeavesOthers
  <2>6. my[u].cmd.op \notin Sessions => CommandOn(u, k)'
    BY <1>0, <2>1, <2>3, <2>4, <2>5 DEF WorksOn, CommandOn, Val
  <2>7. my[u].cmd.op = "login" => LoginOn(u, k)'
    BY <2>1, <2>4, <2>5 DEF WorksOn, LoginOn, Restoring
  <2> QED
    BY <2>1, <2>3, <2>5, <2>6, <2>7 DEF WorksOn
<1>7. ASSUME NEW k \in SettingKeys \ unsettled', ~Busy(k)', loggedIn'
      PROVE  Agrees(k)'
  <2>0. ~Works(t, k)' /\ \A u \in Threads \ {t} : ~Works(u, k)
    BY <1>0, <1>7 DEF Busy, Works
  <2>1. CASE Works(t, k)
    BY <1>7, <2>0, <2>1 DEF KeepsOwn
  <2>2. CASE ~Works(t, k)
    <3>1. ~Busy(k) /\ k \notin unsettled /\ loggedIn
      BY <1>7, <2>0, <2>2, SessionsWork DEF Busy, Works, LeavesOthers
    <3>2. Agrees(k)
      BY <3>1
    <3> QED
      BY <2>2, <3>2, Unmoved DEF LeavesOthers
  <2> QED
    BY <2>1, <2>2
<1> QED
  BY <1>1, <1>2, <1>3, <1>4, <1>5, <1>6, <1>7

-----------------------------------------------------------------------------
(* A step that neither the SDK's settings nor the file see. *)
Steady(t) ==
    /\ Only(t) /\ up /\ up'
    /\ Stored' = Stored /\ api'.settings = api.settings
    /\ loggedIn' = loggedIn /\ unsettled \subseteq unsettled'
    /\ \A u \in Threads \ {t} : locks["reclaim"] = u => locks'["reclaim"] = u

LEMMA SteadyLeaves ==
  ASSUME NEW t \in Threads, Steady(t)
  PROVE  LeavesOthers(t) /\ \A k : Shown(k)' = Shown(k) /\ Agrees(k)' = Agrees(k)
BY Unmoved DEF Steady, LeavesOthers, Only

LEMMA MutexKept ==
  ASSUME TypeOK, Fetched, NEW t \in Threads,
         \/ UNCHANGED locks
         \/ \E m \in Mutexes : Acquire(t, m)
         \/ \E m \in Mutexes \ {"reclaim"} : Release(m)
         \/ Release("reclaim") /\ pc[t] = "push"
  PROVE  \A u \in Threads \ {t} : locks["reclaim"] = u => locks'["reclaim"] = u
<1>1. "reclaim" \in Mutexes /\ locks \in [Mutexes -> Threads \cup {Free}]
  BY DEF TypeOK, Mutexes
<1>2. ASSUME NEW m \in Mutexes, Acquire(t, m)
      PROVE  \A u \in Threads \ {t} : locks["reclaim"] = u => locks'["reclaim"] = u
  BY <1>1, <1>2, ThreadsAssumption DEF Acquire
<1>3. ASSUME NEW m \in Mutexes \ {"reclaim"}, Release(m)
      PROVE  \A u \in Threads \ {t} : locks["reclaim"] = u => locks'["reclaim"] = u
  BY <1>1, <1>3 DEF Release
<1>4. ASSUME Release("reclaim") /\ pc[t] = "push"
      PROVE  \A u \in Threads \ {t} : locks["reclaim"] = u => locks'["reclaim"] = u
  BY <1>1, <1>4 DEF Fetched
<1> QED
  BY <1>2, <1>3, <1>4

(* The end of a command that is not a login or a logout.                    *)
LEMMA FinishKept ==
  ASSUME StoreInv, SettingsInv, NEW t \in Threads, Steady(t), Finish(t),
         pc[t] \notin {"graphics", "speedup"}, my[t].cmd.op \notin Sessions,
         my[t].pending = <<>>
  PROVE  SettingsInv'
<1>1. pc'[t] = "idle" /\ my'[t] = NoLocals
  BY DEF Finish, Goto, StoreInv, TypeOK
<1>2. \A k \in SettingKeys : ~IsSaving(t, k) /\ ~IsSaving(t, k)' /\ ~Works(t, k)'
  BY <1>1 DEF IsSaving, NoLocals, Works
<1>3. ASSUME NEW k \in SettingKeys \ unsettled, Works(t, k), loggedIn PROVE Agrees(k)
  BY <1>2, <1>3 DEF SettingsInv, WorksOn, CommandOn
<1>4. KeepsOwn(t)
  BY <1>1, <1>2, <1>3, SteadyLeaves DEF KeepsOwn, Snapped, AfterSettings, Steady
<1> QED
  BY <1>4, SettingsKept, SteadyLeaves

(* A step within such a command. *)
LEMMA MoveKept ==
  ASSUME StoreInv, SettingsInv, NEW t \in Threads, Steady(t),
         my'[t].cmd = my[t].cmd, my[t].cmd.op \notin Sessions,
         pc[t] \notin {"idle", "graphics", "speedup"}, my[t].pending = <<>>,
         pc'[t] \notin {"idle", "graphics", "speedup", "push"},
         \A k \in SettingKeys : ~IsSaving(t, k)'
  PROVE  SettingsInv'
<1>1. \A k \in SettingKeys : ~IsSaving(t, k) /\ Works(t, k)' = Works(t, k)
  BY DEF IsSaving, Works
<1>2. ASSUME NEW k \in SettingKeys \ unsettled, Works(t, k) PROVE WorksOn(t, k)'
  BY <1>1, <1>2, SteadyLeaves DEF SettingsInv, WorksOn, CommandOn, Steady, Sessions
<1>3. KeepsOwn(t)
  BY <1>1, <1>2 DEF KeepsOwn, Snapped, Steady, Sessions
<1> QED
  BY <1>3, SettingsKept, SteadyLeaves

(* A step of a login that restores no setting.                              *)
LEMMA LoginMoveKept ==
  ASSUME StoreInv, SettingsInv, NEW t \in Threads, Steady(t),
         my'[t].cmd = my[t].cmd, my[t].cmd.op = "login", pc'[t] # "idle",
         my'[t].pending = <<>>, my'[t].i = my[t].i,
         pc[t] \notin {"set", "push"}, pc'[t] \notin {"set", "push"},
         pc'[t] = "writing" => my'[t].ret # "idle",
         AfterSettings(t)' => AfterSettings(t) \/ my[t].i = 8
  PROVE  SettingsInv'
<1>0. pc[t] # "idle"
  BY DEF StoreInv, InCommand, Placed, NoCommand
<1>1. \A k \in SettingKeys : ~IsSaving(t, k)' /\ Works(t, k)' = Works(t, k)
  BY <1>0 DEF IsSaving, Works
<1>2. ASSUME NEW k \in SettingKeys \ unsettled, Works(t, k) PROVE WorksOn(t, k)'
  <2>1. LoginOn(t, k)
    BY <1>2 DEF SettingsInv, WorksOn
  <2>2. LoginOn(t, k)'
    BY <2>1, SteadyLeaves DEF LoginOn, Restoring
  <2> QED
    BY <2>2 DEF WorksOn, Sessions
<1>3. (my[t].cmd.op = "login" /\ AfterSettings(t))' => my'[t].i = 8
  BY SettingsAre DEF SettingsInv, WentThrough
<1>4. KeepsOwn(t)
  BY <1>1, <1>2, <1>3 DEF KeepsOwn, Snapped, Steady
<1> QED
  BY <1>4, SettingsKept, SteadyLeaves

(* What is saved that is not a setting. *)
NamesSetting(q) == \E n \in 1 .. Len(q) : q[n][1] \in SettingKeys

LEMMA OtherNames ==
  /\ ~NamesSetting(<<>>)
  /\ \A x : x[1] \notin SettingKeys => ~NamesSetting(<<x>>)
  /\ \A x, y : x[1] \notin SettingKeys /\ y[1] \notin SettingKeys => ~NamesSetting(<<x, y>>)
<1>1. ASSUME NEW x, x[1] \notin SettingKeys PROVE ~NamesSetting(<<x>>)
  <2>1. Len(<<x>>) = 1 /\ <<x>>[1] = x
    OBVIOUS
  <2> QED
    BY <1>1, <2>1 DEF NamesSetting
<1>2. ASSUME NEW x, NEW y, x[1] \notin SettingKeys, y[1] \notin SettingKeys
      PROVE  ~NamesSetting(<<x, y>>)
  <2>1. Len(<<x, y>>) = 2 /\ <<x, y>>[1] = x /\ <<x, y>>[2] = y
    OBVIOUS
  <2> QED
    BY <1>2, <2>1 DEF NamesSetting
<1>3. ~NamesSetting(<<>>)
  BY DEF NamesSetting
<1> QED
  BY <1>1, <1>2, <1>3

LEMMA OtherPairs ==
  ASSUME NEW k \in Keys \ SettingKeys, NEW l \in Keys \ SettingKeys, NEW v, NEW w
  PROVE  ~NamesSetting(<<<<k, v>>>>) /\ ~NamesSetting(<<<<k, v>>, <<l, w>>>>)
<1> DEFINE x == <<k, v>>
           y == <<l, w>>
<1>1. x[1] \notin SettingKeys /\ y[1] \notin SettingKeys
  OBVIOUS
<1> HIDE DEF x, y
<1>2. ~NamesSetting(<<x>>) /\ ~NamesSetting(<<x, y>>)
  BY <1>1, OtherNames
<1> QED
  BY <1>2 DEF x, y

(* The locations, the backups and the proxy do not touch the settings. *)
LEMMA BackupsKept ==
  ASSUME StoreInv, StoreInv', SettingsInv, NEW t \in Threads, BackupStep(t)
  PROVE  SettingsInv'
<1>0. TypeOK /\ Placed(t) /\ Placed(t)' /\ Fetched /\ my \in [Threads -> Locals]
  BY DEF StoreInv, InCommand, TypeOK, SettingsInv
<1>1. Only(t) /\ Quiet(t) /\ Stored' = Stored /\ pc'[t] # "writing"
  BY BackupsQuiet, StoredQuiet DEF Quiet
<1>2. /\ pc[t] \in {"start", "register", "refused", "unlockBackups", "remove", "erase",
                    "eraseStopped"}
      /\ pc[t] = "start" => my[t].cmd.op \in Copying
      /\ api'.settings = api.settings /\ UNCHANGED <<loggedIn, unsettled, up>> /\ up
  BY <1>0 DEF BackupStep, createOrModifyBackup, RegisterBackup, RefusedBackup, UnlockBackups,
     FindBackup, BackupNotFound, RemoveScheduledCopy, EraseBackup, EraseStoppedBackup, At, AtOp,
     TypeOK, Apis, Copying
<1>3. Steady(t)
  <2>1. UNCHANGED locks \/ Release("backups") \/ Acquire(t, "backups")
    BY DEF BackupStep, createOrModifyBackup, RegisterBackup, RefusedBackup, UnlockBackups,
       FindBackup, BackupNotFound, RemoveScheduledCopy, EraseBackup, EraseStoppedBackup, Acquire
  <2>2. \A u \in Threads \ {t} : locks["reclaim"] = u => locks'["reclaim"] = u
    BY <1>0, <2>1, MutexKept DEF Mutexes
  <2> QED
    BY <1>1, <1>2, <2>2 DEF Steady
<1>4. my[t].pending = <<>> /\ (my[t].cmd.op \in Sessions => pc[t] = "unlockBackups")
  BY <1>0, <1>2 DEF Placed, Reaches, Copying, Sessions
<1>5. CASE Finish(t) /\ my[t].cmd.op \notin Sessions
  BY <1>2, <1>3, <1>4, <1>5, FinishKept
<1>6. CASE UnlockBackups(t) /\ my[t].cmd.op = "login"
  <2>1. Goto(t, "webdav") /\ UNCHANGED my /\ pc[t] = "unlockBackups"
    BY <1>6 DEF UnlockBackups, At
  <2>2. pc'[t] = "webdav" /\ my'[t] = my[t]
    BY <1>0, <2>1 DEF Goto, TypeOK
  <2> QED
    BY <1>3, <1>4, <1>6, <2>1, <2>2, LoginMoveKept DEF AfterSettings
<1>7. CASE ~Finish(t) /\ ~UnlockBackups(t)
  <2>1. my[t].cmd.op \notin Sessions
    BY <1>4, <1>7 DEF BackupStep, createOrModifyBackup, RegisterBackup, RefusedBackup, FindBackup,
       BackupNotFound, RemoveScheduledCopy, EraseBackup, EraseStoppedBackup, At, AtOp, Sessions
  <2>2. /\ my'[t].cmd = my[t].cmd
        /\ my'[t].pending \in {<<>>, <<<<"firstBackupConfigured", 1>>>>}
    BY <1>0, <1>4, <1>7 DEF BackupStep, createOrModifyBackup, RegisterBackup, RefusedBackup, FindBackup,
       BackupNotFound, RemoveScheduledCopy, EraseBackup, EraseStoppedBackup, Locals, ThenSave
  <2>3. \A k \in SettingKeys : ~IsSaving(t, k)'
    BY <2>2, KeysAre DEF IsSaving
  <2>4. pc'[t] \in {"register", "refused", "saveBackups", "save", "remove", "eraseStopped", "erase"}
    <3>1. \E l \in {"register", "refused", "saveBackups", "save", "remove", "eraseStopped", "erase"} :
            Goto(t, l)
      BY <1>7 DEF BackupStep, createOrModifyBackup, RegisterBackup, RefusedBackup, FindBackup,
         BackupNotFound, RemoveScheduledCopy, EraseBackup, EraseStoppedBackup, ThenSave
    <3> QED
      BY <1>0, <3>1 DEF Goto, TypeOK
  <2> QED
    BY <1>2, <1>3, <1>4, <2>1, <2>2, <2>3, <2>4, MoveKept
<1> QED
  <2>1. Finish(t) => my[t].cmd.op \notin Sessions \/ UnlockBackups(t)
    BY <1>4 DEF BackupStep, createOrModifyBackup, RegisterBackup, RefusedBackup, FindBackup,
       BackupNotFound, RemoveScheduledCopy, EraseBackup, EraseStoppedBackup, At, AtOp, Sessions
  <2>2. UnlockBackups(t) => Finish(t) \/ my[t].cmd.op = "login"
    BY DEF UnlockBackups
  <2>3. UnlockBackups(t) /\ my[t].cmd.op \in Sessions => my[t].cmd.op = "login"
    BY <1>0 DEF UnlockBackups, At, Placed, Reaches, Copying, Sessions
  <2> QED
    BY <1>5, <1>6, <1>7, <2>1, <2>2, <2>3

LEMMA LocationsKept ==
  ASSUME StoreInv, StoreInv', SettingsInv, NEW t \in Threads, LocationStep(t)
  PROVE  SettingsInv'
<1>0. TypeOK /\ Placed(t) /\ Placed(t)' /\ Fetched /\ my \in [Threads -> Locals]
  BY DEF StoreInv, InCommand, TypeOK, SettingsInv
<1>1. Only(t) /\ Quiet(t) /\ Stored' = Stored /\ pc'[t] # "writing"
  BY LocationsQuiet, StoredQuiet DEF Quiet
<1>p. /\ \A p \in Protocols : Served[p] \in Keys \ SettingKeys /\ Port[p] \in Keys \ SettingKeys
      /\ Served["webdav"] = "webdav_served" /\ Port["webdav"] = "webdav_port"
      /\ Served["ftp"] = "ftp_served" /\ Port["ftp"] = "ftp_port"
  <2>1. \A p \in Protocols : Served[p] \in ListKeys /\ Port[p] \in {"webdav_port", "ftp_port"}
    BY DEF ListKeys, Protocols, Served, Port
  <2> QED
    BY <2>1, KeysAre DEF Served, Port
<1>d. \/ Link(t) \/ Unserve(t) \/ ListLocations(t) \/ ListLinks(t) \/ RemoveAll(t)
      \/ UnlockLocations(t)
      \/ \E p \in Protocols : StartServer(t, Port[p]) \/ AddLocation(t, Served[p])
                              \/ RemoveLocation(t, Served[p], Port[p])
  <2>1. "webdav" \in Protocols /\ "ftp" \in Protocols
    BY DEF Protocols
  <2> QED
    BY <1>p, <2>1 DEF LocationStep, StartWebdav, StartFtp, addWebdavLocation, addFtpLocation,
       removeWebdavLocation, removeFtpLocation
<1>r. ASSUME NEW p \in Protocols,
             AddLocation(t, Served[p]) \/ RemoveLocation(t, Served[p], Port[p])
      PROVE  my'[t].cmd = my[t].cmd /\ ~NamesSetting(my'[t].pending)
  <2>1. PICK list : \E w \in BOOLEAN : \E q : ReadsList(t, p, list, w, q)
    BY <1>r, LocationRead
  <2>2. PICK w \in BOOLEAN : \E q : ReadsList(t, p, list, w, q)
    BY <2>1
  <2>3. PICK q : ReadsList(t, p, list, w, q)
    BY <2>2
  <2>4. /\ ~NamesSetting(<<<<Served[p], list \cup {Path(t)}>>>>)
        /\ ~NamesSetting(<<<<Served[p], list \ {Path(t)}>>>>)
        /\ ~NamesSetting(<<<<Port[p], 0>>, <<Served[p], list \ {Path(t)}>>>>)
    BY <1>p, OtherPairs
  <2>5. ~NamesSetting(q)
    BY <2>3, <2>4 DEF ReadsList
  <2>6. my'[t].cmd = my[t].cmd /\ my'[t].pending = q
    BY <1>0, <2>3 DEF ReadsList, Locals
  <2> QED
    BY <2>5, <2>6
<1> USE DEF LocationStep, StartWebdav, StartFtp, StartServer, Link, Unserve, RemoveAll, ListLocations,
        ListLinks, addWebdavLocation, addFtpLocation, AddLocation, removeWebdavLocation,
        removeFtpLocation, RemoveLocation, UnlockLocations
<1>2. /\ pc[t] \in {"start", "link", "list", "links", "unlock"}
      /\ pc[t] \in {"start", "list"} => my[t].cmd.op \in {"serve", "unserve", "remove-all", "list"}
      /\ UNCHANGED <<loggedIn, unsettled, up>> /\ up
  BY DEF At, AtOp
<1>3. api'.settings = api.settings
  BY <1>0 DEF TypeOK, Apis
<1>4. my[t].pending = <<>> /\ my[t].cmd.op \in {"serve", "unserve", "remove-all", "list"}
      /\ my[t].cmd.op \notin Sessions /\ Key(t) \in Protocols
  <2>1. my[t].pending = <<>> /\ my[t].cmd.op \in {"serve", "unserve", "remove-all", "list"}
    BY <1>0, <1>2 DEF Placed, Reaches, Locating
  <2> QED
    BY <1>2, <2>1, CommandIs DEF Sessions
<1>5. Steady(t)
  <2>1. UNCHANGED locks \/ Release(Key(t)) \/ Acquire(t, Key(t))
    OBVIOUS
  <2>2. \A u \in Threads \ {t} : locks["reclaim"] = u => locks'["reclaim"] = u
    BY <1>0, <1>4, <2>1, MutexKept DEF Mutexes, Protocols
  <2> QED
    BY <1>1, <1>2, <1>3, <2>2 DEF Steady
<1>6. CASE Finish(t)
  BY <1>2, <1>4, <1>5, <1>6, FinishKept
<1>7. CASE ~Finish(t)
  <2>1. my'[t].cmd = my[t].cmd /\ ~NamesSetting(my'[t].pending)
    <3>1. CASE my'[t] = my[t]
      BY <1>4, <3>1, OtherNames
    <3>2. CASE ListLocations(t)
      BY <1>0, <1>4, <3>2, OtherNames DEF Locals
    <3>3. ASSUME NEW q, NEW r, ThenSave(t, q, r) PROVE my'[t].cmd = my[t].cmd /\ my'[t].pending = q
      BY <1>0, <3>3 DEF ThenSave, Locals
    <3>4. CASE RemoveAll(t)
      <4>1. ThenSave(t, <<<<Served[Key(t)], {}>>, <<Port[Key(t)], 0>>>>, "idle")
        BY <3>4
      <4>2. Served[Key(t)] \in Keys \ SettingKeys /\ Port[Key(t)] \in Keys \ SettingKeys
        BY <1>4, <1>p
      <4>3. ~NamesSetting(<<<<Served[Key(t)], {}>>, <<Port[Key(t)], 0>>>>)
        BY <4>2, OtherPairs
      <4> QED
        BY <3>3, <4>1, <4>3
    <3>5. ASSUME NEW p \in Protocols, StartServer(t, Port[p])
          PROVE  my'[t].cmd = my[t].cmd /\ ~NamesSetting(my'[t].pending)
      <4>1. ThenSave(t, <<<<Port[p], 1>>>>, "link") \/ my'[t] = my[t]
        BY <1>7, <3>5
      <4>2. ~NamesSetting(<<<<Port[p], 1>>>>)
        BY <1>p, OtherPairs
      <4> QED
        BY <3>1, <3>3, <4>1, <4>2
    <3> HIDE DEF AddLocation, RemoveLocation
    <3>7. \/ my'[t] = my[t] \/ ListLocations(t) \/ RemoveAll(t)
          \/ \E p \in Protocols : StartServer(t, Port[p]) \/ AddLocation(t, Served[p])
                                  \/ RemoveLocation(t, Served[p], Port[p])
      BY <1>7, <1>d
    <3> QED
      BY <1>r, <3>1, <3>2, <3>4, <3>5, <3>7
  <2>3. \A k \in SettingKeys : ~IsSaving(t, k)'
    BY <2>1 DEF IsSaving, NamesSetting
  <2>4. pc'[t] \in {"link", "save", "list", "links"}
    <3>1. \E l \in {"link", "save", "list", "links"} : Goto(t, l)
      BY <1>7 DEF ThenSave
    <3> QED
      BY <1>0, <3>1 DEF Goto, TypeOK
  <2> QED
    BY <1>2, <1>4, <1>5, <2>1, <2>3, <2>4, MoveKept
<1> QED
  BY <1>6, <1>7

(* One setting of the SDK changes. *)
Sets(k, v) ==
    /\ api'.settings[k] = v
    /\ \A j \in SettingKeys \ {k} : api'.settings[j] = api.settings[j]

(* A step of a thread, to the settings of the SDK at most.                  *)
Moves(t) ==
    /\ Only(t) /\ up /\ up'
    /\ Stored' = Stored /\ loggedIn' = loggedIn /\ unsettled' = unsettled
    /\ \A u \in Threads \ {t} : locks["reclaim"] = u => locks'["reclaim"] = u

Within(t) == Moves(t) /\ my[t].cmd.op \notin Sessions

LEMMA WithinIs ==
  ASSUME StoreInv, StoreInv', SettingsInv, NEW t \in Threads, SettingStep(t)
  PROVE  /\ Within(t)
         /\ pc[t] \in {"start", "push", "speedup", "graphics"}
         /\ my[t].pending = <<>>
<1>0. TypeOK /\ Placed(t) /\ Fetched
  BY DEF StoreInv, InCommand, SettingsInv
<1>1. Only(t) /\ Stored' = Stored
  BY SettingsQuiet, StoredQuiet
<1>2. /\ pc[t] \in {"start", "push", "speedup", "graphics"}
      /\ UNCHANGED <<loggedIn, unsettled, up>> /\ up
      /\ pc[t] = "start" => my[t].cmd.op \in {"configure", "speedlimit", "graphics", "permissions",
                                              "proxy", "update"}
      /\ pc[t] = "push" => my[t].cmd.op = "configure"
  BY DEF SettingStep, Configure, ConfigurePush, Speedlimit, SpeedlimitUp, Graphics, GraphicsSave,
     Permissions, setProxy, UpdateAuto, At, AtOp
<1>3. my[t].cmd.op \notin Sessions /\ my[t].pending = <<>>
  BY <1>0, <1>2 DEF Placed, Reaches, Sessions
<1>4. UNCHANGED locks \/ Acquire(t, "reclaim") \/ (Release("reclaim") /\ pc[t] = "push")
  BY DEF SettingStep, Configure, ConfigurePush, Speedlimit, SpeedlimitUp, Graphics, GraphicsSave,
     Permissions, setProxy, UpdateAuto, At, AtOp, FetchReclaim, PushReclaim
<1>5. \A u \in Threads \ {t} : locks["reclaim"] = u => locks'["reclaim"] = u
  BY <1>0, <1>4, MutexKept DEF Mutexes
<1> QED
  BY <1>1, <1>2, <1>3, <1>5 DEF Within, Moves

LEMMA CommandKept ==
  ASSUME StoreInv, SettingsInv, NEW t \in Threads, LeavesOthers(t),
         my'[t].cmd = my[t].cmd, my[t].cmd.op \notin Sessions,
         pc[t] # "idle", pc'[t] # "idle", Snapped(t)',
         \A k \in SettingKeys : IsSaving(t, k)' => Works(t, k),
         \A k \in SettingKeys \ unsettled' : Works(t, k) /\ CommandOn(t, k) => CommandOn(t, k)'
  PROVE  SettingsInv'
<1>1. \A k \in SettingKeys : Works(t, k)' = Works(t, k)
  BY DEF Works
<1>2. ASSUME NEW k \in SettingKeys \ unsettled', Works(t, k) PROVE WorksOn(t, k)'
  BY <1>2 DEF SettingsInv, WorksOn, Sessions, LeavesOthers
<1>3. KeepsOwn(t)
  BY <1>1, <1>2 DEF KeepsOwn, Sessions
<1> QED
  BY <1>3, SettingsKept

LEMMA SetsLeaves ==
  ASSUME StoreInv, NEW t \in Threads, Moves(t), NEW k \in SettingKeys, NEW v, Sets(k, v),
         Works(t, k), k \in ReclaimKeys => locks["reclaim"] = t
  PROVE  /\ LeavesOthers(t)
         /\ \A j \in SettingKeys \ {k} : Shown(j)' = Shown(j) /\ Agrees(j)' = Agrees(j)
<1>1. \A j \in SettingKeys \ {k} : Shown(j)' = Shown(j) /\ Agrees(j)' = Agrees(j)
  BY Unmoved DEF Moves, Sets
<1>2. LeavesOthers(t)
  BY SettingsAre DEF LeavesOthers, Moves, Sets, Only
<1> QED
  BY <1>1, <1>2

LEMMA OneSaved ==
  ASSUME NEW t, NEW k, NEW v, my'[t].pending = <<<<k, v>>>>
  PROVE  /\ \A j : IsSaving(t, j)' <=> j = k
         /\ \A n \in 1 .. Len(my'[t].pending) : my'[t].pending[n][2] = v
<1> DEFINE x == <<k, v>>
<1>1. x[1] = k /\ x[2] = v
  OBVIOUS
<1> HIDE DEF x
<1>2. my'[t].pending = <<x>>
  BY DEF x
<1>3. Len(my'[t].pending) = 1 /\ my'[t].pending[1] = x
  BY <1>2
<1> QED
  BY <1>1, <1>3 DEF IsSaving

LEMMA TwoSaved ==
  ASSUME NEW t, NEW k, NEW l, NEW v, my'[t].pending = <<<<k, v>>, <<l, v>>>>
  PROVE  /\ \A j : IsSaving(t, j)' <=> j \in {k, l}
         /\ \A n \in 1 .. Len(my'[t].pending) : my'[t].pending[n][2] = v
<1> DEFINE x == <<k, v>>
           y == <<l, v>>
<1>1. x[1] = k /\ x[2] = v /\ y[1] = l /\ y[2] = v
  OBVIOUS
<1> HIDE DEF x, y
<1>2. my'[t].pending = <<x, y>>
  BY DEF x, y
<1>3. Len(my'[t].pending) = 2 /\ my'[t].pending[1] = x /\ my'[t].pending[2] = y
  BY <1>2
<1> QED
  BY <1>1, <1>3 DEF IsSaving

LEMMA ThenSaveIs ==
  ASSUME TypeOK, NEW t \in Threads, NEW q, NEW r, ThenSave(t, q, r)
  PROVE  /\ pc'[t] = "save" /\ my'[t].cmd = my[t].cmd /\ my'[t].pending = q
         /\ my'[t].ret = r
BY DEF TypeOK, ThenSave, Goto, Locals

(* A setting goes to the SDK, and what it was set to will be saved.         *)
LEMMA SetsAndSaves ==
  ASSUME StoreInv, SettingsInv, NEW t \in Threads, Within(t),
         NEW k \in SettingKeys, NEW v \in Nat \ {0}, Sets(k, v), ThenSave(t, <<<<k, v>>>>, "idle"),
         Works(t, k), k \in ReclaimKeys => locks["reclaim"] = t,
         pc[t] \notin {"idle", "speedup", "graphics"}, my[t].pending = <<>>
  PROVE  SettingsInv'
<1>1. pc'[t] = "save" /\ my'[t].cmd = my[t].cmd /\ my'[t].pending = <<<<k, v>>>>
  BY ThenSaveIs DEF StoreInv
<1>2. LeavesOthers(t) /\ \A j \in SettingKeys \ {k} : Agrees(j)' = Agrees(j)
  BY SetsLeaves DEF Within
<1>3. \A j \in SettingKeys : ~IsSaving(t, j)
  BY DEF IsSaving
<1>4. \A j \in SettingKeys : IsSaving(t, j)' => Works(t, j)
  BY <1>1, OneSaved
<1>5. CommandOn(t, k)'
  BY <1>1, OneSaved DEF CommandOn, Sets
<1>6. ASSUME NEW j \in SettingKeys \ {k}, CommandOn(t, j) PROVE CommandOn(t, j)'
  BY <1>1, <1>2, <1>3, <1>6, OneSaved DEF CommandOn, Within, Moves
<1> QED
  BY <1>1, <1>2, <1>4, <1>5, <1>6, CommandKept DEF Within, Moves, Snapped

LEMMA PushIs ==
  ASSUME TypeOK, NEW t \in Threads
  PROVE  /\ \A k \in SettingKeys : \A v : Push(k, v) => Sets(k, v)
         /\ Snapped(t) /\ pc[t] = "push" /\ PushReclaim(t)
              => Sets(Own(t), Given(t))
<1>1. \A k \in SettingKeys : \A v : Push(k, v) => Sets(k, v)
  BY DEF Push, Sets, TypeOK, Apis
<1>2. ASSUME Snapped(t), pc[t] = "push", PushReclaim(t)
      PROVE  Sets(Own(t), Given(t))
  <2>1. api'.settings = [k \in SettingKeys |-> IF k \in ReclaimKeys THEN my[t].snap[k]
                                               ELSE api.settings[k]]
    BY <1>2 DEF PushReclaim, TypeOK, Apis
  <2>2. ReclaimKeys \subseteq SettingKeys
    BY SettingsAre
  <2> HIDE DEF Own, Given
  <2> QED
    BY <1>2, <2>1, <2>2 DEF Sets, Snapped
<1> QED
  BY <1>1, <1>2

LEMMA SettingStepKept ==
  ASSUME StoreInv, StoreInv', SettingsInv, NEW t \in Threads, SettingStep(t)
  PROVE  SettingsInv'
<1>0. TypeOK /\ Placed(t) /\ Fetched /\ Snapped(t)
  BY DEF StoreInv, InCommand, SettingsInv, Snapped, Fetched
<1>1. Within(t) /\ my[t].pending = <<>> /\ pc[t] # "idle"
      /\ \A k \in SettingKeys : ~IsSaving(t, k)
  BY WithinIs DEF IsSaving
<1>p. my \in [Threads -> Locals] /\ pc \in [Threads -> Labels]
  BY <1>0 DEF TypeOK
<1>w. \A k : Works(t, k) <=> k \in Touches(my[t].cmd)
  BY <1>1 DEF Works
<1>s. UNCHANGED api => Steady(t)
  BY <1>1 DEF Within, Moves, Steady
<1>k. /\ "conns" \in SettingKeys \ ReclaimKeys /\ "nodes" \in SettingKeys \ ReclaimKeys
      /\ "permissions" \in SettingKeys \ ReclaimKeys /\ "graphics" \in SettingKeys \ ReclaimKeys
      /\ "speedup" \in SettingKeys \ ReclaimKeys /\ "speeddown" \in SettingKeys \ ReclaimKeys
      /\ ReclaimKeys = {"age", "target"} /\ ReclaimKeys \subseteq SettingKeys
      /\ "none" \notin SettingKeys
  BY KeysAre DEF ReclaimKeys
<1>f. ASSUME Finish(t), UNCHANGED api, pc[t] \notin {"graphics", "speedup"} PROVE SettingsInv'
  BY <1>1, <1>s, <1>f, FinishKept DEF Within, Moves
<1>2. CASE Configure(t)
  <2>1. /\ pc[t] = "start" /\ my[t].cmd.op = "configure"
        /\ Val(t) \in Nat \ {0} /\ Key(t) \in {"age", "target", "nodes"}
    BY <1>1, <1>2, CommandIs DEF Configure, AtOp, At
  <2>2. Works(t, Key(t))
    BY <1>w, <2>1 DEF Touches, Sessions, Key
  <2>3. CASE Finish(t) /\ UNCHANGED api
    BY <1>f, <2>1, <2>3
  <2>4. CASE Key(t) \in ReclaimKeys /\ FetchReclaim(t, Key(t), Val(t), "push") /\ UNCHANGED api
    <3>1. /\ pc'[t] = "push" /\ my'[t].cmd = my[t].cmd /\ my'[t].pending = <<>>
          /\ my'[t].snap = [k \in ReclaimKeys |-> IF k = Key(t) THEN Val(t) ELSE api.settings[k]]
          /\ locks'["reclaim"] = t
      BY <1>0, <1>1, <1>p, <2>4 DEF FetchReclaim, Goto, Acquire, TypeOK, Locals, Mutexes
    <3>2. Snapped(t)' /\ \A k \in SettingKeys : ~IsSaving(t, k)'
      BY <2>1, <2>4, <3>1 DEF Snapped, Own, Given, Key, Val, IsSaving
    <3>3. Steady(t) /\ LeavesOthers(t) /\ \A k : Agrees(k)' = Agrees(k)
      BY <1>s, <2>4, SteadyLeaves
    <3>4. \A k \in SettingKeys \ unsettled : Works(t, k) /\ CommandOn(t, k) => CommandOn(t, k)'
      BY <1>1, <2>1, <3>1, <3>2, <3>3 DEF CommandOn, Within, Moves
    <3> QED
      BY <1>1, <3>1, <3>2, <3>3, <3>4, CommandKept DEF Within, Moves
  <2>5. CASE Push(Key(t), Val(t)) /\ ThenSave(t, <<<<Key(t), Val(t)>>>>, "idle")
             /\ Key(t) \notin ReclaimKeys
    <3>1. Key(t) \in SettingKeys
      BY <1>k, <2>1
    <3> HIDE DEF Key, Val
    <3> QED
      BY <1>0, <1>1, <2>1, <2>2, <2>5, <3>1, PushIs, SetsAndSaves
  <2> QED
    BY <1>2, <2>3, <2>4, <2>5 DEF Configure
<1>3. CASE ConfigurePush(t)
  <2>1. /\ pc[t] = "push" /\ my[t].cmd.op = "configure" /\ Val(t) \in Nat \ {0}
        /\ Key(t) \in {"age", "target", "nodes"}
    BY <1>1, <1>3, CommandIs DEF ConfigurePush, AtOp, At
  <2>2. CASE Finish(t) /\ UNCHANGED api
    BY <1>f, <2>1, <2>2
  <2>3. CASE PushReclaim(t) /\ ThenSave(t, <<<<Key(t), Val(t)>>>>, "idle")
    <3>1. Own(t) = Key(t) /\ Given(t) = Val(t) /\ locks["reclaim"] = t
      BY <1>0, <2>1 DEF Own, Given, Snapped
    <3>2. Sets(Key(t), Val(t)) /\ Key(t) \in ReclaimKeys
      BY <1>0, <2>1, <2>3, <3>1, PushIs DEF Snapped
    <3>3. Works(t, Key(t)) /\ Key(t) \in SettingKeys
      BY <1>k, <1>w, <2>1, <3>2 DEF Touches, Sessions, Key
    <3> HIDE DEF Key, Val
    <3> QED
      BY <1>1, <2>1, <2>3, <3>1, <3>2, <3>3, SetsAndSaves
  <2> QED
    BY <1>3, <2>2, <2>3 DEF ConfigurePush
<1>4. CASE Speedlimit(t)
  <2>1. /\ pc[t] = "start" /\ my[t].cmd.op = "speedlimit" /\ Val(t) \in Nat \ {0}
        /\ Key(t) \in {"both", "speedup", "speeddown", "conns"}
    BY <1>1, <1>4, CommandIs DEF Speedlimit, AtOp, At
  <2>2. /\ Works(t, "speeddown") /\ Works(t, Key(t))
        /\ \A k \in SettingKeys : Works(t, k) => k \in {"speedup", "speeddown", Key(t)}
    BY <1>w, <2>1 DEF Touches, Sessions, Key
  <2>3. CASE Finish(t) /\ UNCHANGED api
    BY <1>f, <2>1, <2>3
  <2>4. CASE Key(t) # "both" /\ Push(Key(t), Val(t)) /\ ThenSave(t, <<<<Key(t), Val(t)>>>>, "idle")
    <3>1. Key(t) \in SettingKeys \ ReclaimKeys
      BY <1>k, <2>1, <2>4
    <3> HIDE DEF Key, Val
    <3> QED
      BY <1>0, <1>1, <2>1, <2>2, <2>4, <3>1, PushIs, SetsAndSaves
  <2>5. CASE Key(t) = "both" /\ Push("speeddown", Val(t)) /\ Goto(t, "speedup") /\ UNCHANGED my
    <3>1. Sets("speeddown", Val(t)) /\ pc'[t] = "speedup" /\ my'[t] = my[t]
      BY <1>0, <1>k, <1>p, <2>5, PushIs DEF Goto
    <3>2. LeavesOthers(t) /\ \A j \in SettingKeys \ {"speeddown"} : Agrees(j)' = Agrees(j)
      BY <1>1, <1>k, <2>2, <3>1, SetsLeaves DEF Within
    <3>3. Snapped(t)' /\ \A j \in SettingKeys : ~IsSaving(t, j)'
      BY <1>1, <3>1 DEF Snapped, IsSaving
    <3>4. Val(t)' = Val(t) /\ loggedIn' = loggedIn
      BY <1>1, <3>1 DEF Val, Within, Moves
    <3>5. ASSUME NEW j \in SettingKeys \ unsettled, CommandOn(t, j) PROVE CommandOn(t, j)'
      BY <1>1, <2>1, <3>1, <3>2, <3>3, <3>4, <3>5 DEF CommandOn, Sets
    <3> QED
      BY <1>1, <3>1, <3>2, <3>3, <3>5, CommandKept DEF Within, Moves
  <2> QED
    BY <1>4, <2>3, <2>4, <2>5 DEF Speedlimit
<1>5. CASE SpeedlimitUp(t)
  <2>1. pc[t] = "speedup" /\ my[t].cmd.op = "speedlimit" /\ Val(t) \in Nat \ {0}
    BY <1>0, <1>1, <1>5, CommandIs DEF SpeedlimitUp, At, Placed, Reaches
  <2>2. Works(t, "speedup") /\ Works(t, "speeddown")
    BY <1>w, <2>1 DEF Touches, Sessions
  <2>3. /\ Sets("speedup", Val(t)) /\ pc'[t] = "save" /\ my'[t].cmd = my[t].cmd
        /\ my'[t].pending = <<<<"speedup", Val(t)>>, <<"speeddown", Val(t)>>>>
    BY <1>0, <1>5, <1>k, PushIs, ThenSaveIs DEF SpeedlimitUp
  <2>4. LeavesOthers(t) /\ \A j \in SettingKeys \ {"speedup"} : Agrees(j)' = Agrees(j)
    BY <1>1, <1>k, <2>2, <2>3, SetsLeaves DEF Within
  <2>5. /\ \A j \in SettingKeys : IsSaving(t, j)' <=> j \in {"speedup", "speeddown"}
        /\ \A n \in 1 .. Len(my'[t].pending) : my'[t].pending[n][2] = Val(t)
    BY <2>3, TwoSaved
  <2>6. ASSUME NEW j \in SettingKeys \ unsettled, CommandOn(t, j) PROVE CommandOn(t, j)'
    <3>1. j = "speeddown" => api'.settings[j] = Val(t)
      BY <1>1, <2>1, <2>3, <2>6 DEF CommandOn, Sets
    <3>2. j \in {"speedup", "speeddown"} => api'.settings[j] = Val(t)
      BY <2>3, <3>1 DEF Sets
    <3>3. j \notin {"speedup", "speeddown"} => (loggedIn' => Agrees(j)')
      BY <1>1, <2>1, <2>4, <2>6 DEF CommandOn, Within, Moves
    <3> QED
      BY <2>1, <2>3, <2>5, <3>2, <3>3 DEF CommandOn
  <2> QED
    BY <1>1, <2>2, <2>3, <2>4, <2>5, <2>6, CommandKept DEF Within, Moves, Snapped
<1>g. ASSUME my[t].cmd.op = "graphics"
      PROVE  \A k \in SettingKeys : Works(t, k) <=> k = "graphics"
  <2>1. my[t].cmd \in Commands /\ Key(t) = "graphics"
    BY <1>1, <1>g, CommandIs
  <2>2. \A c \in Commands : c.op = "graphics" => c.path = "none"
    BY DEF Commands, Sessions, Locating, Copying
  <2> QED
    BY <1>g, <1>k, <1>w, <2>1, <2>2 DEF Touches, Sessions, Key
<1>6. CASE Graphics(t)
  <2>1. /\ pc[t] = "start" /\ my[t].cmd.op = "graphics" /\ Val(t) \in Nat \ {0}
        /\ Key(t) = "graphics" /\ Goto(t, "graphics") /\ UNCHANGED my /\ Push("graphics", Val(t))
    BY <1>1, <1>6, CommandIs DEF Graphics, AtOp, At
  <2>3. \A k \in SettingKeys : Works(t, k) <=> k = "graphics"
    BY <1>g, <2>1
  <2>4. Sets("graphics", Val(t)) /\ pc'[t] = "graphics" /\ my'[t] = my[t]
    BY <1>0, <1>k, <1>p, <2>1, PushIs DEF Goto, Labels
  <2>5. LeavesOthers(t)
    BY <1>1, <1>k, <2>3, <2>4, SetsLeaves DEF Within
  <2>6. Snapped(t)' /\ \A j \in SettingKeys : ~IsSaving(t, j)'
    BY <1>1, <2>4 DEF Snapped, IsSaving
  <2>7. CommandOn(t, "graphics")'
    BY <1>k, <2>4, <2>6 DEF CommandOn, Sets, Val
  <2> QED
    BY <1>1, <2>3, <2>4, <2>5, <2>6, <2>7, CommandKept DEF Within, Moves
<1>7. CASE GraphicsSave(t)
  <2>1. /\ pc[t] = "graphics" /\ my[t].cmd.op = "graphics" /\ Val(t) \in Nat \ {0}
        /\ Key(t) = "graphics"
    BY <1>0, <1>1, <1>7, CommandIs DEF GraphicsSave, At, Placed, Reaches
  <2>2. /\ pc'[t] = "save" /\ my'[t].cmd = my[t].cmd /\ UNCHANGED api
        /\ my'[t].pending = <<<<"graphics", api.settings["graphics"]>>>>
    BY <1>0, <1>7, ThenSaveIs DEF GraphicsSave
  <2>3. Steady(t) /\ LeavesOthers(t) /\ \A k : Agrees(k)' = Agrees(k)
    BY <1>s, <2>2, SteadyLeaves
  <2>4. \A k \in SettingKeys : Works(t, k) <=> k = "graphics"
    BY <1>g, <2>1
  <2>5. /\ \A j : IsSaving(t, j)' <=> j = "graphics"
        /\ \A n \in 1 .. Len(my'[t].pending) : my'[t].pending[n][2] = api.settings["graphics"]
    BY <2>2, OneSaved
  <2>6. CommandOn(t, "graphics") => CommandOn(t, "graphics")'
    BY <1>1, <1>k, <2>1, <2>2, <2>5 DEF CommandOn
  <2> QED
    BY <1>1, <2>1, <2>2, <2>3, <2>4, <2>5, <2>6, CommandKept DEF Within, Moves, Snapped
<1>8. CASE Permissions(t)
  <2>1. /\ pc[t] = "start" /\ my[t].cmd.op = "permissions" /\ Val(t) \in Nat \ {0}
        /\ Key(t) = "permissions"
    BY <1>1, <1>8, CommandIs DEF Permissions, AtOp, At
  <2>2. Works(t, "permissions")
    BY <1>w, <2>1 DEF Touches, Sessions, Key
  <2>3. Sets("permissions", Val(t)) /\ ThenSave(t, <<<<"permissions", Val(t)>>>>, "idle")
    BY <1>0, <1>8, <1>k, PushIs DEF Permissions
  <2> QED
    BY <1>1, <1>k, <2>1, <2>2, <2>3, SetsAndSaves
<1>9. CASE setProxy(t) \/ UpdateAuto(t)
  <2>1. pc[t] = "start" /\ api'.settings = api.settings
    BY <1>0, <1>9 DEF setProxy, UpdateAuto, AtOp, At, TypeOK, Apis
  <2>2. Steady(t)
    BY <1>1, <2>1 DEF Within, Moves, Steady
  <2>3. CASE Finish(t)
    BY <1>1, <2>1, <2>2, <2>3, FinishKept DEF Within, Moves
  <2>4. CASE ThenSave(t, <<<<"proxy_url", Val(t)>>, <<"proxy_username", Val(t)>>>>, "idle")
    <3>1. /\ pc'[t] = "save" /\ my'[t].cmd = my[t].cmd
          /\ my'[t].pending = <<<<"proxy_url", Val(t)>>, <<"proxy_username", Val(t)>>>>
      BY <1>0, <2>4, ThenSaveIs
    <3>2. \A k \in SettingKeys : ~IsSaving(t, k)'
      BY <3>1, TwoSaved, KeysAre
    <3> QED
      BY <1>1, <2>1, <2>2, <3>1, <3>2, MoveKept DEF Within, Moves
  <2>5. CASE ThenSave(t, <<<<"autoupdate", Val(t)>>>>, "idle")
    <3>1. /\ pc'[t] = "save" /\ my'[t].cmd = my[t].cmd
          /\ my'[t].pending = <<<<"autoupdate", Val(t)>>>>
      BY <1>0, <2>5, ThenSaveIs
    <3>2. \A k \in SettingKeys : ~IsSaving(t, k)'
      BY <3>1, OneSaved, KeysAre
    <3> QED
      BY <1>1, <2>1, <2>2, <3>1, <3>2, MoveKept DEF Within, Moves
  <2> QED
    BY <1>9, <2>3, <2>4, <2>5 DEF setProxy, UpdateAuto
<1> QED
  BY <1>2, <1>3, <1>4, <1>5, <1>6, <1>7, <1>8, <1>9 DEF SettingStep

LEMMA LoginStepIs ==
  ASSUME StoreInv, StoreInv', SettingsInv, NEW t \in Threads, LoginStep(t), ~unloadConfiguration(t)
  PROVE  /\ my[t].cmd.op = "login" /\ my[t].cmd.op \in Sessions
         /\ Only(t) /\ up /\ up' /\ Stored' = Stored /\ my[t].pending = <<>>
         /\ pc[t] \notin {"idle", "save", "writing"} /\ my[t].i \in 0 .. 8
         /\ \A u \in Threads \ {t} : locks["reclaim"] = u => locks'["reclaim"] = u
<1>0. TypeOK /\ Placed(t) /\ Fetched
  BY DEF StoreInv, InCommand, SettingsInv
<1> USE DEF LoginStep, loadsyncs, loadbackups, transitionLegacyExclusionRules, AddFilters,
        HideLegacyFile, ApplyRead, ApplySet, ApplyPush, migrateSyncConfig, MigrateAnswer,
        ResumeBackups, ResumeBackup, RestartWebdav, RestartFtp, At, AtOp
<1>1. Only(t) /\ Quiet(t) /\ Stored' = Stored
  BY LoginQuiet, StoredQuiet
<1>2. pc[t] \in LoginLabels \/ (pc[t] \in {"start", "push"} /\ my[t].cmd.op = "login")
  BY DEF LoginLabels
<1>3. /\ my[t].cmd.op = "login" /\ my[t].cmd.op \in Sessions /\ my[t].pending = <<>>
      /\ pc[t] \notin {"idle", "save", "writing"} /\ my[t].i \in 0 .. 8
  BY <1>0, <1>2, FieldsTyped DEF Placed, Reaches, LoginLabels, Sessions
<1>4. up /\ up'
  BY <1>1 DEF Quiet
<1>m. ASSUME MigrateAnswer(t) PROVE UNCHANGED locks
  <2>1. PICK entry \in my[t].sent : removeSyncConfig(t, entry) \/ UNCHANGED locks
    BY <1>m DEF MigrateAnswer
  <2>2. Goto(t, "writing") => pc'[t] = "writing"
    BY <1>0 DEF Goto, TypeOK
  <2> QED
    BY <1>1, <2>1, <2>2 DEF Quiet, removeSyncConfig
<1>l. ASSUME loadsyncs(t) PROVE \A u \in Threads \ {t} : locks["reclaim"] = u => locks'["reclaim"] = u
  BY <1>l, LoadSyncsTyped DEF Mutexes
<1>5. loadsyncs(t) \/ UNCHANGED locks \/ Acquire(t, "reclaim") \/ Acquire(t, "backups")
      \/ (Release("reclaim") /\ pc[t] = "push")
  <2> HIDE DEF loadsyncs
  <2> QED
    BY <1>m DEF FetchReclaim, PushReclaim
<1>6. \A u \in Threads \ {t} : locks["reclaim"] = u => locks'["reclaim"] = u
  <2> HIDE DEF LoginStep, loadsyncs
  <2> QED
    BY <1>0, <1>l, <1>5, MutexKept DEF Mutexes
<1> QED
  BY <1>1, <1>3, <1>4, <1>6

(* A step that restores a setting, or comes to the next. *)
LEMMA RestoreKept ==
  ASSUME StoreInv, SettingsInv, NEW t \in Threads, LeavesOthers(t), Snapped(t)',
         my[t].cmd.op = "login", my'[t].cmd = my[t].cmd, my'[t].pending = <<>>,
         pc[t] # "idle", pc'[t] \in {"apply", "set", "push"},
         \A k \in SettingKeys \ unsettled' : LoginOn(t, k) => LoginOn(t, k)'
  PROVE  SettingsInv'
<1>1. \A k \in SettingKeys : ~IsSaving(t, k)' /\ Works(t, k)' = Works(t, k)
  BY DEF IsSaving, Works
<1>2. ASSUME NEW k \in SettingKeys \ unsettled', Works(t, k) PROVE WorksOn(t, k)'
  <2>1. LoginOn(t, k)
    BY <1>2 DEF SettingsInv, WorksOn, LeavesOthers
  <2> QED
    BY <2>1 DEF WorksOn, Sessions
<1>3. KeepsOwn(t)
  BY <1>1, <1>2 DEF KeepsOwn, AfterSettings
<1> QED
  BY <1>3, SettingsKept

LEMMA LoginStepKept ==
  ASSUME StoreInv, StoreInv', SettingsInv, NEW t \in Threads, LoginStep(t)
  PROVE  SettingsInv'
<1>0. TypeOK /\ Placed(t) /\ Snapped(t) /\ my \in [Threads -> Locals] /\ pc \in [Threads -> Labels]
  BY DEF StoreInv, InCommand, TypeOK, SettingsInv, Snapped, Fetched
<1>1. CASE unloadConfiguration(t)
  <2>1. /\ pc[t] = "start" /\ my[t].cmd.op \in {"logout", "logout-keep"} /\ my[t].cmd.op \in Sessions
        /\ up /\ UNCHANGED <<up, my, locks, unsettled>> /\ ~loggedIn' /\ api'.settings = api.settings
        /\ \E l \in {"logoutBackups", "clear"} : Goto(t, l)
    BY <1>0, <1>1 DEF unloadConfiguration, At, Sessions, TypeOK, Apis
  <2>2. pc'[t] \in {"logoutBackups", "clear"} /\ my'[t] = my[t] /\ my[t].pending = <<>>
    BY <1>0, <2>1 DEF Goto, Placed
  <2>3. Only(t) /\ Stored' = Stored
    BY LoginQuiet, StoredQuiet
  <2>4. LeavesOthers(t)
    BY <2>1, <2>3 DEF LeavesOthers, Only
  <2>5. \A k \in SettingKeys : ~IsSaving(t, k)' /\ Works(t, k) /\ WorksOn(t, k)'
    BY <2>1, <2>2, SessionsWork DEF IsSaving, WorksOn
  <2>6. KeepsOwn(t)
    BY <2>1, <2>2, <2>5 DEF KeepsOwn, Snapped, AfterSettings
  <2> QED
    BY <2>4, <2>6, SettingsKept
<1> SUFFICES ASSUME ~unloadConfiguration(t) PROVE SettingsInv'
  BY <1>1
<1>2. /\ my[t].cmd.op = "login" /\ my[t].cmd.op \in Sessions
      /\ Only(t) /\ up /\ up' /\ Stored' = Stored /\ my[t].pending = <<>>
      /\ pc[t] \notin {"idle", "save", "writing"} /\ my[t].i \in 0 .. 8
      /\ \A u \in Threads \ {t} : locks["reclaim"] = u => locks'["reclaim"] = u
  BY LoginStepIs
<1>3. \A k \in SettingKeys : Works(t, k)
  BY <1>2, SessionsWork
<1>m. ASSUME UNCHANGED loggedIn, unsettled \subseteq unsettled', api'.settings = api.settings,
             my'[t].cmd = my[t].cmd, my'[t].pending = my[t].pending, my'[t].i = my[t].i,
             pc[t] \notin {"set", "push"}, pc'[t] \notin {"idle", "set", "push", "writing"},
             AfterSettings(t)' => AfterSettings(t) \/ my[t].i = 8
      PROVE  SettingsInv'
  BY <1>2, <1>m, LoginMoveKept DEF Steady
<1>4. CASE \/ loadsyncs(t) /\ pc'[t] # "writing"
           \/ loadbackups(t)
           \/ transitionLegacyExclusionRules(t) \/ AddFilters(t) \/ HideLegacyFile(t)
  <2>1. CASE loadsyncs(t) /\ pc'[t] # "writing"
    <3>1. /\ UNCHANGED <<api, loggedIn, unsettled>> /\ Rest(my'[t], my[t])
          /\ my'[t].pending = <<>> /\ pc'[t] = "loadBackups"
      BY <2>1, LoadSyncsTyped
    <3>2. pc[t] = "start"
      BY <2>1 DEF loadsyncs, At, AtOp
    <3> QED
      BY <1>2, <1>m, <3>1, <3>2 DEF AfterSettings, Rest
  <2>2. CASE \/ loadbackups(t) \/ transitionLegacyExclusionRules(t)
             \/ AddFilters(t) \/ HideLegacyFile(t)
    <3>1. /\ UNCHANGED <<my, api, loggedIn>> /\ unsettled \subseteq unsettled'
          /\ pc[t] \in {"loadBackups", "transition", "addFilters", "hide"}
          /\ \E l \in {"transition", "apply", "addFilters", "hide"} : Goto(t, l)
      BY <2>2 DEF loadbackups, transitionLegacyExclusionRules, AddFilters, HideLegacyFile, At
    <3>2. pc'[t] \in {"transition", "apply", "addFilters", "hide"}
      BY <1>0, <3>1 DEF Goto
    <3> QED
      BY <1>m, <3>1, <3>2 DEF AfterSettings
  <2> QED
    BY <1>4, <2>1, <2>2
<1>5. CASE ApplyRead(t)
  <2>1. pc[t] = "apply" /\ UNCHANGED <<api, loggedIn>> /\ locks["settings"] = Free
    BY <1>5 DEF ApplyRead, At
  <2>2. CASE my[t].i = 8
    <3>1. UNCHANGED <<my, unsettled>> /\ pc'[t] = "migrate"
      BY <1>0, <1>5, <2>2, ApplyOrderIs DEF ApplyRead, Goto
    <3> QED
      BY <1>m, <2>1, <2>2, <3>1
  <2>3. CASE my[t].i # 8
    <3> DEFINE i == my[t].i + 1
               whole == Restored(ApplyOrder[i])
    <3>1. PICK value \in Perhaps(whole, {Default[ApplyOrder[i]]}) :
             /\ my' = [my EXCEPT ![t].i = i, ![t].val = value]
             /\ Goto(t, IF value = 0 THEN "apply" ELSE "set")
             /\ unsettled' = IF value = whole THEN unsettled ELSE unsettled \cup {ApplyOrder[i]}
      BY <1>5, <2>3, ApplyOrderIs DEF ApplyRead
    <3>2. /\ value = Shown(ApplyOrder[i]) \/ ApplyOrder[i] \in unsettled'
          /\ value \in Nat /\ i \in 1 .. 8
      <4>1. Stored = disk.cfg
        BY <2>1, StoredIs DEF StoreInv, Writers
      <4>2. i \in 1 .. 8 /\ ApplyOrder[i] \in SettingKeys
        BY <1>2, <2>3, ApplyOrderIs
      <4>3. whole = Shown(ApplyOrder[i]) /\ whole \in Nat /\ Default[ApplyOrder[i]] \in Nat
        BY <4>1, <4>2, SettingsTyped, SettingsAre DEF Restored, Shown
      <4>4. value \in {whole, Default[ApplyOrder[i]]}
        BY PerhapsIs
      <4> HIDE DEF whole, i
      <4> QED
        BY <3>1, <4>2, <4>3, <4>4
    <3>u. unsettled \subseteq unsettled'
      BY <3>1
    <3> HIDE DEF whole, i
    <3>3. /\ my'[t].cmd = my[t].cmd /\ my'[t].pending = my[t].pending
          /\ my'[t].i = i /\ my'[t].val = value
          /\ pc'[t] = IF value = 0 THEN "apply" ELSE "set"
      BY <1>0, <3>1 DEF Goto, Locals
    <3>4. Steady(t) /\ LeavesOthers(t) /\ \A k : Shown(k)' = Shown(k) /\ Agrees(k)' = Agrees(k)
      BY <1>2, <2>1, <3>u, SteadyLeaves DEF Steady
    <3>5. ASSUME NEW k \in SettingKeys \ unsettled', LoginOn(t, k) PROVE LoginOn(t, k)'
      <4>1. ASSUME NEW n \in 1 .. i, ApplyOrder[n] = k, ~(n = i /\ Restoring(t)') PROVE Agrees(k)'
        <5>1. CASE n = i
          BY <3>2, <3>3, <3>4, <3>5, <4>1, <5>1 DEF Agrees, Restoring
        <5>2. CASE n # i
          BY <1>2, <2>1, <3>2, <3>4, <3>5, <4>1, <5>2 DEF LoginOn, Restoring, i
        <5> QED
          BY <5>1, <5>2
      <4>2. k = ApplyOrder[i] => value = Shown(k)'
        BY <3>2, <3>4, <3>5
      <4> QED
        BY <3>3, <4>1, <4>2 DEF LoginOn
    <3> QED
      BY <1>2, <3>3, <3>4, <3>5, RestoreKept DEF Snapped
  <2> QED
    BY <2>2, <2>3
<1>6. ASSUME NEW v, v = my[t].val, Sets(ApplyOrder[my[t].i], v), Restoring(t), my[t].i # 0,
             ApplyOrder[my[t].i] \in ReclaimKeys => locks["reclaim"] = t,
             UNCHANGED <<my, loggedIn, unsettled>>, pc'[t] = "apply"
      PROVE  SettingsInv'
  <2> DEFINE i == my[t].i
             key == ApplyOrder[i]
  <2>1. i \in 1 .. 8 /\ key \in SettingKeys
    BY <1>2, <1>6, ApplyOrderIs
  <2>2. LeavesOthers(t) /\ \A j \in SettingKeys \ {key} : Shown(j)' = Shown(j) /\ Agrees(j)' = Agrees(j)
    BY <1>2, <1>3, <1>6, <2>1, SetsLeaves DEF Moves
  <2>3. ASSUME NEW k \in SettingKeys, LoginOn(t, k) PROVE LoginOn(t, k)'
    <3>1. CASE k = key
      <4>1. v = Shown(k) /\ Shown(k)' = Shown(k)
        BY <1>2, <1>6, <2>3, <3>1 DEF LoginOn, Shown
      <4>2. Agrees(k)'
        BY <1>6, <3>1, <4>1 DEF Agrees, Sets
      <4> QED
        BY <1>6, <4>2 DEF LoginOn, Restoring
    <3>2. CASE k # key
      BY <1>6, <2>2, <2>3, <3>2 DEF LoginOn, Restoring
    <3> QED
      BY <3>1, <3>2
  <2> QED
    BY <1>2, <1>6, <2>2, <2>3, RestoreKept DEF Snapped
<1>r. ASSUME unsettled' = unsettled \cup {ApplyOrder[my[t].i]}, Restoring(t), pc'[t] = "apply",
             UNCHANGED <<api, my, loggedIn>>
      PROVE  SettingsInv'
  <2>1. LeavesOthers(t) /\ \A k : Shown(k)' = Shown(k) /\ Agrees(k)' = Agrees(k)
    BY <1>2, <1>r, Unmoved DEF LeavesOthers, Only
  <2>2. \A k \in SettingKeys \ unsettled' : LoginOn(t, k) => LoginOn(t, k)'
    BY <1>r, <2>1 DEF LoginOn, Restoring
  <2> QED
    BY <1>2, <1>r, <2>1, <2>2, RestoreKept DEF Snapped
<1>7. CASE ApplySet(t)
  <2> DEFINE key == ApplyOrder[my[t].i]
  <2>1. /\ pc[t] = "set" /\ UNCHANGED loggedIn /\ my[t].i # 0 /\ my[t].i \in 1 .. 8
        /\ key \in SettingKeys
    BY <1>0, <1>2, <1>7, ApplyOrderIs DEF ApplySet, At, Placed
  <2>2. CASE key \notin ReclaimKeys /\ Push(key, my[t].val) /\ Goto(t, "apply")
             /\ UNCHANGED <<my, unsettled>>
    <3>1. Push(key, my[t].val) /\ pc'[t] = "apply" /\ UNCHANGED <<my, unsettled>>
      BY <1>0, <2>2 DEF Goto
    <3>2. Sets(key, my[t].val)
      BY <1>0, <2>1, <3>1, PushIs
    <3> QED
      BY <1>6, <2>1, <2>2, <3>1, <3>2 DEF Restoring
  <2>3. CASE key \in ReclaimKeys /\ FetchReclaim(t, key, my[t].val, "push")
             /\ UNCHANGED <<api, unsettled>>
    <3>1. FetchReclaim(t, key, my[t].val, "push") /\ UNCHANGED api
      BY <2>3
    <3>2. /\ pc'[t] = "push" /\ my'[t].cmd = my[t].cmd /\ my'[t].pending = <<>>
          /\ my'[t].snap = [k \in ReclaimKeys |-> IF k = key THEN my[t].val ELSE api.settings[k]]
          /\ my'[t].i = my[t].i /\ my'[t].val = my[t].val /\ locks'["reclaim"] = t
      BY <1>0, <1>2, <3>1 DEF FetchReclaim, Goto, Acquire, TypeOK, Locals, Mutexes
    <3>3. Snapped(t)'
      BY <1>2, <2>3, <3>1, <3>2 DEF Snapped, Own, Given
    <3>4. Steady(t) /\ LeavesOthers(t) /\ \A k : Shown(k)' = Shown(k) /\ Agrees(k)' = Agrees(k)
      BY <1>2, <2>1, <2>3, <3>1, SteadyLeaves DEF Steady
    <3>5. \A k \in SettingKeys : LoginOn(t, k) => LoginOn(t, k)'
      BY <2>1, <3>2, <3>4 DEF LoginOn, Restoring
    <3> QED
      BY <1>2, <3>2, <3>3, <3>4, <3>5, RestoreKept
  <2>4. CASE Goto(t, "apply") /\ unsettled' = unsettled \cup {key} /\ UNCHANGED <<my, api>>
    <3>1. pc'[t] = "apply"
      BY <1>0, <2>4 DEF Goto
    <3> QED
      BY <1>r, <2>1, <2>4, <3>1 DEF Restoring
  <2> QED
    BY <1>7, <2>2, <2>3, <2>4 DEF ApplySet
<1>8. CASE ApplyPush(t)
  <2>1. /\ pc[t] = "push" /\ UNCHANGED <<my, loggedIn>> /\ pc'[t] = "apply" /\ my[t].i # 0
        /\ Own(t) = ApplyOrder[my[t].i] /\ Given(t) = my[t].val /\ locks["reclaim"] = t
    BY <1>0, <1>2, <1>8 DEF ApplyPush, AtOp, At, Goto, Placed, Own, Given, Snapped
  <2>2. CASE PushReclaim(t) /\ UNCHANGED unsettled
    <3>1. Sets(Own(t), Given(t))
      BY <1>0, <2>1, <2>2, PushIs
    <3> QED
      BY <1>6, <2>1, <2>2, <3>1 DEF Restoring
  <2>3. CASE unsettled' = unsettled \cup {ApplyOrder[my[t].i]} /\ UNCHANGED api
    BY <1>r, <2>1, <2>3 DEF Restoring
  <2> QED
    BY <1>8, <2>2, <2>3 DEF ApplyPush
<1>9. CASE \/ migrateSyncConfig(t)
           \/ MigrateAnswer(t) /\ UNCHANGED pc
           \/ ResumeBackups(t) \/ ResumeBackup(t) \/ RestartWebdav(t)
  <2>1. /\ pc[t] \in {"migrate", "migrating", "resume", "webdav"} /\ UNCHANGED <<loggedIn, unsettled>>
        /\ api'.settings = api.settings
    BY <1>0, <1>9 DEF migrateSyncConfig, MigrateAnswer, ResumeBackups, ResumeBackup, RestartWebdav, At,
       RestartServer, TypeOK, Apis
  <2>2. my'[t].cmd = my[t].cmd /\ my'[t].pending = my[t].pending /\ my'[t].i = my[t].i
    <3>1. CASE migrateSyncConfig(t) \/ RestartWebdav(t)
      BY <1>0, <3>1 DEF migrateSyncConfig, RestartWebdav, Locals
    <3>2. CASE MigrateAnswer(t)
      <4>1. PICK entry \in my[t].sent :
               \/ my' = [my EXCEPT ![t].sent = @ \ {entry}, ![t].ret = "migrating"]
               \/ my' = [my EXCEPT ![t].sent = @ \ {entry}]
        BY <3>2 DEF MigrateAnswer, removeSyncConfig
      <4> QED
        BY <1>0, <4>1 DEF Locals
    <3>3. CASE ResumeBackups(t) \/ ResumeBackup(t)
      <4>1. UNCHANGED my \/ \E d : my' = [my EXCEPT ![t].list = d]
        BY <3>3 DEF ResumeBackups, ResumeBackup
      <4> QED
        BY <1>0, <4>1 DEF Locals
    <3> QED
      BY <1>9, <3>1, <3>2, <3>3
  <2>3. pc'[t] \in {"migrating", "unlockBackups", "resume", "saveBackups", "ftp"}
    <3>1. \/ UNCHANGED pc /\ pc[t] \in {"migrating", "resume"}
          \/ \E l \in {"migrating", "unlockBackups", "resume", "saveBackups", "ftp"} : Goto(t, l)
      BY <1>9 DEF migrateSyncConfig, MigrateAnswer, ResumeBackups, ResumeBackup, RestartWebdav, At
    <3> QED
      BY <1>0, <3>1 DEF Goto
  <2> QED
    BY <1>m, <2>1, <2>2, <2>3 DEF AfterSettings
<1>10. CASE RestartFtp(t)
  <2>1. /\ pc[t] = "ftp" /\ loggedIn' /\ Finish(t) /\ UNCHANGED unsettled
        /\ api'.settings = api.settings
    BY <1>0, <1>10 DEF RestartFtp, RestartServer, At, TypeOK, Apis
  <2>2. pc'[t] = "idle" /\ my'[t] = NoLocals
    BY <1>0, <2>1 DEF Finish, Goto
  <2>3. my[t].i = 8
    BY <1>2, <2>1, ApplyOrderIs DEF SettingsInv, WentThrough, AfterSettings
  <2>4. LeavesOthers(t) /\ \A k : Agrees(k)' = Agrees(k)
    BY <1>2, <2>1, Unmoved DEF LeavesOthers, Only
  <2>5. ASSUME NEW k \in SettingKeys \ unsettled PROVE Agrees(k)
    <3>1. LoginOn(t, k)
      BY <1>2, <1>3 DEF SettingsInv, WorksOn
    <3>2. PICK n \in 1 .. 8 : ApplyOrder[n] = k
      BY SettingsAre
    <3> QED
      BY <2>1, <2>3, <3>1, <3>2 DEF LoginOn, Restoring
  <2>6. \A k \in SettingKeys : ~IsSaving(t, k)' /\ ~Works(t, k)'
    BY <2>2 DEF IsSaving, NoLocals, Works
  <2>7. KeepsOwn(t)
    BY <2>1, <2>2, <2>4, <2>5, <2>6 DEF KeepsOwn, Snapped, AfterSettings
  <2> QED
    BY <2>4, <2>7, SettingsKept
<1> QED
  BY <1>4, <1>5, <1>7, <1>8, <1>9, <1>10 DEF LoginStep

LEMMA StartKept ==
  ASSUME StoreInv, StoreInv', SettingsInv, NEW t \in Threads, Start(t)
  PROVE  SettingsInv'
<1>0. TypeOK /\ Placed(t) /\ my \in [Threads -> Locals] /\ pc \in [Threads -> Labels]
  BY DEF StoreInv, InCommand, TypeOK
<1>1. Only(t) /\ Stored' = Stored /\ my'[t].cmd = Head(todo[t])
  BY StartQuiet, StoredQuiet
<1>2. /\ pc[t] = "idle" /\ pc'[t] = "start" /\ up /\ UNCHANGED <<up, api, loggedIn, locks>>
  BY <1>0 DEF Start, At, Goto
<1>3. my'[t].pending = <<>> /\ my'[t].i = 0
  BY <1>0, <1>2 DEF Start, Placed, Locals
<1>4. LeavesOthers(t)
  BY <1>1, <1>2 DEF LeavesOthers, Only, Start
<1>5. \A k \in SettingKeys : ~Works(t, k) /\ ~IsSaving(t, k)'
  BY <1>2, <1>3 DEF Works, IsSaving
<1>6. ASSUME NEW k \in SettingKeys \ unsettled', Works(t, k)' PROVE ~Busy(k)
  BY <1>1, <1>6 DEF Works, Busy, Start
<1>7. ASSUME NEW k \in SettingKeys \ unsettled', Works(t, k)' PROVE WorksOn(t, k)'
  <2>1. loggedIn => Agrees(k)
    BY <1>6, <1>7 DEF SettingsInv, Start
  <2>2. Agrees(k)' = Agrees(k)
    BY <1>1, <1>2, Unmoved
  <2>3. CommandOn(t, k)'
    BY <1>2, <1>5, <2>1, <2>2 DEF CommandOn
  <2>4. LoginOn(t, k)'
    BY <1>2, <1>3 DEF LoginOn, Restoring
  <2> QED
    BY <1>2, <2>3, <2>4 DEF WorksOn
<1>8. KeepsOwn(t)
  BY <1>2, <1>5, <1>6, <1>7 DEF KeepsOwn, Snapped, AfterSettings
<1> QED
  BY <1>4, <1>8, SettingsKept

LEMMA TailIs ==
  ASSUME NEW S, NEW q \in Seq(S), q # <<>>
  PROVE  /\ Head(q) = q[1] /\ Len(Tail(q)) = Len(q) - 1
         /\ \A n \in 1 .. Len(Tail(q)) : Tail(q)[n] = q[n + 1] /\ n + 1 \in 1 .. Len(q)
         /\ \A n \in 1 .. Len(q) : n = 1 \/ (n - 1 \in 1 .. Len(Tail(q)) /\ q[n] = Tail(q)[n - 1])
BY HeadTailProperties

(* One of the properties goes to the file, and the thread goes on; a setting *)
(* that is not what it should be then has been noted.                        *)
LEMMA EntrySaved ==
  ASSUME StoreInv, StoreInv', SettingsInv, NEW t \in Threads, Only(t), up, up',
         UNCHANGED <<api, loggedIn>>, unsettled \subseteq unsettled',
         locks'["reclaim"] = locks["reclaim"],
         pc[t] = "save", my[t].pending # <<>>, my[t].cmd.op \notin Sessions,
         \/ Stored'[Head(my[t].pending)[1]] = Head(my[t].pending)[2]
         \/ Head(my[t].pending)[1] \in unsettled',
         \A k \in SettingKeys \ {Head(my[t].pending)[1]} :
            Stored'[k] = Stored[k] \/ k \in unsettled',
         pc'[t] \notin {"push", "speedup", "graphics"},
         pc'[t] = "idle" => Tail(my[t].pending) = <<>> /\ my'[t] = NoLocals,
         pc'[t] # "idle" => /\ my'[t].cmd = my[t].cmd
                           /\ my'[t].pending = Tail(my[t].pending)
  PROVE  SettingsInv'
<1>0. TypeOK /\ my[t].pending \in Seq(Entries)
  BY FieldsTyped DEF StoreInv
<1> DEFINE q == my[t].pending
           key == Head(q)[1]
           v == Head(q)[2]
<1>1. my'[t].pending = Tail(q)
  <2>1. NoLocals.pending = <<>>
    BY DEF NoLocals
  <2> QED
    BY <2>1
<1>5. /\ Head(q) = q[1] /\ Len(Tail(q)) \in Nat /\ Len(q) \in Nat /\ 1 \in 1 .. Len(q)
      /\ \A n \in 1 .. Len(Tail(q)) : Tail(q)[n] = q[n + 1] /\ n + 1 \in 1 .. Len(q)
      /\ \A n \in 1 .. Len(q) : n = 1 \/ (n - 1 \in 1 .. Len(Tail(q)) /\ q[n] = Tail(q)[n - 1])
  <2>1. Tail(q) \in Seq(Entries) /\ Len(q) > 0
    BY <1>0, HeadTailProperties
  <2> QED
    BY <1>0, <2>1, TailIs
<1>7. \A k \in SettingKeys : IsSaving(t, k) <=> (k = key \/ IsSaving(t, k)')
  BY <1>1, <1>5 DEF IsSaving
<1>8. \A k \in SettingKeys : IsSaving(t, k) => Works(t, k)
  BY DEF SettingsInv, SavesOwn
<1>9. LeavesOthers(t)
  BY <1>7, <1>8 DEF LeavesOthers, Only
<1>11. ASSUME NEW k \in SettingKeys \ unsettled', CommandOn(t, k), ~IsSaving(t, k)', loggedIn
       PROVE  Agrees(k)'
  <2>1. CASE k = key
    <3>1. api.settings[k] # 0 /\ v = api.settings[k]
      BY <1>5, <1>7, <1>11, <2>1 DEF CommandOn
    <3>2. Stored'[k] = api.settings[k]
      BY <1>11, <2>1, <3>1
    <3> QED
      BY <3>1, <3>2 DEF Agrees, Shown
  <2>2. CASE k # key
    <3>1. Agrees(k)
      BY <1>7, <1>11, <2>2 DEF CommandOn
    <3>2. Agrees(k)' = Agrees(k)
      BY <1>11, <2>2, Unmoved
    <3> QED
      BY <3>1, <3>2
  <2> QED
    BY <2>1, <2>2
<1>12. CASE pc'[t] = "idle"
  <2>1. \A k \in SettingKeys : ~IsSaving(t, k)' /\ ~Works(t, k)'
    BY <1>12 DEF IsSaving, NoLocals, Works
  <2>2. ASSUME NEW k \in SettingKeys \ unsettled', Works(t, k), loggedIn' PROVE Agrees(k)'
    BY <1>11, <2>1, <2>2 DEF SettingsInv, WorksOn
  <2>3. my'[t].cmd.op # "login"
    BY <1>12 DEF NoLocals, NoCommand
  <2>4. KeepsOwn(t)
    BY <1>12, <2>1, <2>2, <2>3 DEF KeepsOwn, Snapped
  <2> QED
    BY <1>9, <2>4, SettingsKept
<1>13. CASE pc'[t] # "idle"
  <2>1. ASSUME NEW k \in SettingKeys \ unsettled', CommandOn(t, k) PROVE CommandOn(t, k)'
    <3>1. CASE IsSaving(t, k)'
      <4>1. /\ api.settings[k] # 0
            /\ \A n \in 1 .. Len(q) : q[n][1] = k => q[n][2] = api.settings[k]
        BY <1>7, <2>1, <3>1 DEF CommandOn
      <4>2. \A n \in 1 .. Len(Tail(q)) : Tail(q)[n][1] = k => Tail(q)[n][2] = api.settings[k]
        BY <1>5, <4>1
      <4> QED
        BY <1>1, <3>1, <4>1, <4>2 DEF CommandOn
    <3>2. CASE ~IsSaving(t, k)'
      BY <1>11, <2>1, <3>2 DEF CommandOn
    <3> QED
      BY <3>1, <3>2
  <2> HIDE DEF q, key, v
  <2> QED
    BY <1>7, <1>8, <1>9, <1>13, <2>1, CommandKept DEF Snapped
<1> QED
  BY <1>12, <1>13

LEMMA SavedKept ==
  ASSUME StoreInv, StoreInv', SettingsInv, NEW t \in Threads, Rewrites(t), saveProperty(t)
  PROVE  SettingsInv'
<1> DEFINE key == Head(my[t].pending)[1]
           v == Head(my[t].pending)[2]
<1>1. /\ Only(t) /\ Opens(t) /\ my'[t].cmd = my[t].cmd /\ disk'.writing = "cfg"
      /\ my'[t].pending = Tail(my[t].pending) /\ my'[t].buf[key] = v
      /\ \A k \in Keys \ {key} : my'[t].buf[k] = disk.cfg[k] \/ k \in unsettled'
      /\ UNCHANGED <<api, loggedIn>>
  BY RewritesTyped DEF Rest
<1>2. pc[t] = "save" /\ my[t].pending # <<>> /\ my[t].cmd.op \notin Sessions /\ up
  BY WritersAt DEF saveProperty, At
<1>3. Stored' = my'[t].buf /\ Stored = disk.cfg
  BY <1>1, StoredIs, StoredWritten, ThreadsAssumption DEF Opens, StoreInv, Writers
<1>4. locks'["reclaim"] = locks["reclaim"]
  BY RewritesLocks
<1>5. \A k \in SettingKeys \ {key} : Stored'[k] = Stored[k] \/ k \in unsettled'
  BY <1>1, <1>3, SettingsAre
<1>6. up' /\ unsettled \subseteq unsettled' /\ pc'[t] = "writing"
  BY <1>1, <1>2 DEF Opens
<1> QED
  BY <1>1, <1>2, <1>3, <1>4, <1>5, <1>6, EntrySaved

(* A logout clears the file: the session is over. *)
LEMMA LoggedOutKept ==
  ASSUME StoreInv, StoreInv', SettingsInv, NEW t \in Threads, Only(t), up, up',
         UNCHANGED <<api, loggedIn>>, unsettled \subseteq unsettled',
         locks'["reclaim"] = locks["reclaim"],
         my[t].cmd.op \in {"logout", "logout-keep"}, pc[t] # "start",
         pc'[t] \notin {"push", "start"}, my'[t].pending = <<>>,
         pc'[t] # "idle" => my'[t].cmd = my[t].cmd,
         pc'[t] = "idle" => my'[t] = NoLocals
  PROVE  SettingsInv'
<1>1. my[t].cmd.op \in Sessions /\ my'[t].cmd.op # "login"
  BY DEF Sessions, NoLocals, NoCommand
<1>2. \A k \in SettingKeys : Works(t, k) /\ ~IsSaving(t, k)'
  BY <1>1, SessionsWork DEF IsSaving
<1>3. LeavesOthers(t)
  BY <1>1, <1>2 DEF LeavesOthers, Only
<1>4. ASSUME NEW k \in SettingKeys \ unsettled' PROVE ~loggedIn /\ (Works(t, k)' => WorksOn(t, k)')
  <2>1. ~loggedIn
    BY <1>2, <1>4 DEF SettingsInv, WorksOn
  <2> QED
    BY <1>1, <2>1 DEF WorksOn, Works
<1>5. KeepsOwn(t)
  BY <1>1, <1>2, <1>4 DEF KeepsOwn, Snapped
<1> QED
  BY <1>3, <1>5, SettingsKept

LEMMA ClearedKept ==
  ASSUME StoreInv, StoreInv', SettingsInv, NEW t \in Threads, Rewrites(t), clearConfigurationFile(t)
  PROVE  SettingsInv'
<1>1. /\ Only(t) /\ Opens(t) /\ my'[t].cmd = my[t].cmd /\ my'[t].pending = <<>>
      /\ UNCHANGED <<api, loggedIn>>
  BY RewritesTyped DEF Rest
<1>2. pc[t] = "clear" /\ my[t].cmd.op \in {"logout", "logout-keep"} /\ up
  BY WritersAt DEF clearConfigurationFile, At
<1>3. locks'["reclaim"] = locks["reclaim"]
  BY RewritesLocks
<1>4. up' /\ unsettled \subseteq unsettled' /\ pc'[t] = "writing"
  BY <1>1, <1>2 DEF Opens
<1> QED
  BY <1>1, <1>2, <1>3, <1>4, LoggedOutKept

(* The other files are not about the settings. *)
OtherFile(t) ==
    \/ my[t].cmd.op \in Copying /\ pc[t] = "saveBackups"
    \/ /\ my[t].cmd.op = "login" /\ pc[t] \in {"start", "migrating", "saveBackups"}
       /\ pc'[t] = "writing" => my'[t].ret # "idle"
       /\ pc[t] = "start" => ~AfterSettings(t)'
    \/ my[t].cmd.op = "logout" /\ pc[t] \in {"logoutBackups", "logoutSyncs"}

LEMMA OtherFileKept ==
  ASSUME StoreInv, StoreInv', SettingsInv, NEW t \in Threads, Only(t), up, up', OtherFile(t),
         Stored' = Stored, UNCHANGED <<api, loggedIn>>, unsettled \subseteq unsettled',
         locks'["reclaim"] = locks["reclaim"],
         pc'[t] \notin {"idle", "start", "set", "push", "graphics", "speedup"},
         my[t].pending = <<>>, my'[t].pending = <<>>,
         my'[t].cmd = my[t].cmd, my'[t].i = my[t].i
  PROVE  SettingsInv'
<1>1. Steady(t)
  BY DEF Steady
<1>2. CASE my[t].cmd.op \in Copying /\ pc[t] = "saveBackups"
  <2>1. \A k \in SettingKeys : ~IsSaving(t, k)'
    BY DEF IsSaving
  <2> QED
    BY <1>1, <1>2, <2>1, MoveKept DEF Sessions, Copying
<1>3. CASE /\ my[t].cmd.op = "login" /\ pc[t] \in {"start", "migrating", "saveBackups"}
           /\ pc'[t] = "writing" => my'[t].ret # "idle"
           /\ pc[t] = "start" => ~AfterSettings(t)'
  <2>1. AfterSettings(t)' => AfterSettings(t)
    BY <1>3 DEF AfterSettings
  <2> QED
    BY <1>1, <1>3, <2>1, LoginMoveKept
<1>4. CASE my[t].cmd.op = "logout" /\ pc[t] \in {"logoutBackups", "logoutSyncs"}
  BY <1>4, LoggedOutKept
<1> QED
  BY <1>2, <1>3, <1>4 DEF OtherFile

LEMMA OpensOtherIs ==
  ASSUME StoreInv, NEW t \in Threads, OpensOther(t)
  PROVE  /\ \/ loadsyncs(t) /\ pc[t] = "start" /\ my[t].cmd.op = "login" /\ my'[t].ret = "loadBackups"
            \/ MigrateAnswer(t) /\ pc[t] = "migrating" /\ my[t].cmd.op = "login" /\ my'[t].ret = "migrating"
            \/ /\ SaveBackups(t) /\ pc[t] = "saveBackups" /\ my[t].cmd.op \in Copying \cup {"login"}
               /\ my'[t].ret = "unlockBackups" /\ locks["backups"] \in {Free, t}
            \/ /\ LogoutBackups(t) \/ LogoutSyncs(t)
               /\ pc[t] \in {"logoutBackups", "logoutSyncs"} /\ my[t].cmd.op = "logout"
               /\ my'[t].ret \in {"logoutSyncs", "clear"}
         /\ my'[t].i = my[t].i /\ my'[t].found = my[t].found /\ my'[t].val = my[t].val
         /\ my[t].pending = <<>>
         /\ locks'["reclaim"] = locks["reclaim"]
         /\ locks'["backups"] = IF SaveBackups(t) THEN t ELSE locks["backups"]
<1>0. TypeOK /\ my \in [Threads -> Locals] /\ Opens(t)
  BY OpensOtherTyped DEF StoreInv, TypeOK
<1>m. {"reclaim", "backups"} \subseteq Mutexes \ {"settings"}
  BY DEF Mutexes
<1>1. CASE pc'[t] = "writing" /\ loadsyncs(t)
  <2>1. pc[t] = "start" /\ my[t].cmd.op = "login" /\ my[t].pending = <<>> /\ ~SaveBackups(t)
    BY <1>1, WritersAt
  <2>2. /\ my'[t].ret = "loadBackups" /\ Rest(my'[t], my[t])
        /\ \A m \in Mutexes \ {"settings"} : locks'[m] = locks[m]
    BY <1>1, LoadSyncsTyped
  <2> QED
    BY <1>1, <1>m, <2>1, <2>2 DEF Rest
<1>2. CASE pc'[t] = "writing" /\ SavesOther(t)
  <2>1. PICK l : SavedOther(t, l)
    BY <1>2, SavesOtherTyped
  <2>2. my'[t] = l /\ Rest(l, my[t])
    BY <1>2, <2>1 DEF SavedOther
  <2>3. CASE SaveBackups(t)
    <3>1. /\ pc[t] = "saveBackups" /\ my[t].cmd.op \in Copying \cup {"login"} /\ my[t].pending = <<>>
          /\ locks["backups"] \in {Free, t} /\ locks'["backups"] = t
          /\ locks'["reclaim"] = locks["reclaim"] /\ my'[t].ret = "unlockBackups"
      BY <1>2, <2>1, <2>2, <2>3, WritersAt, SavesOtherTyped DEF SavedOther
    <3> QED
      BY <2>2, <2>3, <3>1 DEF Rest
  <2>4. CASE ~SaveBackups(t)
    <3>1. /\ pc[t] \in {"logoutBackups", "logoutSyncs"} /\ my[t].cmd.op = "logout"
          /\ my[t].pending = <<>> /\ my'[t].ret \in {"logoutSyncs", "clear"}
          /\ LogoutBackups(t) \/ LogoutSyncs(t)
      BY <1>2, <2>1, <2>2, <2>4, WritersAt DEF SavedOther, SavesOther
    <3>2. \A p \in Mutexes \ {"settings"} : locks'[p] = locks[p]
      BY <1>2, <2>4, SavesOtherTyped
    <3> QED
      BY <1>m, <2>2, <2>4, <3>1, <3>2 DEF Rest
  <2> QED
    BY <2>3, <2>4
<1>3. CASE MigrateAnswer(t) /\ ~UNCHANGED pc
  <2>1. pc[t] = "migrating" /\ my[t].cmd.op = "login" /\ my[t].pending = <<>> /\ ~SaveBackups(t)
    BY <1>3, WritersAt
  <2>2. PICK entry \in my[t].sent : removeSyncConfig(t, entry)
    BY <1>3 DEF MigrateAnswer
  <2>3. /\ locks' = [locks EXCEPT !.settings = t]
        /\ my' = [my EXCEPT ![t] = [my[t] EXCEPT !.sent = @ \ {entry}, !.ret = "migrating"]]
    BY <1>3, <2>2 DEF removeSyncConfig
  <2>4. /\ my'[t].ret = "migrating" /\ my'[t].i = my[t].i /\ my'[t].found = my[t].found
        /\ my'[t].val = my[t].val
    BY <1>0, <2>3 DEF Locals
  <2>5. locks'["reclaim"] = locks["reclaim"] /\ locks'["backups"] = locks["backups"]
    BY <1>0, <1>m, <2>3 DEF TypeOK
  <2> QED
    BY <1>3, <2>1, <2>4, <2>5
<1> QED
  BY <1>1, <1>2, <1>3 DEF OpensOther

LEMMA OpensOtherKept ==
  ASSUME StoreInv, StoreInv', SettingsInv, NEW t \in Threads, OpensOther(t)
  PROVE  SettingsInv'
<1>1. /\ Only(t) /\ Opens(t) /\ my'[t].cmd = my[t].cmd /\ my'[t].pending = <<>>
      /\ disk'.writing # "cfg" /\ UNCHANGED <<up, api, loggedIn, unsettled>>
  BY OpensOtherTyped
<1>2. up
  BY DEF At, AtOp, OpensOther, SavesOther, loadsyncs, MigrateAnswer, SaveBackups, LogoutBackups,
     LogoutSyncs
<1>3. Stored' = Stored
  BY <1>1, StoredIs, ThreadsAssumption DEF Stored, StoreInv, Writers, Opens
<1>4. /\ pc'[t] = "writing" /\ locks'["reclaim"] = locks["reclaim"]
      /\ my[t].pending = <<>> /\ my'[t].i = my[t].i
  BY <1>1, OpensOtherIs DEF Opens
<1>5. OtherFile(t)
  BY <1>4, OpensOtherIs DEF OtherFile, AfterSettings
<1> QED
  BY <1>1, <1>2, <1>3, <1>4, <1>5, OtherFileKept

(* A file that cannot be opened: the settings that should have gone there   *)
(* have been noted.                                                         *)
LEMMA SkipsKept ==
  ASSUME StoreInv, StoreInv', SettingsInv, NEW t \in Threads, Skips(t)
  PROVE  SettingsInv'
<1>1. /\ Only(t) /\ UNCHANGED <<api, loggedIn, up>> /\ Quiet(t)
      /\ unsettled \subseteq unsettled' /\ locks'["reclaim"] = locks["reclaim"]
      /\ pc'[t] = "idle" => my'[t] = NoLocals
      /\ pc'[t] # "idle" => Rest(my'[t], my[t])
  BY SkipsTyped
<1>2. Stored' = Stored /\ Stored = disk.cfg /\ up
  <2>1. Stored' = Stored /\ locks["settings"] = Free
    BY <1>1, SkipsTyped, StoredQuiet
  <2>2. Stored = disk.cfg
    BY <2>1, StoredIs, ThreadsAssumption DEF StoreInv, Writers
  <2>3. up
    BY DEF Skips, SavesOther, saveProperty, clearConfigurationFile, SaveBackups, LogoutBackups,
       LogoutSyncs, At
  <2> QED
    BY <2>1, <2>2, <2>3
<1>3. CASE saveProperty(t)
  <2> DEFINE q == my[t].pending
  <2>1. pc[t] = "save" /\ q # <<>> /\ my[t].cmd.op \notin Sessions
    BY <1>3, WritersAt
  <2>2. /\ disk.cfg[Head(q)[1]] = Head(q)[2] \/ Head(q)[1] \in unsettled'
        /\ pc'[t] = IF Tail(q) # <<>> THEN "save" ELSE my[t].ret
        /\ pc'[t] # "idle" => my'[t].pending = Tail(q)
    BY <1>3, SkipsTyped
  <2>3. my[t].ret \notin {"push", "speedup", "graphics"}
    BY FieldsTyped DEF StoreInv, Returns
  <2>4. pc'[t] \notin {"push", "speedup", "graphics"} /\ (pc'[t] = "idle" => Tail(q) = <<>>)
    BY <2>2, <2>3
  <2> QED
    BY <1>1, <1>2, <2>1, <2>2, <2>4, EntrySaved DEF Rest
<1>4. CASE clearConfigurationFile(t)
  <2>1. pc[t] = "clear" /\ my[t].cmd.op \in {"logout", "logout-keep"} /\ pc'[t] = "idle"
    BY <1>4, WritersAt, SkipsTyped
  <2>2. my'[t] = NoLocals /\ my'[t].pending = <<>>
    BY <1>1, <2>1 DEF NoLocals
  <2> QED
    BY <1>1, <1>2, <2>1, <2>2, LoggedOutKept
<1>5. CASE SavesOther(t)
  <2>1. /\ my'[t].pending = <<>>
        /\ SaveBackups(t) => pc[t] = "saveBackups" /\ pc'[t] = "unlockBackups"
        /\ LogoutBackups(t) => pc[t] = "logoutBackups" /\ pc'[t] = "logoutSyncs"
        /\ LogoutSyncs(t) => pc[t] = "logoutSyncs" /\ pc'[t] = "clear"
    BY <1>5, SkipsTyped
  <2>2. /\ SaveBackups(t) => my[t].cmd.op \in Copying \cup {"login"} /\ my[t].pending = <<>>
        /\ LogoutBackups(t) => my[t].cmd.op = "logout" /\ my[t].pending = <<>>
        /\ LogoutSyncs(t) => my[t].cmd.op = "logout" /\ my[t].pending = <<>>
    BY WritersAt
  <2>3. my[t].pending = <<>> /\ pc'[t] \in {"unlockBackups", "logoutSyncs", "clear"}
    BY <1>5, <2>1, <2>2 DEF SavesOther
  <2>4. OtherFile(t)
    BY <1>5, <2>1, <2>2 DEF OtherFile, SavesOther
  <2> QED
    BY <1>1, <1>2, <2>1, <2>3, <2>4, OtherFileKept DEF Rest
<1> QED
  BY <1>3, <1>4, <1>5 DEF Skips

(* Nothing that is about the settings changes when a write ends, but that   *)
(* the thread goes on to its next save, or is done, and that the lines that *)
(* could not be written have been noted.                                    *)
LEMMA EndWriteKept ==
  ASSUME StoreInv, StoreInv', SettingsInv, NEW t \in Threads, EndWrite(t)
  PROVE  SettingsInv'
<1>0. TypeOK /\ Placed(t) /\ my[t].ret \in Returns /\ my[t].pending \in Seq(Entries)
      /\ my \in [Threads -> Locals]
  BY FieldsTyped DEF StoreInv, InCommand, TypeOK
<1>1. /\ pc[t] = "writing" /\ pc'[t] # "writing" /\ up' = up
      /\ \A u \in Threads \ {t} : pc'[u] = pc[u] /\ Same(my'[u], my[u])
      /\ pc'[t] = "idle" => my'[t] = NoLocals
      /\ pc'[t] # "idle" => Same(my'[t], my[t])
      /\ pc'[t] = IF my[t].pending # <<>> THEN "save" ELSE my[t].ret
      /\ locks'["reclaim"] = locks["reclaim"]
      /\ disk'.writing = "none"
  BY EndWriteKeeps, EndWriteIs DEF GoesAfter, After, Mutexes
<1>2. up /\ UNCHANGED <<api, loggedIn>> /\ unsettled \subseteq unsettled'
  BY EndWriteIs DEF EndWrite, At
<1>3. \A k \in SettingKeys \ unsettled' : Stored'[k] = Stored[k]
  <2>1. Stored' = disk'.cfg
    BY <1>1 DEF Stored
  <2>2. CASE disk.writing = "cfg"
    <3>1. Stored = my[t].buf
      BY <1>1, <2>2, StoredIs
    <3> QED
      BY <2>1, <2>2, <3>1, EndWriteIs, SettingsAre
  <2>3. CASE disk.writing # "cfg"
    BY <2>1, <2>3, EndWriteIs DEF Stored
  <2> QED
    BY <2>2, <2>3
<1>4. \A u \in Threads \ {t} :
         /\ my'[u].cmd = my[u].cmd /\ my'[u].pending = my[u].pending /\ my'[u].ret = my[u].ret
         /\ my'[u].i = my[u].i /\ my'[u].val = my[u].val /\ my'[u].snap = my[u].snap
  BY <1>1 DEF Same, Rest
<1>6. LeavesOthers(t)
  BY <1>1, <1>2, <1>3, <1>4 DEF LeavesOthers
<1>7. \A k \in SettingKeys \ unsettled' : Agrees(k)' = Agrees(k)
  BY <1>2, <1>3, Unmoved
<1>8. pc'[t] = "idle" => my[t].pending = <<>> /\ my[t].ret = "idle"
  BY <1>1
<1>9. CASE pc'[t] = "idle"
  <2>1. \A k \in SettingKeys : ~IsSaving(t, k)' /\ ~Works(t, k)' /\ ~IsSaving(t, k)
    BY <1>1, <1>8, <1>9 DEF IsSaving, NoLocals, Works
  <2>2. my[t].cmd.op # "login"
    BY <1>1, <1>8, <1>9 DEF SettingsInv, WentThrough
  <2>3. ASSUME NEW k \in SettingKeys \ unsettled, Works(t, k), loggedIn PROVE Agrees(k)
    <3>1. CASE my[t].cmd.op \in {"logout", "logout-keep"}
      BY <1>1, <2>3, <3>1 DEF SettingsInv, WorksOn
    <3>2. CASE my[t].cmd.op \notin Sessions
      BY <1>1, <2>1, <2>3, <3>2 DEF SettingsInv, WorksOn, CommandOn
    <3> QED
      BY <2>2, <3>1, <3>2 DEF Sessions
  <2>4. KeepsOwn(t)
    BY <1>1, <1>2, <1>7, <1>9, <2>1, <2>3 DEF KeepsOwn, Snapped, NoLocals, NoCommand
  <2> QED
    BY <1>6, <2>4, SettingsKept
<1>10. CASE pc'[t] # "idle"
  <2>1. /\ my'[t].cmd = my[t].cmd /\ my'[t].pending = my[t].pending /\ my'[t].ret = my[t].ret
        /\ my'[t].i = my[t].i /\ my'[t].val = my[t].val
        /\ pc'[t] \notin {"push", "set", "start", "speedup", "graphics"}
        /\ my[t].pending = <<>> => pc'[t] = my[t].ret
    BY <1>0, <1>1, <1>10 DEF Returns, Same, Rest
  <2>2. \A k \in SettingKeys : IsSaving(t, k)' = IsSaving(t, k) /\ Works(t, k)' = Works(t, k)
    BY <1>1, <1>10, <2>1 DEF IsSaving, Works
  <2>3. ASSUME NEW k \in SettingKeys \ unsettled', Works(t, k) PROVE WorksOn(t, k)'
    <3>1. WorksOn(t, k)
      BY <1>2, <2>3 DEF SettingsInv
    <3>2. CommandOn(t, k) => CommandOn(t, k)'
      BY <1>1, <1>2, <1>7, <2>1, <2>2 DEF CommandOn
    <3>3. LoginOn(t, k) => LoginOn(t, k)'
      BY <1>1, <1>7, <2>1 DEF LoginOn, Restoring
    <3> QED
      BY <1>1, <1>2, <2>1, <3>1, <3>2, <3>3 DEF WorksOn
  <2>4. my[t].cmd.op = "login" /\ AfterSettings(t)' => my[t].i = 8
    <3>1. my[t].cmd.op = "login" => my[t].pending = <<>>
      BY <1>0 DEF Placed, Sessions
    <3> QED
      BY <1>1, <2>1, <3>1, ApplyOrderIs DEF SettingsInv, WentThrough, AfterSettings
  <2>5. \A k \in SettingKeys : IsSaving(t, k)' => Works(t, k)'
    BY <2>2 DEF SettingsInv, SavesOwn
  <2>6. KeepsOwn(t)
    BY <1>1, <1>2, <2>1, <2>2, <2>3, <2>4, <2>5 DEF KeepsOwn, Snapped
  <2> QED
    BY <1>6, <2>6, SettingsKept
<1> QED
  BY <1>9, <1>10

(* Nobody works on anything in a new process. *)
LEMMA NoneWorks ==
  ASSUME pc = [t \in Threads |-> "idle"], my = [t \in Threads |-> NoLocals], ~loggedIn
  PROVE  SettingsInv
<1>1. \A t \in Threads, k \in SettingKeys : ~IsSaving(t, k) /\ ~Works(t, k)
  BY DEF IsSaving, NoLocals, Works
<1>2. \A t \in Threads : my[t].cmd.op # "login" /\ pc[t] # "push"
  BY DEF NoLocals, NoCommand
<1> QED
  BY <1>1, <1>2 DEF SettingsInv, Apart, Fetched, SavesOwn, WentThrough

LEMMA SettingsInvKept ==
  ASSUME StoreInv, SettingsInv, [Next]_vars
  PROVE  SettingsInv'
<1>0. StoreInv'
  BY StoreInvKept
<1>1. ASSUME NEW t \in Threads,
             QuietStep(t) \/ Rewrites(t) \/ OpensOther(t) \/ Skips(t) \/ EndWrite(t)
      PROVE  SettingsInv'
  <2>1. Rewrites(t) => saveProperty(t) \/ clearConfigurationFile(t)
    BY DEF Rewrites
  <2> QED
    BY <1>0, <1>1, <2>1, StartKept, SettingStepKept, LocationsKept, BackupsKept, LoginStepKept,
       SavedKept, ClearedKept, OpensOtherKept, SkipsKept, EndWriteKept DEF QuietStep
<1>2. CASE Crash
  <2>1. /\ pc' = [t \in Threads |-> "idle"] /\ my' = [t \in Threads |-> NoLocals] /\ ~loggedIn'
    BY <1>2 DEF Crash
  <2>2. \A t \in Threads, k \in SettingKeys : ~IsSaving(t, k)' /\ ~Works(t, k)'
    BY <2>1 DEF IsSaving, NoLocals, Works
  <2>3. \A t \in Threads : my'[t].cmd.op # "login" /\ pc'[t] # "push"
    BY <2>1 DEF NoLocals, NoCommand
  <2> QED
    BY <2>1, <2>2, <2>3 DEF SettingsInv, Apart, Fetched, SavesOwn, WentThrough
<1>3. CASE Restart \/ UNCHANGED vars
  <2>1. UNCHANGED <<pc, my, disk, locks, api, loggedIn, unsettled>> /\ (~up' => ~loggedIn')
    <3>1. CASE Restart
      BY <3>1 DEF Restart
    <3>2. CASE UNCHANGED vars
      BY <3>2 DEF vars, SettingsInv
    <3> QED
      BY <1>3, <3>1, <3>2
  <2>2. /\ \A k : Shown(k)' = Shown(k) /\ Agrees(k)' = Agrees(k) /\ Busy(k)' = Busy(k)
        /\ \A t, k : IsSaving(t, k)' = IsSaving(t, k) /\ Works(t, k)' = Works(t, k)
        /\ \A t : /\ AfterSettings(t)' = AfterSettings(t) /\ Restoring(t)' = Restoring(t)
                  /\ Own(t)' = Own(t) /\ Given(t)' = Given(t) /\ Val(t)' = Val(t)
    BY <2>1 DEF Stored, Shown, Agrees, Busy, IsSaving, Works, AfterSettings, Restoring, Own, Given,
       Key, Val
  <2>3. \A t, k : WorksOn(t, k)' = WorksOn(t, k)
    BY <2>1, <2>2 DEF WorksOn, CommandOn, LoginOn
  <2>4. Apart' /\ Fetched' /\ SavesOwn' /\ WentThrough'
    BY <2>1, <2>2 DEF SettingsInv, Apart, Fetched, SavesOwn, WentThrough
  <2> QED
    BY <2>1, <2>2, <2>3, <2>4 DEF SettingsInv
<1> QED
  BY <1>1, <1>2, <1>3, StepsAre DEF Done

(* A setting that no two commands fought about is in the SDK what the file  *)
(* says once nobody is changing it: configure and its like save what the    *)
(* SDK has taken, and the login restores what is saved.  Not so, until the  *)
(* process ends, are the settings that a file which cannot be read or       *)
(* written does not say, and those that the SDK refuses to a login: nobody  *)
(* is told.                                                                 *)
THEOREM SavedIsRunningHolds ==
  Spec => []SavedIsRunning
<1>1. Init => SettingsInv
  BY NoneWorks DEF Init, InitProcess
<1>2. StoreInv /\ SettingsInv /\ [Next]_vars => SettingsInv'
  BY SettingsInvKept
<1>3. SettingsInv => SavedIsRunning
  BY DEF SettingsInv, SavedIsRunning, Agrees, Shown
<1> QED
  BY <1>1, <1>2, <1>3, StoreInvHolds, PTL DEF Spec

-----------------------------------------------------------------------------
(* The backups that run, those that are configured and those of the file   *)

(* What the file of the backups says, or is about to. *)
SavedNum(f) == IF disk.writing = "backups" THEN mem.backups[f].num ELSE disk.backups[f]
IsSaved(f) == SavedNum(f) # 0
Configured(f) == mem.backups[f] # NoBackup
Runs(f) == api.backups[f] # 0

(* A backup nobody works on: one that runs is configured, one that is       *)
(* configured is saved, and one that is saved is configured once a login    *)
(* has loaded it.                                                           *)
Numbered(f) == Configured(f) <=> mem.backups[f].num # 0
Backed(f) ==
    /\ Numbered(f)
    /\ Runs(f) => Configured(f)
    /\ Configured(f) => IsSaved(f)
    /\ loggedIn /\ IsSaved(f) => Configured(f)

(* Where a thread is, while it writes a file where it goes on. *)
Point(t) == IF pc[t] \in {"save", "writing"} THEN my[t].ret ELSE pc[t]

(* Where a command is with a backup that nobody else works on. *)
CopyingOn(t, f) ==
    /\ Numbered(f)
    /\ Point(t) = "saveBackups" => (Runs(f) => Configured(f))
    /\ Point(t) \in {"erase", "eraseStopped"} => ~Runs(f)
    /\ Point(t) \notin {"register", "erase", "eraseStopped", "saveBackups"} => Backed(f)

(* ... and a login, which loads what is saved before it sets it up again.   *)
HasLoaded(t) == Point(t) \notin {"start", "loadBackups"}
ResumingOn(t, f) ==
    /\ Backed(f)
    /\ HasLoaded(t) /\ IsSaved(f) => Configured(f)
    /\ Point(t) = "resume" /\ f \in my[t].list => Configured(f)

BackupOn(t, f) ==
    IF my[t].cmd.op \in Copying /\ f = Path(t) THEN CopyingOn(t, f)
    ELSE IF my[t].cmd.op = "login" THEN ResumingOn(t, f)
    ELSE Backed(f)

BackupsInv ==
    /\ \A t \in Threads : \A u \in Threads \ {t}, f \in Paths :
          Works(t, f) /\ Works(u, f) => f \in unsettled
    /\ \A t \in Threads : pc[t] \in {"register", "refused"} => my[t].val # 0
    /\ \A f \in Paths \ unsettled :
          /\ \A t \in Threads : Works(t, f) => BackupOn(t, f)
          /\ ~Busy(f) => Backed(f)

(* A backup that a step does not change, whatever it does to the file. *)
Follows(f) ==
    /\ mem'.backups[f] = mem.backups[f] /\ api'.backups[f] = api.backups[f]
    /\ SavedNum(f)' \in {SavedNum(f), mem.backups[f].num}

LEMMA BackedFollows ==
  ASSUME NEW f, Follows(f)
  PROVE  /\ Numbered(f)' = Numbered(f) /\ Configured(f)' = Configured(f) /\ Runs(f)' = Runs(f)
         /\ Numbered(f) => /\ Configured(f) /\ IsSaved(f) => IsSaved(f)'
                           /\ IsSaved(f)' => IsSaved(f) \/ Configured(f)
         /\ loggedIn' = loggedIn /\ Backed(f) => Backed(f)'
<1>1. Numbered(f)' = Numbered(f) /\ Configured(f)' = Configured(f) /\ Runs(f)' = Runs(f)
  BY DEF Follows, Numbered, Configured, Runs
<1>2. Numbered(f) => /\ Configured(f) /\ IsSaved(f) => IsSaved(f)'
                     /\ IsSaved(f)' => IsSaved(f) \/ Configured(f)
  BY DEF Follows, Numbered, IsSaved
<1> QED
  BY <1>1, <1>2 DEF Backed

LeavesBackups(t) ==
    /\ \A u \in Threads \ {t} :
          /\ pc'[u] = pc[u]
          /\ my'[u].cmd = my[u].cmd /\ my'[u].ret = my[u].ret
          /\ my'[u].val = my[u].val /\ my'[u].list = my[u].list
    /\ \A f \in Paths \ unsettled' : ~Works(t, f) => Follows(f)
    /\ unsettled \subseteq unsettled'
    /\ loggedIn' = loggedIn \/ my[t].cmd.op \in Sessions

KeepsBackups(t) ==
    /\ pc'[t] \in {"register", "refused"} => my'[t].val # 0
    /\ \A f \in Paths \ unsettled' :
          /\ Works(t, f)' => BackupOn(t, f)' /\ (Works(t, f) \/ ~Busy(f))
          /\ Works(t, f) /\ ~Works(t, f)' => Backed(f)'

LEMMA SessionsWorkAll ==
  ASSUME StoreInv, NEW t \in Threads, my[t].cmd.op \in Sessions, NEW f \in Paths
  PROVE  Works(t, f)
BY DEF Touches, Works, StoreInv, InCommand, Placed, NoCommand, Sessions

LEMMA BackupOnFollows ==
  ASSUME NEW t, NEW f, Follows(f), loggedIn' = loggedIn, BackupOn(t, f),
         my'[t].cmd = my[t].cmd, Point(t)' = Point(t), my'[t].list = my[t].list
  PROVE  BackupOn(t, f)'
<1>1. Path(t)' = Path(t) /\ HasLoaded(t)' = HasLoaded(t)
  BY DEF Path, HasLoaded
<1>2. CopyingOn(t, f) => CopyingOn(t, f)'
  BY BackedFollows DEF CopyingOn
<1>3. ResumingOn(t, f) => ResumingOn(t, f)'
  <2>1. Backed(f) => Numbered(f)
    BY DEF Backed
  <2> QED
    BY <1>1, <2>1, BackedFollows DEF ResumingOn
<1> QED
  BY <1>1, <1>2, <1>3, BackedFollows DEF BackupOn

LEMMA BackupsInvIsKept ==
  ASSUME StoreInv, BackupsInv, NEW t \in Threads, LeavesBackups(t), KeepsBackups(t)
  PROVE  BackupsInv'
<1>0. \A u \in Threads \ {t}, f \in Paths : Works(u, f)' = Works(u, f)
  BY DEF LeavesBackups, Works
<1>1. ASSUME NEW u \in Threads, NEW v \in Threads \ {u}, NEW f \in Paths, f \notin unsettled',
             Works(u, f)', Works(v, f)'
      PROVE  FALSE
  <2>1. f \notin unsettled
    BY <1>1 DEF LeavesBackups
  <2>2. CASE u = t
    BY <1>0, <1>1, <2>1, <2>2 DEF BackupsInv, KeepsBackups, Busy, Works
  <2>3. CASE v = t
    BY <1>0, <1>1, <2>1, <2>3 DEF BackupsInv, KeepsBackups, Busy, Works
  <2>4. CASE u # t /\ v # t
    BY <1>0, <1>1, <2>1, <2>4 DEF BackupsInv
  <2> QED
    BY <2>2, <2>3, <2>4
<1>2. \A u \in Threads : pc'[u] \in {"register", "refused"} => my'[u].val # 0
  BY DEF BackupsInv, LeavesBackups, KeepsBackups
<1>3. ASSUME NEW f \in Paths \ unsettled', NEW u \in Threads, Works(u, f)'
      PROVE  BackupOn(u, f)'
  <2> SUFFICES ASSUME u # t PROVE BackupOn(u, f)'
    BY <1>3 DEF KeepsBackups
  <2>1. Works(u, f) /\ f \notin unsettled /\ BackupOn(u, f)
    BY <1>0, <1>3 DEF LeavesBackups, BackupsInv
  <2>2. ~Works(t, f)
    BY <2>1 DEF BackupsInv
  <2>3. Follows(f) /\ loggedIn' = loggedIn
    BY <2>2, SessionsWorkAll DEF LeavesBackups
  <2>4. my'[u].cmd = my[u].cmd /\ Point(u)' = Point(u) /\ my'[u].list = my[u].list
    BY DEF LeavesBackups, Point
  <2> QED
    BY <2>1, <2>3, <2>4, BackupOnFollows
<1>4. ASSUME NEW f \in Paths \ unsettled', ~Busy(f)' PROVE Backed(f)'
  <2>0. ~Works(t, f)' /\ \A u \in Threads \ {t} : ~Works(u, f)
    BY <1>0, <1>4 DEF Busy, Works
  <2>1. CASE Works(t, f)
    BY <2>0, <2>1 DEF KeepsBackups
  <2>2. CASE ~Works(t, f)
    <3>1. ~Busy(f) /\ f \notin unsettled /\ Follows(f) /\ loggedIn' = loggedIn
      BY <2>0, <2>2, SessionsWorkAll DEF Busy, Works, LeavesBackups
    <3> QED
      BY <3>1, BackedFollows DEF BackupsInv
  <2> QED
    BY <2>1, <2>2
<1> QED
  BY <1>1, <1>2, <1>3, <1>4 DEF BackupsInv

(* A step that leaves all the backups alone, but for those it has noted. *)
Idles(t) ==
    /\ \A u \in Threads \ {t} :
          /\ pc'[u] = pc[u]
          /\ my'[u].cmd = my[u].cmd /\ my'[u].ret = my[u].ret
          /\ my'[u].val = my[u].val /\ my'[u].list = my[u].list
    /\ \A f \in Paths \ unsettled' : Follows(f)
    /\ unsettled \subseteq unsettled'
    /\ loggedIn' = loggedIn

Between == {"register", "erase", "eraseStopped", "saveBackups"}

LEMMA IdlesKept ==
  ASSUME StoreInv, BackupsInv, NEW t \in Threads, Idles(t), pc[t] # "idle",
         pc'[t] \notin {"register", "refused"},
         \/ /\ pc'[t] = "idle"
            /\ my[t].cmd.op \in Copying => Point(t) \notin Between
         \/ /\ my'[t].cmd = my[t].cmd /\ pc'[t] # "idle"
            /\ my[t].cmd.op \in Copying =>
                  Point(t)' = Point(t) \/ {Point(t), Point(t)'} \cap Between = {}
            /\ my[t].cmd.op = "login" => HasLoaded(t)' = HasLoaded(t) /\ Point(t)' # "resume"
  PROVE  BackupsInv'
<1>1. LeavesBackups(t)
  BY DEF Idles, LeavesBackups
<1>2. ASSUME NEW f \in Paths \ unsettled', BackupOn(t, f), my[t].cmd.op \in Copying => Point(t) \notin Between
      PROVE  Backed(f)'
  <2>1. Backed(f)
    BY <1>2 DEF BackupOn, CopyingOn, ResumingOn, Between
  <2> QED
    BY <2>1, BackedFollows DEF Idles
<1>3. CASE pc'[t] = "idle" /\ (my[t].cmd.op \in Copying => Point(t) \notin Between)
  <2>1. KeepsBackups(t)
    BY <1>2, <1>3 DEF KeepsBackups, Works, BackupsInv, Idles
  <2> QED
    BY <1>1, <2>1, BackupsInvIsKept
<1>4. CASE /\ my'[t].cmd = my[t].cmd /\ pc'[t] # "idle"
           /\ my[t].cmd.op \in Copying =>
                 Point(t)' = Point(t) \/ {Point(t), Point(t)'} \cap Between = {}
           /\ my[t].cmd.op = "login" => HasLoaded(t)' = HasLoaded(t) /\ Point(t)' # "resume"
  <2>1. \A f : Works(t, f)' = Works(t, f)
    BY <1>4 DEF Works
  <2>2. Path(t)' = Path(t)
    BY <1>4 DEF Path
  <2>3. ASSUME NEW f \in Paths \ unsettled', BackupOn(t, f) PROVE BackupOn(t, f)'
    <3>1. Follows(f) /\ loggedIn' = loggedIn
      BY DEF Idles
    <3>2. CASE my[t].cmd.op \in Copying /\ f = Path(t)
      <4>1. CASE Point(t)' = Point(t)
        BY <1>4, <2>2, <2>3, <3>1, <3>2, <4>1, BackedFollows DEF BackupOn, CopyingOn
      <4>2. CASE {Point(t), Point(t)'} \cap Between = {}
        BY <1>2, <1>4, <2>2, <2>3, <3>2, <4>2 DEF BackupOn, CopyingOn, Between, Backed
      <4> QED
        BY <1>4, <3>2, <4>1, <4>2
    <3>3. CASE my[t].cmd.op = "login"
      <4>1. my[t].cmd.op \notin Copying
        BY <3>3 DEF Copying
      <4>2. ResumingOn(t, f) /\ Numbered(f)
        BY <2>3, <3>3, <4>1 DEF BackupOn, ResumingOn, Backed
      <4>3. ResumingOn(t, f)'
        BY <1>4, <3>1, <3>3, <4>2, BackedFollows DEF ResumingOn
      <4> QED
        BY <1>4, <3>3, <4>1, <4>3 DEF BackupOn
    <3>4. CASE ~(my[t].cmd.op \in Copying /\ f = Path(t)) /\ my[t].cmd.op # "login"
      BY <1>4, <2>2, <2>3, <3>1, <3>4, BackedFollows DEF BackupOn
    <3> QED
      BY <3>2, <3>3, <3>4
  <2>4. KeepsBackups(t)
    BY <2>1, <2>3 DEF KeepsBackups, BackupsInv, Idles
  <2> QED
    BY <1>1, <2>4, BackupsInvIsKept
<1> QED
  BY <1>3, <1>4

LEMMA StartIdles ==
  ASSUME StoreInv, StoreInv', BackupsInv, NEW t \in Threads, Start(t)
  PROVE  BackupsInv'
<1>0. TypeOK /\ Placed(t) /\ pc \in [Threads -> Labels]
  BY DEF StoreInv, InCommand, TypeOK
<1>1. Only(t) /\ my'[t].cmd = Head(todo[t])
  BY StartQuiet
<1>2. /\ pc[t] = "idle" /\ pc'[t] = "start" /\ UNCHANGED <<disk, mem, api, loggedIn>>
      /\ unsettled \subseteq unsettled'
  BY <1>0 DEF Start, At, Goto
<1>3. \A f : Follows(f)
  BY <1>2 DEF Follows, SavedNum
<1>4. LeavesBackups(t)
  BY <1>1, <1>2, <1>3 DEF LeavesBackups, Only
<1>5. ASSUME NEW f \in Paths \ unsettled', Works(t, f)' PROVE BackupOn(t, f)' /\ ~Busy(f)
  <2>1. ~Busy(f)
    BY <1>1, <1>5 DEF Works, Busy, Start
  <2>2. Backed(f)'
    BY <1>2, <1>3, <2>1, BackedFollows DEF BackupsInv
  <2>3. Point(t)' = "start"
    BY <1>2 DEF Point
  <2>4. ~HasLoaded(t)' /\ Numbered(f)'
    BY <2>2, <2>3 DEF HasLoaded, Backed
  <2>5. CopyingOn(t, f)'
    BY <2>2, <2>3, <2>4 DEF CopyingOn
  <2>6. ResumingOn(t, f)'
    BY <2>2, <2>3, <2>4 DEF ResumingOn
  <2> QED
    BY <2>1, <2>2, <2>5, <2>6 DEF BackupOn
<1>6. KeepsBackups(t)
  BY <1>2, <1>5 DEF KeepsBackups, Works
<1> QED
  BY <1>4, <1>6, BackupsInvIsKept

(* A command that is about something else. *)
LEMMA OthersIdle ==
  ASSUME StoreInv, StoreInv', BackupsInv, NEW t \in Threads, Only(t), pc[t] # "idle",
         my[t].cmd.op \notin Copying \cup {"login"},
         mem'.backups = mem.backups, api'.backups = api.backups,
         \A f \in Paths \ unsettled' : SavedNum(f)' \in {SavedNum(f), mem.backups[f].num},
         unsettled \subseteq unsettled', loggedIn' = loggedIn,
         pc'[t] = "idle" \/ my'[t].cmd = my[t].cmd
  PROVE  BackupsInv'
<1>1. Idles(t)
  BY DEF Idles, Only, Follows
<1>2. Placed(t) /\ Placed(t)'
  BY DEF StoreInv, InCommand
<1>3. pc'[t] \notin {"register", "refused"} /\ (pc'[t] # "idle" => my'[t].cmd = my[t].cmd)
  BY <1>2 DEF Placed, Reaches, Copying
<1> QED
  BY <1>1, <1>3, IdlesKept

LEMMA SettingStepIdles ==
  ASSUME StoreInv, StoreInv', BackupsInv, NEW t \in Threads, SettingStep(t)
  PROVE  BackupsInv'
<1>0. TypeOK /\ Placed(t) /\ my \in [Threads -> Locals] /\ pc \in [Threads -> Labels]
      /\ api \in Apis
  BY DEF StoreInv, InCommand, TypeOK
<1> USE DEF SettingStep, Configure, ConfigurePush, Speedlimit, SpeedlimitUp, Graphics, GraphicsSave,
        Permissions, setProxy, UpdateAuto, At, AtOp
<1>1. Only(t)
  BY SettingsQuiet
<1>2. UNCHANGED <<disk, mem, loggedIn, unsettled>>
  OBVIOUS
<1>3. pc[t] \in {"speedup", "graphics"}
      \/ my[t].cmd.op \in {"configure", "speedlimit", "graphics", "permissions", "proxy", "update"}
  OBVIOUS
<1>4. api'.backups = api.backups
  BY <1>0 DEF Apis, Push, PushReclaim
<1>5. Finish(t) \/ UNCHANGED my \/ (\E q, r : ThenSave(t, q, r))
      \/ (\E k, v : FetchReclaim(t, k, v, "push"))
  OBVIOUS
<1> USE DEF SettingStep
<1>6. pc'[t] = "idle" \/ my'[t].cmd = my[t].cmd
  <2>1. Finish(t) => pc'[t] = "idle"
    BY <1>0 DEF Finish, Goto
  <2>2. ASSUME NEW q, NEW r, ThenSave(t, q, r) PROVE my'[t].cmd = my[t].cmd
    BY <1>0, <2>2, ThenSaveIs
  <2>3. ASSUME NEW k, NEW v, FetchReclaim(t, k, v, "push") PROVE my'[t].cmd = my[t].cmd
    BY <1>0, <2>3 DEF FetchReclaim, Locals
  <2> QED
    BY <1>5, <2>1, <2>2, <2>3
<1>7. pc[t] # "idle" /\ my[t].cmd.op \notin Copying \cup {"login"}
  BY <1>0, <1>3 DEF Placed, Reaches, Copying
<1>8. \A f : SavedNum(f)' = SavedNum(f)
  BY <1>2 DEF SavedNum
<1> QED
  BY <1>1, <1>2, <1>4, <1>6, <1>7, <1>8, OthersIdle

LEMMA LocationStepIdles ==
  ASSUME StoreInv, StoreInv', BackupsInv, NEW t \in Threads, LocationStep(t)
  PROVE  BackupsInv'
<1>0. TypeOK /\ Placed(t) /\ my \in [Threads -> Locals] /\ pc \in [Threads -> Labels]
      /\ api \in Apis
  BY DEF StoreInv, InCommand, TypeOK
<1>1. Only(t)
  BY LocationsQuiet
<1>2. /\ UNCHANGED <<disk, mem, loggedIn, unsettled>>
      /\ \/ pc[t] \in {"link", "list", "links", "unlock"}
         \/ my[t].cmd.op \in {"serve", "unserve", "remove-all", "list"}
  BY DEF LocationStep, StartWebdav, StartFtp, StartServer, Link, Unserve, RemoveAll, ListLocations,
     ListLinks, addWebdavLocation, addFtpLocation, AddLocation, removeWebdavLocation,
     removeFtpLocation, RemoveLocation, UnlockLocations, At, AtOp
<1>4. api'.backups = api.backups
  BY <1>0 DEF Apis, LocationStep, StartWebdav, StartFtp, StartServer, Link, Unserve, RemoveAll,
     ListLocations, ListLinks, addWebdavLocation, addFtpLocation, AddLocation, removeWebdavLocation,
     removeFtpLocation, RemoveLocation, UnlockLocations
<1>s. ASSUME NEW q, NEW r, ThenSave(t, q, r) PROVE my'[t].cmd = my[t].cmd
  BY <1>0, <1>s, ThenSaveIs
<1>l. ASSUME NEW q, NEW l, NEW w, NEW r,
             my' = [my EXCEPT ![t].pending = q, ![t].list = l, ![t].wiped = w, ![t].ret = r]
      PROVE  my'[t].cmd = my[t].cmd
  BY <1>0, <1>l DEF Locals
<1>a. ASSUME NEW p, AddLocation(t, p) PROVE my'[t].cmd = my[t].cmd
  <2>1. PICK list : my' = [my EXCEPT ![t].pending = <<<<p, list \cup {Path(t)}>>>>,
                                     ![t].list = list, ![t].wiped = (list # disk.cfg[p]),
                                     ![t].ret = "unlock"]
    BY <1>a DEF AddLocation
  <2> QED
    BY <1>l, <2>1
<1>r. ASSUME NEW p, NEW port, RemoveLocation(t, p, port) PROVE my'[t].cmd = my[t].cmd
  <2>1. PICK list : my' = [my EXCEPT
           ![t].pending = IF (list \ {Path(t)}) = {} THEN <<<<port, 0>>, <<p, list \ {Path(t)}>>>>
                                                    ELSE <<<<p, list \ {Path(t)}>>>>,
           ![t].list = list, ![t].wiped = (list # disk.cfg[p]), ![t].ret = "unlock"]
    BY <1>r DEF RemoveLocation
  <2> DEFINE q == IF (list \ {Path(t)}) = {} THEN <<<<port, 0>>, <<p, list \ {Path(t)}>>>>
                                             ELSE <<<<p, list \ {Path(t)}>>>>
             w == list # disk.cfg[p]
  <2>2. my' = [my EXCEPT ![t].pending = q, ![t].list = list, ![t].wiped = w, ![t].ret = "unlock"]
    BY <2>1
  <2> HIDE DEF q, w
  <2> QED
    BY <1>l, <2>2
<1>v. ASSUME NEW port, StartServer(t, port), ~Finish(t) PROVE my'[t].cmd = my[t].cmd
  BY <1>s, <1>v DEF StartServer
<1>5. Finish(t) \/ my'[t].cmd = my[t].cmd
  <2>1. CASE RemoveAll(t)
    BY <1>s, <2>1 DEF RemoveAll
  <2>2. CASE ListLocations(t)
    BY <1>0, <2>2 DEF ListLocations, Locals
  <2>3. CASE Link(t) \/ Unserve(t) \/ ListLinks(t) \/ UnlockLocations(t)
    BY <2>3 DEF Link, Unserve, ListLinks, UnlockLocations
  <2>4. CASE StartWebdav(t) \/ StartFtp(t)
    BY <1>v, <2>4 DEF StartWebdav, StartFtp
  <2>5. CASE addWebdavLocation(t) \/ addFtpLocation(t)
    BY <1>a, <2>5 DEF addWebdavLocation, addFtpLocation
  <2>6. CASE removeWebdavLocation(t) \/ removeFtpLocation(t)
    BY <1>r, <2>6 DEF removeWebdavLocation, removeFtpLocation
  <2> QED
    BY <2>1, <2>2, <2>3, <2>4, <2>5, <2>6 DEF LocationStep
<1>6. pc'[t] = "idle" \/ my'[t].cmd = my[t].cmd
  BY <1>0, <1>5 DEF Finish, Goto
<1>7. pc[t] # "idle" /\ my[t].cmd.op \notin Copying \cup {"login"}
  BY <1>0, <1>2 DEF Placed, Reaches, Copying, Locating
<1>8. \A f : SavedNum(f)' = SavedNum(f)
  BY <1>2 DEF SavedNum
<1> QED
  BY <1>1, <1>2, <1>4, <1>6, <1>7, <1>8, OthersIdle

(* megacmd.cfg is another file. *)
LEMMA RewritesIdles ==
  ASSUME StoreInv, StoreInv', BackupsInv, NEW t \in Threads, Rewrites(t)
  PROVE  BackupsInv'
<1>1. /\ Only(t) /\ Opens(t) /\ my'[t].cmd = my[t].cmd /\ disk'.writing = "cfg"
      /\ UNCHANGED <<mem, api, loggedIn>>
  BY RewritesTyped DEF Rest
<1>2. unsettled \subseteq unsettled' /\ pc'[t] = "writing" /\ disk.writing = "none"
  BY <1>1, ThreadsAssumption DEF Opens, StoreInv, Writers
<1>3. \A f : SavedNum(f)' = SavedNum(f)
  BY <1>1, <1>2, RewritesLocks DEF SavedNum
<1>4. CASE clearConfigurationFile(t)
  <2>1. my[t].cmd.op \notin Copying \cup {"login"} /\ pc[t] # "idle"
    BY <1>4, WritersAt DEF Copying
  <2> QED
    BY <1>1, <1>2, <1>3, <2>1, OthersIdle
<1>5. CASE saveProperty(t)
  <2>1. my'[t].ret = my[t].ret /\ pc[t] = "save" /\ my[t].cmd.op \notin Sessions
    BY <1>5, RewritesTyped, WritersAt
  <2>2. Point(t)' = Point(t) /\ my[t].cmd.op # "login"
    BY <1>2, <2>1 DEF Point, Sessions
  <2>3. Idles(t)
    BY <1>1, <1>2, <1>3 DEF Idles, Only, Follows
  <2> QED
    BY <1>1, <1>2, <2>1, <2>2, <2>3, IdlesKept
<1> QED
  BY <1>4, <1>5 DEF Rewrites

LEMMA EndWriteIdles ==
  ASSUME StoreInv, StoreInv', BackupsInv, NEW t \in Threads, EndWrite(t)
  PROVE  BackupsInv'
<1>0. TypeOK /\ my[t].ret \in Returns
  BY FieldsTyped DEF StoreInv
<1>1. /\ pc[t] = "writing"
      /\ \A u \in Threads \ {t} : pc'[u] = pc[u] /\ Same(my'[u], my[u])
      /\ pc'[t] = IF my[t].pending # <<>> THEN "save" ELSE my[t].ret
      /\ pc'[t] # "idle" => Same(my'[t], my[t])
      /\ disk'.writing = "none"
  BY EndWriteKeeps, EndWriteIs DEF GoesAfter, After
<1>2. UNCHANGED <<mem, api, loggedIn>> /\ unsettled \subseteq unsettled'
  BY EndWriteIs
<1>3. \A u \in Threads \ {t} :
         /\ my'[u].cmd = my[u].cmd /\ my'[u].ret = my[u].ret
         /\ my'[u].val = my[u].val /\ my'[u].list = my[u].list
  BY <1>1 DEF Same, Rest
<1>4. \A f \in Paths \ unsettled' : SavedNum(f)' = SavedNum(f)
  <2>1. CASE disk.writing = "backups"
    BY <1>1, <2>1, EndWriteIs DEF SavedNum
  <2>2. CASE disk.writing # "backups"
    BY <1>1, <2>2, EndWriteIs DEF SavedNum
  <2> QED
    BY <2>1, <2>2
<1>5. Idles(t)
  BY <1>1, <1>2, <1>3, <1>4 DEF Idles, Follows
<1>7. /\ Point(t) = my[t].ret /\ pc'[t] \notin {"register", "refused"}
      /\ pc'[t] = "idle" => Point(t) = "idle"
      /\ pc'[t] # "idle" => Point(t)' = Point(t) /\ my'[t].cmd = my[t].cmd /\ Point(t) # "resume"
  BY <1>0, <1>1 DEF Point, Returns, Same, Rest
<1> QED
  BY <1>1, <1>5, <1>7, IdlesKept DEF HasLoaded, Between

(* A command about a backup saves them all. *)
LEMMA CopySaved ==
  ASSUME StoreInv, BackupsInv, NEW t \in Threads, Idles(t), my[t].cmd.op \in Copying,
         pc[t] = "saveBackups", Point(t)' = "unlockBackups",
         pc'[t] \in {"writing", "unlockBackups"}, my'[t].cmd = my[t].cmd,
         \A f \in Paths \ unsettled' : SavedNum(f)' = mem.backups[f].num
  PROVE  BackupsInv'
<1>1. Point(t) = "saveBackups" /\ Path(t)' = Path(t) /\ my[t].cmd.op \notin {"login", "logout"}
  BY DEF Point, Path, Copying
<1>2. ASSUME NEW f \in Paths \ unsettled', BackupOn(t, f) PROVE BackupOn(t, f)'
  <2>1. Follows(f) /\ loggedIn' = loggedIn
    BY DEF Idles
  <2>2. CASE f = Path(t)
    <3>1. Numbered(f) /\ (Runs(f) => Configured(f))
      BY <1>1, <1>2, <2>2 DEF BackupOn, CopyingOn
    <3>2. IsSaved(f)' <=> Configured(f)
      BY <3>1 DEF IsSaved, Numbered
    <3>3. Backed(f)'
      BY <2>1, <3>1, <3>2, BackedFollows DEF Backed
    <3> QED
      BY <1>1, <2>2, <3>3 DEF BackupOn, CopyingOn, Backed
  <2>3. CASE f # Path(t)
    BY <1>1, <1>2, <2>1, <2>3, BackedFollows DEF BackupOn
  <2> QED
    BY <2>2, <2>3
<1>3. KeepsBackups(t)
  BY <1>1, <1>2 DEF KeepsBackups, BackupsInv, Works, Idles
<1> QED
  BY <1>3, BackupsInvIsKept DEF Idles, LeavesBackups

(* Which file is opened. *)
LEMMA OpensOtherFile ==
  ASSUME StoreInv, NEW t \in Threads, OpensOther(t)
  PROVE  /\ disk'.writing = "backups" \/ (disk'.writing = "syncs" /\ disk'.backups = disk.backups)
         /\ SaveBackups(t) => disk'.writing = "backups"
<1>0. TypeOK /\ Opens(t)
  BY OpensOtherTyped DEF StoreInv
<1>1. ASSUME NEW l, BeginWrite(t, "syncs", l)
      PROVE  disk'.writing = "syncs" /\ disk'.backups = disk.backups
  BY <1>0, <1>1 DEF BeginWrite, TypeOK, Disks
<1>2. ASSUME NEW file, NEW l, CannotOpen(t, file, l), UNCHANGED locks
      PROVE  FALSE
  BY <1>0, <1>2, ThreadsAssumption DEF Opens
<1>3. CASE loadsyncs(t)
  <2>1. ~SaveBackups(t)
    BY <1>3, WritersAt
  <2>2. ~Goto(t, "loadBackups")
    BY <1>0 DEF Opens, Goto, TypeOK
  <2>3. \E l : BeginWrite(t, "syncs", l)
    BY <1>2, <1>3, <2>2 DEF loadsyncs
  <2> QED
    BY <1>1, <2>1, <2>3
<1>4. CASE SavesOther(t)
  <2>1. PICK m : SavedOther(t, m)
    BY <1>4, SavesOtherTyped
  <2>2. disk'.writing = IF LogoutSyncs(t) THEN "syncs" ELSE "backups"
    BY <1>0, <2>1 DEF SavedOther, Opens
  <2>3. LogoutSyncs(t) => disk'.backups = disk.backups /\ ~SaveBackups(t)
    <3>1. LogoutSyncs(t) => \E l : BeginWrite(t, "syncs", l)
      BY <1>2 DEF LogoutSyncs, Saving
    <3> QED
      BY <1>1, <3>1, WritersAt
  <2> QED
    BY <2>2, <2>3
<1>5. CASE MigrateAnswer(t) /\ ~UNCHANGED pc
  <2>1. PICK entry \in my[t].sent : removeSyncConfig(t, entry)
    BY <1>5 DEF MigrateAnswer
  <2>2. disk' = [[disk EXCEPT !.cached = @ \cup {entry[1]}] EXCEPT !.syncs = {}, !.writing = "syncs"]
    BY <1>5, <2>1 DEF removeSyncConfig
  <2>3. disk'.writing = "syncs" /\ disk'.backups = disk.backups
    BY <1>0, <2>2 DEF TypeOK, Disks
  <2> QED
    BY <1>5, <2>3, WritersAt
<1> QED
  BY <1>3, <1>4, <1>5 DEF OpensOther

LEMMA OpensOtherIdles ==
  ASSUME StoreInv, StoreInv', BackupsInv, NEW t \in Threads, OpensOther(t)
  PROVE  BackupsInv'
<1>1. /\ Only(t) /\ Opens(t) /\ my'[t].cmd = my[t].cmd
      /\ UNCHANGED <<api, loggedIn, unsettled>> /\ mem'.backups = mem.backups
  BY OpensOtherTyped
<1>2. pc'[t] = "writing" /\ disk.writing = "none"
  BY <1>1, ThreadsAssumption DEF Opens, StoreInv, Writers
<1>3. /\ \A f \in Paths : SavedNum(f)' \in {SavedNum(f), mem.backups[f].num}
      /\ SaveBackups(t) => \A f \in Paths : SavedNum(f)' = mem.backups[f].num
  BY <1>1, <1>2, OpensOtherFile DEF SavedNum
<1>4. Idles(t)
  BY <1>1, <1>3 DEF Idles, Only, Follows
<1>5. Point(t)' = my'[t].ret
  BY <1>2 DEF Point
<1>6. CASE my[t].cmd.op = "login"
  <2>1. /\ pc[t] \in {"start", "migrating", "saveBackups"}
        /\ my'[t].ret \in {"loadBackups", "migrating", "unlockBackups"}
        /\ my'[t].ret = "loadBackups" <=> pc[t] = "start"
    BY <1>6, OpensOtherIs
  <2>2. Point(t) = pc[t]
    BY <2>1 DEF Point
  <2>3. HasLoaded(t)' = HasLoaded(t) /\ Point(t)' # "resume"
    BY <1>5, <2>1, <2>2 DEF HasLoaded
  <2> QED
    BY <1>1, <1>2, <1>4, <1>6, <2>1, <2>3, IdlesKept DEF Copying
<1>7. CASE my[t].cmd.op = "logout"
  <2>1. pc[t] # "idle"
    BY OpensOtherIs
  <2> QED
    BY <1>1, <1>2, <1>3, <1>7, <2>1, OthersIdle DEF Copying
<1>8. CASE my[t].cmd.op \in Copying
  <2>1. pc[t] = "saveBackups" /\ SaveBackups(t) /\ my'[t].ret = "unlockBackups"
    BY <1>8, OpensOtherIs DEF Copying
  <2> QED
    BY <1>1, <1>2, <1>3, <1>4, <1>5, <1>8, <2>1, CopySaved
<1> QED
  BY <1>6, <1>7, <1>8, OpensOtherIs

(* A file that cannot be opened stays as it was; the backups of which it    *)
(* says something else have been noted.                                     *)
LEMMA SkipsIdles ==
  ASSUME StoreInv, StoreInv', BackupsInv, NEW t \in Threads, Skips(t)
  PROVE  BackupsInv'
<1>1. /\ Only(t) /\ UNCHANGED <<mem, api, loggedIn, disk>> /\ locks["settings"] = Free
      /\ unsettled \subseteq unsettled'
      /\ pc'[t] # "idle" => my'[t].cmd = my[t].cmd
  BY SkipsTyped DEF Rest
<1>2. \A f : SavedNum(f)' = SavedNum(f) /\ SavedNum(f) = disk.backups[f]
  BY <1>1, ThreadsAssumption DEF SavedNum, StoreInv, Writers
<1>3. Idles(t)
  BY <1>1, <1>2 DEF Idles, Only, Follows
<1>4. CASE saveProperty(t)
  <2>1. /\ pc[t] = "save" /\ my[t].cmd.op \notin Sessions
        /\ pc'[t] = IF Tail(my[t].pending) # <<>> THEN "save" ELSE my[t].ret
        /\ pc'[t] # "idle" => my'[t].ret = my[t].ret
    BY <1>4, WritersAt, SkipsTyped
  <2>2. my[t].ret \in Returns /\ my[t].cmd.op # "login"
    BY <2>1, FieldsTyped DEF StoreInv, Sessions
  <2>3. /\ pc[t] # "idle" /\ pc'[t] \notin {"register", "refused"}
        /\ Point(t) = my[t].ret
        /\ pc'[t] = "idle" => Point(t) = "idle"
        /\ pc'[t] # "idle" => Point(t)' = Point(t)
    BY <2>1, <2>2 DEF Point, Returns
  <2> QED
    BY <1>1, <1>3, <2>2, <2>3, IdlesKept DEF Between
<1>5. CASE clearConfigurationFile(t) \/ LogoutBackups(t) \/ LogoutSyncs(t)
  <2>1. pc[t] # "idle" /\ my[t].cmd.op \notin Copying \cup {"login"}
    BY <1>5, WritersAt DEF Copying
  <2> QED
    BY <1>1, <1>2, <2>1, OthersIdle
<1>6. CASE SaveBackups(t)
  <2>1. /\ pc[t] = "saveBackups" /\ pc'[t] = "unlockBackups"
        /\ my[t].cmd.op \in Copying \cup {"login"} /\ ~LogoutSyncs(t)
        /\ \A f \in Paths : disk.backups[f] # mem.backups[f].num => f \in unsettled'
    BY <1>6, WritersAt, SkipsTyped DEF SavesOther
  <2>2. Point(t) = "saveBackups" /\ Point(t)' = "unlockBackups"
    BY <2>1 DEF Point
  <2>3. \A f \in Paths \ unsettled' : SavedNum(f)' = mem.backups[f].num
    BY <1>2, <2>1
  <2>4. CASE my[t].cmd.op \in Copying
    BY <1>1, <1>3, <2>1, <2>2, <2>3, <2>4, CopySaved
  <2>5. CASE my[t].cmd.op = "login"
    BY <1>1, <1>3, <2>1, <2>2, <2>5, IdlesKept DEF Copying, HasLoaded
  <2> QED
    BY <2>1, <2>4, <2>5
<1> QED
  BY <1>4, <1>5, <1>6 DEF Skips, SavesOther

(* The steps of a command about one backup. *)
LEMMA CopyKept ==
  ASSUME StoreInv, BackupsInv, NEW t \in Threads, Only(t), my[t].cmd.op \in Copying,
         pc[t] # "idle", \A f \in Paths \ {Path(t)} : Follows(f),
         unsettled' = unsettled, loggedIn' = loggedIn,
         pc'[t] \in {"register", "refused"} => my'[t].val # 0,
         \/ /\ pc'[t] # "idle" /\ my'[t].cmd = my[t].cmd
            /\ CopyingOn(t, Path(t)) => CopyingOn(t, Path(t))'
         \/ /\ pc'[t] = "idle"
            /\ \A f : f = Path(t) /\ CopyingOn(t, f) => Backed(f)'
  PROVE  BackupsInv'
<1>0. my[t].cmd.op # "login" /\ my[t].cmd.op \notin Sessions /\ Path(t) \in Touches(my[t].cmd)
  BY DEF Copying, Sessions, Touches, Path
<1>1. LeavesBackups(t)
  BY <1>0 DEF LeavesBackups, Only, Works
<1>2. ASSUME NEW f \in Paths \ {Path(t)}, BackupOn(t, f) PROVE Backed(f)'
  BY <1>0, <1>2, BackedFollows DEF BackupOn
<1>3. CASE /\ pc'[t] # "idle" /\ my'[t].cmd = my[t].cmd
           /\ CopyingOn(t, Path(t)) => CopyingOn(t, Path(t))'
  <2>1. Path(t)' = Path(t) /\ \A f : Works(t, f)' = Works(t, f)
    BY <1>3 DEF Path, Works
  <2>2. ASSUME NEW f \in Paths, BackupOn(t, f) PROVE BackupOn(t, f)'
    BY <1>0, <1>2, <1>3, <2>1, <2>2 DEF BackupOn
  <2>3. KeepsBackups(t)
    BY <2>1, <2>2 DEF KeepsBackups, BackupsInv
  <2> QED
    BY <1>1, <2>3, BackupsInvIsKept
<1>4. CASE /\ pc'[t] = "idle"
           /\ \A f : f = Path(t) /\ CopyingOn(t, f) => Backed(f)'
  <2>1. ASSUME NEW f \in Paths, BackupOn(t, f) PROVE Backed(f)'
    BY <1>0, <1>2, <1>4, <2>1 DEF BackupOn
  <2>2. KeepsBackups(t)
    BY <1>4, <2>1 DEF KeepsBackups, BackupsInv, Works
  <2> QED
    BY <1>1, <2>2, BackupsInvIsKept
<1> QED
  BY <1>3, <1>4

LEMMA BackupStepKept ==
  ASSUME StoreInv, StoreInv', BackupsInv, NEW t \in Threads, BackupStep(t)
  PROVE  BackupsInv'
<1>0. TypeOK /\ Placed(t) /\ my \in [Threads -> Locals] /\ pc \in [Threads -> Labels]
      /\ mem \in Memories /\ api \in Apis /\ disk \in Disks
  BY DEF StoreInv, InCommand, TypeOK
<1>1. Only(t) /\ Quiet(t)
  BY BackupsQuiet
<1>2. /\ pc[t] \in {"start", "register", "refused", "unlockBackups", "remove", "erase",
                    "eraseStopped"}
      /\ pc[t] # "unlockBackups" => my[t].cmd.op \in Copying
      /\ UNCHANGED <<disk, loggedIn, unsettled>>
  BY <1>0 DEF BackupStep, createOrModifyBackup, RegisterBackup, RefusedBackup, UnlockBackups,
     FindBackup, BackupNotFound, RemoveScheduledCopy, EraseBackup, EraseStoppedBackup, At, AtOp,
     Copying, Placed, Reaches
<1>3. Point(t) = pc[t] /\ pc[t] # "idle" /\ (my[t].cmd.op \in Copying => Path(t) \in Paths)
  BY <1>2, CommandIs DEF Point
<1>4. \A l : Goto(t, l) => pc'[t] = l
  BY <1>0 DEF Goto
<1>5. Finish(t) => pc'[t] = "idle"
  BY <1>4 DEF Finish
<1>6. ASSUME NEW f, mem'.backups[f] = mem.backups[f], api'.backups[f] = api.backups[f]
      PROVE  Follows(f)
  BY <1>2, <1>6 DEF Follows, SavedNum
<1>7. (\A f \in Paths : Follows(f)) => Idles(t)
  BY <1>1, <1>2 DEF Idles, Only
(* A step about the backup of the command alone. *)
<1>8. ASSUME my[t].cmd.op \in Copying, \A f \in Paths \ {Path(t)} : Follows(f),
             my'[t].cmd = my[t].cmd, pc'[t] # "idle",
             pc'[t] \in {"register", "refused"} => my'[t].val # 0,
             CopyingOn(t, Path(t)) => CopyingOn(t, Path(t))'
      PROVE  BackupsInv'
  BY <1>1, <1>2, <1>3, <1>8, CopyKept
<1>9. CASE createOrModifyBackup(t)
  <2>1. pc[t] = "start" /\ my[t].cmd.op \in Copying /\ UNCHANGED mem
    BY <1>9 DEF createOrModifyBackup, AtOp, At, Copying
  <2>2. CASE Finish(t) /\ UNCHANGED api
    BY <1>3, <1>5, <1>6, <1>7, <2>1, <2>2, IdlesKept DEF Between
  <2>3. CASE ~(Finish(t) /\ UNCHANGED api)
    <3>1. PICK num : /\ num # 0 /\ my' = [my EXCEPT ![t].val = num]
                     /\ \/ api' = [api EXCEPT !.backups[Path(t)] = num] /\ Goto(t, "register")
                        \/ UNCHANGED api /\ Goto(t, "refused")
      BY <1>9, <2>3 DEF createOrModifyBackup
    <3>2. my'[t].cmd = my[t].cmd /\ my'[t].val # 0 /\ Path(t)' = Path(t)
      BY <1>0, <3>1 DEF Locals, Path
    <3>3. \A f \in Paths \ {Path(t)} : Follows(f)
      BY <1>0, <1>6, <2>1, <3>1 DEF Apis
    <3>4. /\ pc'[t] \in {"register", "refused"} /\ Point(t)' = pc'[t]
          /\ pc'[t] = "refused" => UNCHANGED api
      BY <1>4, <3>1 DEF Point
    <3>5. ASSUME NEW f \in Paths, CopyingOn(t, f) PROVE CopyingOn(t, f)'
      <4>1. Backed(f) /\ Numbered(f)' = Numbered(f)
        BY <1>3, <2>1, <3>5 DEF CopyingOn, Numbered, Configured
      <4>2. UNCHANGED api => Backed(f)'
        BY <1>2, <1>6, <2>1, <4>1, BackedFollows
      <4> QED
        BY <3>4, <4>1, <4>2 DEF CopyingOn, Backed
    <3> QED
      BY <1>3, <1>8, <2>1, <3>2, <3>3, <3>4, <3>5
  <2> QED
    BY <2>2, <2>3
<1>10. CASE RegisterBackup(t)
  <2> DEFINE g == Path(t)
  <2>1. /\ pc[t] = "register" /\ my[t].cmd.op \in Copying /\ UNCHANGED api
        /\ mem' = [mem EXCEPT !.backups[g] = Registered(my[t].val)] /\ my[t].val # 0
    BY <1>2, <1>10 DEF RegisterBackup, At, BackupsInv
  <2>2. \A f \in Paths \ {g} : Follows(f)
    BY <1>0, <1>6, <2>1 DEF Memories
  <2>3. /\ my'[t].cmd = my[t].cmd /\ pc'[t] \in {"save", "saveBackups"}
        /\ Point(t)' = "saveBackups"
    <3>1. CASE Goto(t, "saveBackups") /\ UNCHANGED my
      BY <1>4, <3>1 DEF Point
    <3>2. CASE ThenSave(t, <<<<"firstBackupConfigured", 1>>>>, "saveBackups")
      <4>1. my'[t].cmd = my[t].cmd /\ my'[t].ret = "saveBackups" /\ Goto(t, "save")
        <5>1. \A q, r : ThenSave(t, q, r) => Goto(t, "save")
          BY DEF ThenSave
        <5> QED
          BY <1>0, <3>2, <5>1, ThenSaveIs
      <4> QED
        BY <1>4, <4>1 DEF Point
    <3> QED
      BY <1>10, <3>1, <3>2 DEF RegisterBackup
  <2>4. mem'.backups[g] = Registered(my[t].val)
    BY <1>0, <1>3, <2>1 DEF Memories
  <2>5. Configured(g)' /\ Numbered(g)'
    BY <2>1, <2>3, <2>4 DEF Configured, Numbered, Registered, NoBackup, Path
  <2>6. g' = g /\ CopyingOn(t, g)'
    BY <2>3, <2>5 DEF CopyingOn, Path
  <2> QED
    BY <1>8, <2>1, <2>2, <2>3, <2>6
<1>11. CASE RefusedBackup(t)
  <2> DEFINE g == Path(t)
  <2>1. /\ pc[t] = "refused" /\ my[t].cmd.op \in Copying /\ UNCHANGED api /\ my[t].val # 0
        /\ pc'[t] = "idle"
    BY <1>2, <1>5, <1>11 DEF RefusedBackup, At, BackupsInv
  <2>2. CASE mem' = mem
    BY <1>3, <1>6, <1>7, <2>1, <2>2, IdlesKept DEF Between
  <2>3. CASE mem.backups[g].tagged /\ mem' = [mem EXCEPT !.backups[g].num = my[t].val]
    <3>1. \A f \in Paths \ {g} : Follows(f)
      BY <1>0, <1>6, <2>1, <2>3 DEF Memories
    <3>2. mem'.backups[g].num = my[t].val /\ mem'.backups[g].tagged
      BY <1>0, <1>3, <2>1, <2>3 DEF Memories, Backups
    <3>3. ASSUME NEW f, f = g, CopyingOn(t, f) PROVE Backed(f)'
      <4>1. Backed(f) /\ Configured(f)
        BY <1>3, <2>1, <2>3, <3>3 DEF CopyingOn, Configured, NoBackup
      <4>2. Configured(f)' /\ Numbered(f)'
        BY <2>1, <3>2, <3>3 DEF Configured, Numbered, NoBackup
      <4>3. IsSaved(f) => IsSaved(f)'
        BY <1>2, <2>1, <3>2, <3>3 DEF IsSaved, SavedNum
      <4> QED
        BY <4>1, <4>2, <4>3 DEF Backed
    <3> QED
      BY <1>1, <1>2, <1>3, <2>1, <3>1, <3>3, CopyKept
  <2> QED
    BY <1>11, <2>2, <2>3 DEF RefusedBackup
<1>12. CASE UnlockBackups(t)
  <2>1. pc[t] = "unlockBackups" /\ UNCHANGED <<mem, api>>
    BY <1>12 DEF UnlockBackups, At
  <2>2. CASE Finish(t)
    BY <1>3, <1>5, <1>6, <1>7, <2>1, <2>2, IdlesKept DEF Between
  <2>3. CASE my[t].cmd.op = "login" /\ Goto(t, "webdav") /\ UNCHANGED my
    <3>1. pc'[t] = "webdav" /\ Point(t)' = "webdav" /\ my'[t].cmd = my[t].cmd
      BY <1>4, <2>3 DEF Point
    <3> QED
      BY <1>3, <1>6, <1>7, <2>1, <3>1, IdlesKept DEF Between, HasLoaded
  <2> QED
    BY <1>12, <2>2, <2>3 DEF UnlockBackups
<1>13. CASE FindBackup(t)
  <2>1. pc[t] = "start" /\ my[t].cmd.op \in Copying /\ UNCHANGED <<mem, api>>
    BY <1>13 DEF FindBackup, AtOp, At, Copying
  <2>2. my'[t].cmd = my[t].cmd /\ Path(t)' = Path(t)
    <3>1. \E b : my' = [my EXCEPT ![t].found = b]
      BY <1>13 DEF FindBackup
    <3> QED
      BY <1>0, <3>1 DEF Locals, Path
  <2>3. CASE Goto(t, "remove")
    <3>1. pc'[t] = "remove" /\ Point(t)' = "remove"
      BY <1>4, <2>3 DEF Point
    <3> QED
      BY <1>3, <1>6, <1>7, <2>1, <2>2, <3>1, IdlesKept DEF Between, Copying
  <2>4. CASE Goto(t, "eraseStopped") /\ api.backups[Path(t)] = 0
    <3>1. pc'[t] = "eraseStopped" /\ Point(t)' = "eraseStopped"
      BY <1>4, <2>4 DEF Point
    <3>2. CopyingOn(t, Path(t)) => CopyingOn(t, Path(t))'
      BY <2>1, <2>2, <2>4, <3>1 DEF CopyingOn, Runs, Numbered, Configured
    <3> QED
      BY <1>6, <1>8, <2>1, <2>2, <3>1, <3>2
  <2> QED
    BY <1>13, <2>3, <2>4 DEF FindBackup
<1>14. CASE BackupNotFound(t)
  <2>1. pc[t] = "start" /\ my[t].cmd.op \in Copying /\ UNCHANGED <<mem, api>> /\ pc'[t] = "idle"
    BY <1>5, <1>14 DEF BackupNotFound, AtOp, At, Copying
  <2> QED
    BY <1>3, <1>6, <1>7, <2>1, IdlesKept DEF Between
<1>15. CASE RemoveScheduledCopy(t)
  <2>1. pc[t] = "remove" /\ my[t].cmd.op \in Copying /\ UNCHANGED mem
    BY <1>2, <1>15 DEF RemoveScheduledCopy, At
  <2>2. CASE Finish(t) /\ UNCHANGED api
    BY <1>3, <1>5, <1>6, <1>7, <2>1, <2>2, IdlesKept DEF Between
  <2>3. CASE api' = [api EXCEPT !.backups[Path(t)] = 0] /\ Goto(t, "erase") /\ UNCHANGED my
    <3>1. pc'[t] = "erase" /\ Point(t)' = "erase" /\ Path(t)' = Path(t) /\ my'[t].cmd = my[t].cmd
      BY <1>4, <2>3 DEF Point, Path
    <3>2. \A f \in Paths \ {Path(t)} : Follows(f)
      BY <1>0, <1>6, <2>1, <2>3 DEF Apis
    <3>3. CopyingOn(t, Path(t)) => CopyingOn(t, Path(t))'
      BY <1>0, <1>3, <2>1, <2>3, <3>1 DEF CopyingOn, Runs, Numbered, Configured, Apis
    <3> QED
      BY <1>8, <2>1, <3>1, <3>2, <3>3
  <2> QED
    BY <1>15, <2>2, <2>3 DEF RemoveScheduledCopy
<1>16. CASE EraseBackup(t) \/ EraseStoppedBackup(t)
  <2> DEFINE g == Path(t)
  <2>1. /\ pc[t] \in {"erase", "eraseStopped"} /\ my[t].cmd.op \in Copying /\ UNCHANGED <<api, my>>
        /\ UNCHANGED mem \/ mem' = [mem EXCEPT !.backups[g] = NoBackup]
        /\ pc'[t] = "saveBackups"
    BY <1>2, <1>4, <1>16 DEF EraseBackup, EraseStoppedBackup, At
  <2>2. \A f \in Paths \ {g} : Follows(f)
    BY <1>0, <1>6, <2>1 DEF Memories
  <2>3. Point(t)' = "saveBackups" /\ Path(t)' = Path(t) /\ my'[t].cmd = my[t].cmd
    BY <2>1 DEF Point, Path
  <2>4. CopyingOn(t, Path(t)) => CopyingOn(t, Path(t))'
    <3>1. CASE UNCHANGED mem
      BY <1>3, <2>1, <2>3, <3>1 DEF CopyingOn, Runs, Numbered, Configured
    <3>2. CASE mem'.backups[g] = NoBackup
      BY <1>3, <2>1, <2>3, <3>2 DEF CopyingOn, Runs, Numbered, Configured, NoBackup
    <3> QED
      BY <1>0, <1>3, <2>1, <3>1, <3>2 DEF Memories
  <2> QED
    BY <1>8, <2>1, <2>2, <2>3, <2>4
<1> QED
  BY <1>9, <1>10, <1>11, <1>12, <1>13, <1>14, <1>15, <1>16 DEF BackupStep

LEMMA LoginStepIdles ==
  ASSUME StoreInv, StoreInv', BackupsInv, NEW t \in Threads, LoginStep(t)
  PROVE  BackupsInv'
<1>0. TypeOK /\ Placed(t) /\ my \in [Threads -> Locals] /\ pc \in [Threads -> Labels]
      /\ mem \in Memories /\ api \in Apis /\ disk \in Disks
  BY DEF StoreInv, InCommand, TypeOK
<1>1. Only(t) /\ Quiet(t)
  BY LoginQuiet
<1>l. loadsyncs(t) /\ pc'[t] # "writing" =>
        /\ UNCHANGED <<api, loggedIn, unsettled>> /\ disk' = disk /\ mem'.backups = mem.backups
        /\ my'[t].cmd = my[t].cmd /\ pc[t] = "start" /\ pc'[t] = "loadBackups"
        /\ my[t].cmd.op = "login"
  BY LoadSyncsTyped DEF Rest, loadsyncs, AtOp, At
<1>2. unsettled \subseteq unsettled' /\ disk'.backups = disk.backups /\ disk'.writing = disk.writing
  <2>1. CASE loadsyncs(t) /\ pc'[t] # "writing"
    BY <1>l, <2>1
  <2>2. CASE MigrateAnswer(t) /\ UNCHANGED pc
    <3>1. ~Goto(t, "writing")
      BY <1>0, <2>2 DEF Goto, MigrateAnswer, At
    <3> QED
      BY <1>0, <2>2, <3>1 DEF MigrateAnswer, removeSyncConfig, Disks
  <2>3. CASE ~(MigrateAnswer(t) /\ UNCHANGED pc) /\ ~(loadsyncs(t) /\ pc'[t] # "writing")
    <3>1. \/ disk' = disk
          \/ \E i : disk' = [disk EXCEPT !.ignore = i]
          \/ disk' = [disk EXCEPT !.excluded = FALSE]
      BY <2>3 DEF LoginStep, loadbackups, transitionLegacyExclusionRules,
         AddFilters, HideLegacyFile, ApplyRead, ApplySet, ApplyPush, migrateSyncConfig,
         ResumeBackups, ResumeBackup, RestartWebdav, RestartFtp, unloadConfiguration
    <3>2. unsettled \subseteq unsettled'
      BY <2>3 DEF LoginStep, loadbackups, transitionLegacyExclusionRules,
         AddFilters, HideLegacyFile, ApplyRead, ApplySet, ApplyPush, migrateSyncConfig,
         ResumeBackups, ResumeBackup, RestartWebdav, RestartFtp, unloadConfiguration
    <3> QED
      BY <1>0, <3>1, <3>2 DEF Disks
  <2> QED
    BY <2>1, <2>2, <2>3 DEF LoginStep
<1>4. \A l : Goto(t, l) => pc'[t] = l
  BY <1>0 DEF Goto
<1>6. ASSUME NEW f, mem'.backups[f] = mem.backups[f], api'.backups[f] = api.backups[f]
      PROVE  Follows(f)
  BY <1>2, <1>6 DEF Follows, SavedNum
(* A session works on every backup. *)
<1>7. ASSUME my[t].cmd.op \in Sessions, loggedIn' = loggedIn \/ my[t].cmd.op \in Sessions
      PROVE  LeavesBackups(t)
  BY <1>1, <1>2, <1>7, SessionsWorkAll DEF LeavesBackups, Only
<1>8. ASSUME my[t].cmd.op \in Sessions, pc[t] # "idle", my'[t].cmd = my[t].cmd,
             pc'[t] \notin {"idle", "register", "refused"},
             \A f \in Paths \ unsettled' : BackupOn(t, f) => BackupOn(t, f)'
      PROVE  BackupsInv'
  <2>1. \A f : Works(t, f)' = Works(t, f)
    BY <1>8 DEF Works
  <2>2. KeepsBackups(t)
    BY <1>2, <1>8, <2>1 DEF KeepsBackups, BackupsInv
  <2> QED
    BY <1>7, <1>8, <2>2, BackupsInvIsKept
<1>9. CASE unloadConfiguration(t)
  <2>1. /\ my[t].cmd.op \in {"logout", "logout-keep"} /\ UNCHANGED my /\ ~loggedIn' /\ pc[t] = "start"
        /\ pc'[t] \in {"logoutBackups", "clear"}
        /\ \A f \in Paths : mem'.backups[f] = NoBackup /\ api'.backups[f] = 0
    BY <1>0, <1>4, <1>9 DEF unloadConfiguration, At, Memories, Apis
  <2>2. \A f \in Paths : Backed(f)'
    BY <2>1 DEF Backed, Numbered, Configured, Runs, NoBackup
  <2>3. \A f \in Paths : BackupOn(t, f)'
    BY <2>1, <2>2 DEF BackupOn, Copying
  <2> QED
    BY <1>8, <2>1, <2>3 DEF Sessions
<1> SUFFICES ASSUME ~unloadConfiguration(t) PROVE BackupsInv'
  BY <1>9
<1>10. /\ my[t].cmd.op = "login" /\ my[t].cmd.op \in Sessions /\ my[t].cmd.op \notin Copying
       /\ pc[t] \in LoginLabels \cup {"start", "push"}
       /\ Point(t) = pc[t] /\ pc[t] # "idle"
  <2>1. pc[t] \in LoginLabels \/ (pc[t] \in {"start", "push"} /\ my[t].cmd.op = "login")
    BY DEF LoginStep, loadsyncs, loadbackups, transitionLegacyExclusionRules, AddFilters,
       HideLegacyFile, ApplyRead, ApplySet, ApplyPush, migrateSyncConfig, MigrateAnswer,
       ResumeBackups, ResumeBackup, RestartWebdav, RestartFtp, At, AtOp, LoginLabels
  <2> QED
    BY <1>0, <2>1 DEF Placed, Reaches, Point, LoginLabels, Sessions, Copying
<1>11. ASSUME NEW f, BackupOn(t, f) PROVE ResumingOn(t, f)
  BY <1>10, <1>11 DEF BackupOn
<1>12. ASSUME NEW f, my'[t].cmd = my[t].cmd, ResumingOn(t, f)' PROVE BackupOn(t, f)'
  BY <1>10, <1>12 DEF BackupOn
<1>13. CASE loadbackups(t)
  <2>1. /\ pc[t] = "loadBackups" /\ UNCHANGED <<my, api, loggedIn>> /\ pc'[t] = "transition"
        /\ disk.writing = "none" /\ Point(t)' = "transition"
    <3>1. pc[t] = "loadBackups" /\ UNCHANGED <<my, api, loggedIn>> /\ pc'[t] = "transition"
          /\ locks["settings"] = Free
      BY <1>4, <1>13 DEF loadbackups, At
    <3> QED
      BY <3>1 DEF Point, StoreInv, Writers
  <2>r. PICK read :
           /\ mem' = [mem EXCEPT !.backups = [f \in Paths |-> IF read[f] = 0 THEN @[f]
                                                ELSE [num |-> read[f], tagged |-> FALSE]]]
           /\ unsettled' = unsettled \cup Differing(disk.backups, read)
    BY <1>13 DEF loadbackups
  <2>2. \A f \in Paths \ unsettled' :
          mem'.backups[f] = IF disk.backups[f] = 0 THEN mem.backups[f]
                            ELSE [num |-> disk.backups[f], tagged |-> FALSE]
    <3>1. \A f \in Paths \ unsettled' : disk.backups[f] = read[f]
      BY <1>0, <2>r, DifferingIs DEF Disks
    <3>2. \A f \in Paths : mem'.backups[f] = IF read[f] = 0 THEN mem.backups[f]
                                              ELSE [num |-> read[f], tagged |-> FALSE]
      BY <1>0, <2>r DEF Memories
    <3> QED
      BY <3>1, <3>2
  <2>3. ASSUME NEW f \in Paths \ unsettled', ResumingOn(t, f) PROVE ResumingOn(t, f)'
    <3>1. SavedNum(f)' = SavedNum(f) /\ SavedNum(f) = disk.backups[f]
      BY <1>2, <2>1 DEF SavedNum
    <3>2. CASE disk.backups[f] = 0
      BY <1>2, <2>1, <2>2, <2>3, <3>1, <3>2
         DEF ResumingOn, Backed, Numbered, Configured, Runs, IsSaved
    <3>3. CASE disk.backups[f] # 0
      <4>0. mem'.backups[f] = [num |-> disk.backups[f], tagged |-> FALSE]
        BY <2>2, <3>3
      <4>1. mem'.backups[f].num # 0
        BY <3>3, <4>0
      <4>2. Configured(f)' /\ Numbered(f)' /\ IsSaved(f)'
        BY <3>1, <3>3, <4>1 DEF Configured, Numbered, NoBackup, IsSaved
      <4> QED
        BY <2>1, <4>2 DEF ResumingOn, Backed
    <3> QED
      BY <3>2, <3>3
  <2> QED
    BY <1>8, <1>10, <1>11, <1>12, <2>1, <2>3
<1>14. CASE ResumeBackups(t)
  <2>1. /\ pc[t] = "migrating" /\ UNCHANGED <<mem, api, loggedIn>>
        /\ pc'[t] \in {"unlockBackups", "resume"} /\ Point(t)' = pc'[t]
        /\ my' = [my EXCEPT ![t].list = {f \in Paths : mem.backups[f] # NoBackup}]
    BY <1>4, <1>14 DEF ResumeBackups, At, Point
  <2>2. my'[t].cmd = my[t].cmd /\ \A f \in my'[t].list : Configured(f)
    BY <1>0, <2>1 DEF Locals, Configured
  <2>3. ASSUME NEW f \in Paths, ResumingOn(t, f) PROVE ResumingOn(t, f)'
    <3>1. Follows(f) /\ Numbered(f)
      BY <1>6, <2>1, <2>3 DEF ResumingOn, Backed
    <3>2. HasLoaded(t) /\ HasLoaded(t)'
      BY <1>10, <2>1 DEF HasLoaded
    <3> QED
      BY <2>1, <2>2, <2>3, <3>1, <3>2, BackedFollows DEF ResumingOn
  <2> QED
    BY <1>8, <1>10, <1>11, <1>12, <2>1, <2>2, <2>3
<1>15. CASE ResumeBackup(t) /\ my[t].list # {}
  <2>1. PICK g \in my[t].list :
           /\ my' = [my EXCEPT ![t].list = @ \ {g}]
           /\ \/ /\ api' = [api EXCEPT !.backups[g] = mem.backups[g].num]
                 /\ mem' = [mem EXCEPT !.backups[g].tagged = TRUE]
              \/ UNCHANGED <<mem, api>>
    BY <1>15 DEF ResumeBackup
  <2>2. UNCHANGED <<pc, loggedIn>> /\ pc[t] = "resume" /\ g \in Paths
    BY <1>0, <1>15, FieldsTyped DEF ResumeBackup, At
  <2>3. /\ my'[t].cmd = my[t].cmd /\ my'[t].list = my[t].list \ {g} /\ Point(t) = "resume"
        /\ Point(t)' = "resume"
    BY <1>0, <1>10, <2>1, <2>2 DEF Locals, Point
  <2>4. \A f \in Paths \ {g} : Follows(f)
    BY <1>0, <1>6, <2>1 DEF Memories, Apis
  <2>5. ASSUME NEW f \in Paths, ResumingOn(t, f) PROVE ResumingOn(t, f)'
    <3>0. HasLoaded(t) /\ HasLoaded(t)'
      BY <2>3 DEF HasLoaded
    <3>1. CASE Follows(f)
      <4>1. Numbered(f)
        BY <2>5 DEF ResumingOn, Backed
      <4> QED
        BY <2>2, <2>3, <2>5, <3>0, <3>1, <4>1, BackedFollows DEF ResumingOn
    <3>2. CASE f = g /\ ~UNCHANGED <<mem, api>>
      <4>1. Configured(f) /\ Backed(f) /\ mem.backups[f].num # 0
        BY <2>3, <2>5, <3>2 DEF ResumingOn, Backed, Numbered
      <4>2. mem'.backups[f].num = mem.backups[f].num /\ mem'.backups[f].tagged
        BY <1>0, <2>1, <3>2 DEF Memories, Backups
      <4>3. Configured(f)' /\ Numbered(f)' /\ IsSaved(f)' = IsSaved(f)
        BY <1>2, <4>1, <4>2 DEF Configured, Numbered, NoBackup, IsSaved, SavedNum
      <4> QED
        BY <2>3, <4>1, <4>3 DEF ResumingOn, Backed
    <3> QED
      BY <1>6, <2>1, <2>4, <3>1, <3>2
  <2> QED
    BY <1>8, <1>10, <1>11, <1>12, <2>2, <2>3, <2>5
<1>16. CASE RestartFtp(t)
  <2>1. /\ pc[t] = "ftp" /\ pc'[t] = "idle" /\ loggedIn' = TRUE /\ UNCHANGED mem
        /\ api'.backups = api.backups
    BY <1>0, <1>4, <1>16 DEF RestartFtp, RestartServer, Finish, At, Apis
  <2>2. ASSUME NEW f \in Paths, BackupOn(t, f) PROVE Backed(f)'
    <3>1. Backed(f) /\ (IsSaved(f) => Configured(f))
      BY <1>10, <1>11, <2>1, <2>2 DEF ResumingOn, HasLoaded
    <3>2. Follows(f) /\ Numbered(f)
      BY <1>6, <2>1, <3>1 DEF Backed
    <3> QED
      BY <3>1, <3>2, BackedFollows DEF Backed
  <2>3. KeepsBackups(t)
    BY <1>2, <2>1, <2>2 DEF KeepsBackups, Works, BackupsInv
  <2> QED
    BY <1>7, <1>10, <2>3, BackupsInvIsKept
<1>17. CASE \/ loadsyncs(t) /\ pc'[t] # "writing"
            \/ transitionLegacyExclusionRules(t) \/ AddFilters(t) \/ HideLegacyFile(t)
            \/ ApplyRead(t) \/ ApplySet(t) \/ ApplyPush(t)
            \/ migrateSyncConfig(t)
            \/ MigrateAnswer(t) /\ UNCHANGED pc
            \/ ResumeBackup(t) /\ my[t].list = {}
            \/ RestartWebdav(t)
  <2>1. /\ mem'.backups = mem.backups /\ api'.backups = api.backups /\ loggedIn' = loggedIn
    BY <1>0, <1>l, <1>17 DEF transitionLegacyExclusionRules, AddFilters, HideLegacyFile,
       ApplyRead, ApplySet, ApplyPush, migrateSyncConfig, MigrateAnswer, removeSyncConfig,
       ResumeBackup, RestartWebdav, RestartServer, FetchReclaim, PushReclaim, Push, Memories, Apis
  <2>2. /\ pc'[t] = "loadBackups" <=> pc[t] = "start"
        /\ pc[t] # "loadBackups"
        /\ pc'[t] \notin {"start", "idle", "save", "writing", "resume", "register", "refused"}
    <3>1. \/ pc[t] = "start" /\ pc'[t] = "loadBackups"
          \/ /\ pc[t] \in LoginLabels \cup {"push"} /\ pc[t] # "loadBackups"
             /\ \/ UNCHANGED pc /\ pc[t] = "migrating"
                \/ \E l \in {"addFilters", "hide", "apply", "set", "push", "migrate", "migrating",
                             "saveBackups", "ftp"} : Goto(t, l)
      <4>1. CASE loadsyncs(t) /\ pc'[t] # "writing"
        BY <1>l, <4>1
      <4>2. CASE transitionLegacyExclusionRules(t) \/ AddFilters(t) \/ HideLegacyFile(t)
        BY <4>2 DEF transitionLegacyExclusionRules, AddFilters, HideLegacyFile, At, LoginLabels
      <4>3. CASE ApplyRead(t)
        <5>1. Goto(t, "migrate") \/ Goto(t, "apply") \/ Goto(t, "set")
          BY <4>3 DEF ApplyRead
        <5> QED
          BY <4>3, <5>1 DEF ApplyRead, At, LoginLabels
      <4>4. CASE ApplySet(t) \/ ApplyPush(t)
        BY <4>4 DEF ApplySet, ApplyPush, FetchReclaim, At, AtOp, LoginLabels
      <4>5. CASE \/ migrateSyncConfig(t)
                 \/ MigrateAnswer(t) /\ UNCHANGED pc
                 \/ ResumeBackup(t) /\ my[t].list = {}
                 \/ RestartWebdav(t)
        BY <4>5 DEF migrateSyncConfig, MigrateAnswer, ResumeBackup, RestartWebdav, At, LoginLabels
      <4> QED
        BY <1>17, <4>1, <4>2, <4>3, <4>4, <4>5
    <3> QED
      BY <1>4, <3>1 DEF LoginLabels
  <2>3. my'[t].cmd = my[t].cmd
    <3> SUFFICES ASSUME ~(loadsyncs(t) /\ pc'[t] # "writing") PROVE my'[t].cmd = my[t].cmd
      BY <1>l
    <3>1. \/ UNCHANGED my
          \/ \E l : my' = [my EXCEPT ![t].ret = l]
          \/ \E i, v : my' = [my EXCEPT ![t].i = i, ![t].val = v]
          \/ \E v : my' = [my EXCEPT ![t].snap = v]
          \/ \E e : my' = [my EXCEPT ![t].sent = e]
          \/ \E e, l : my' = [my EXCEPT ![t].sent = e, ![t].ret = l]
      <4>1. CASE transitionLegacyExclusionRules(t) \/ AddFilters(t) \/ HideLegacyFile(t)
        BY <4>1 DEF transitionLegacyExclusionRules, AddFilters, HideLegacyFile
      <4>2. CASE ApplyRead(t)
        <5>1. UNCHANGED my \/ \E v : my' = [my EXCEPT ![t].i = my[t].i + 1, ![t].val = v]
          BY <4>2 DEF ApplyRead
        <5> QED
          BY <5>1
      <4>3. CASE ApplySet(t) \/ ApplyPush(t)
        BY <4>3 DEF ApplySet, ApplyPush, FetchReclaim
      <4>4. CASE \/ migrateSyncConfig(t)
                 \/ ResumeBackup(t) /\ my[t].list = {}
                 \/ RestartWebdav(t)
        BY <4>4 DEF migrateSyncConfig, ResumeBackup, RestartWebdav
      <4>5. CASE MigrateAnswer(t)
        <5>1. PICK entry \in my[t].sent :
                 \/ my' = [my EXCEPT ![t].sent = @ \ {entry}, ![t].ret = "migrating"]
                 \/ my' = [my EXCEPT ![t].sent = @ \ {entry}]
          BY <4>5 DEF MigrateAnswer, removeSyncConfig
        <5> QED
          BY <5>1
      <4> QED
        BY <1>17, <4>1, <4>2, <4>3, <4>4, <4>5
    <3> QED
      BY <1>0, <3>1 DEF Locals
  <2>4. HasLoaded(t)' = HasLoaded(t) /\ Point(t)' # "resume"
    BY <1>10, <2>2 DEF HasLoaded, Point
  <2>5. Idles(t)
    BY <1>1, <1>2, <1>6, <2>1 DEF Idles, Only
  <2> QED
    BY <1>10, <2>2, <2>3, <2>4, <2>5, IdlesKept
<1> QED
  BY <1>13, <1>14, <1>15, <1>16, <1>17 DEF LoginStep

LEMMA BackupsInvKept ==
  ASSUME StoreInv, BackupsInv, [Next]_vars
  PROVE  BackupsInv'
<1>0. StoreInv'
  BY StoreInvKept
<1>1. ASSUME NEW t \in Threads,
             QuietStep(t) \/ Rewrites(t) \/ OpensOther(t) \/ Skips(t) \/ EndWrite(t)
      PROVE  BackupsInv'
  BY <1>0, <1>1, StartIdles, SettingStepIdles, LocationStepIdles, BackupStepKept, LoginStepIdles,
     RewritesIdles, OpensOtherIdles, SkipsIdles, EndWriteIdles DEF QuietStep
<1>2. CASE Crash
  <2>1. /\ pc' = [t \in Threads |-> "idle"] /\ ~loggedIn' /\ api'.backups = [f \in Paths |-> 0]
        /\ mem'.backups = [f \in Paths |-> NoBackup]
    BY <1>2 DEF Crash, FreshApi, StoreInv, TypeOK, Memories
  <2>2. \A f \in Paths : Backed(f)'
    BY <2>1 DEF Backed, Numbered, Configured, Runs, NoBackup
  <2>3. \A t \in Threads : pc'[t] = "idle" /\ \A f : ~Works(t, f)'
    BY <2>1 DEF Works
  <2> QED
    BY <2>2, <2>3 DEF BackupsInv
<1>3. CASE Restart \/ UNCHANGED vars
  <2>1. UNCHANGED <<pc, my, disk, locks, mem, api, loggedIn, unsettled>>
    BY <1>3 DEF Restart, vars
  <2>2. /\ \A f : SavedNum(f)' = SavedNum(f) /\ Configured(f)' = Configured(f) /\ Runs(f)' = Runs(f)
                 /\ Numbered(f)' = Numbered(f) /\ Busy(f)' = Busy(f)
        /\ \A t : /\ Point(t)' = Point(t) /\ Path(t)' = Path(t)
                 /\ \A f : Works(t, f)' = Works(t, f)
    BY <2>1 DEF SavedNum, Configured, Runs, Numbered, Busy, Point, Path, Works
  <2>3. \A f : IsSaved(f)' = IsSaved(f) /\ Backed(f)' = Backed(f)
    BY <2>1, <2>2 DEF IsSaved, Backed
  <2>4. \A t, f : BackupOn(t, f)' = BackupOn(t, f)
    <3>1. \A t : HasLoaded(t)' = HasLoaded(t)
      BY <2>2 DEF HasLoaded
    <3>2. \A t, f : CopyingOn(t, f)' = CopyingOn(t, f)
      BY <2>2, <2>3 DEF CopyingOn
    <3>3. \A t, f : ResumingOn(t, f)' = ResumingOn(t, f)
      BY <2>1, <2>2, <2>3, <3>1 DEF ResumingOn
    <3> QED
      BY <2>1, <2>2, <2>3, <3>2, <3>3 DEF BackupOn
  <2> QED
    BY <2>1, <2>2, <2>3, <2>4 DEF BackupsInv
<1> QED
  BY <1>1, <1>2, <1>3, StepsAre DEF Done

(* A backup that no two commands fought about is in the file exactly when   *)
(* it is configured, and configured when it runs, once nobody is changing   *)
(* it: a removal, a resumption or a refused request leaves no trace of it.  *)
(* Not so, until the process ends, are the backups that saveBackups could   *)
(* not write or loadbackups not read.                                       *)
THEOREM BackupsAgreeHolds ==
  Spec => []BackupsAgree
<1>1. Init => BackupsInv
  <2> SUFFICES ASSUME Init PROVE BackupsInv
    OBVIOUS
  <2>1. \A t \in Threads : pc[t] = "idle" /\ \A f : ~Works(t, f)
    BY DEF Init, InitProcess, Works
  <2>2. \A f \in Paths : Backed(f)
    BY DEF Init, InitProcess, FreshApi, Backed, Numbered, Configured, Runs, NoBackup
  <2> QED
    BY <2>1, <2>2 DEF BackupsInv
<1>2. StoreInv /\ BackupsInv /\ [Next]_vars => BackupsInv'
  BY BackupsInvKept
<1>3. BackupsInv => BackupsAgree
  BY DEF BackupsInv, BackupsAgree, Backed, Configured, Runs, IsSaved, SavedNum
<1> QED
  BY <1>1, <1>2, <1>3, StoreInvHolds, PTL DEF Spec

=============================================================================
