-------------------------- MODULE AutoUpdateProofs --------------------------
(***************************************************************************)
(* Proofs about AutoUpdate and the UpdateTask it extends, for any files,    *)
(* releases, callers, threads and numbers of faults and crashes.            *)
(*                                                                         *)
(* The threads of the server can only start an updater, so the invariant is *)
(* one of the updater: what it has downloaded and not installed yet is what *)
(* is published (Downloaded), and the files it has been through are in the  *)
(* backup folder as they were, the others in place (Undoable).              *)
(***************************************************************************)
EXTENDS AutoUpdate, SequenceTheorems, FiniteSetTheorems, TLAPS

-----------------------------------------------------------------------------
(* The inductive invariant *)

Distinct(list) == \A j, k \in 1 .. Len(list) : list[j] = list[k] => j = k

Typed ==
    /\ release \in Releases
    /\ target \in Releases
    /\ app \in [Files -> Releases \cup {Absent}]
    /\ backup \in [Files -> Releases \cup {Absent}]
    /\ before \in [Files -> Releases \cup {Absent}]
    /\ update \in [Files -> Contents]
    /\ todo \in Seq(Files)
    /\ Distinct(todo)
    /\ i \in Nat
    /\ updater \in {"none", "cleanup", "download", "fetch", "backup", "install", "finish",
                    "rollback", "restore"}

(* The position of the updater in its list. *)
InList ==
    /\ updater = "cleanup" => i = 1
    /\ updater \in {"download", "backup"} => i # 0
    /\ updater \in {"fetch", "install", "rollback", "restore"} => i \in 1 .. Len(todo)

IsDownloaded(j) == update[todo[j]] = Published(target, todo[j])

Downloaded ==
    /\ updater \in {"download", "fetch"} =>
          \A j \in 1 .. Len(todo) : j < i => IsDownloaded(j)
    /\ updater \in {"backup", "install"} =>
          \A j \in 1 .. Len(todo) : j >= i => IsDownloaded(j)

Upto(n) == {todo[j] : j \in {k \in 1 .. Len(todo) : k <= n}}

(* The files that nothing but the rollback's own moves has touched. *)
Movable == Files \ unmoved

Saved(n) ==
    /\ \A f \in Upto(n) \cap Movable : backup[f] = before[f]
    /\ \A f \in Movable \ Upto(n) : app[f] = before[f]

NoneSavedAfter(n) == \A f \in Movable \ Upto(n) : backup[f] = Absent

Undoable ==
    /\ updater \in {"download", "fetch"} => \A f \in Movable : backup[f] = Absent
    /\ updater = "backup" => Saved(i - 1) /\ NoneSavedAfter(i - 1)
    /\ updater = "install" => Saved(i) /\ NoneSavedAfter(i)
    /\ updater \in {"rollback", "restore"} /\ failed = "install" => Saved(i)
    /\ updater = "install" => app[File] = Absent
    /\ updater = "restore" => app[File] = Absent \/ File \in unmoved

IInv ==
    /\ Typed
    /\ InList
    /\ Downloaded
    /\ Undoable

-----------------------------------------------------------------------------
(* The list of the files to download *)

(* Induction: the theorems of the library take the induction hypothesis as  *)
(* an operator; here it is a set.  A set that were to miss a number would   *)
(* map the numbers below it, one-to-one, into one less of them.             *)
LEMMA Induction ==
  ASSUME NEW T, 0 \in T, \A n \in Nat : n \in T => n + 1 \in T
  PROVE  Nat \subseteq T
<1> SUFFICES ASSUME NEW x \in Nat, x \notin T PROVE FALSE
  OBVIOUS
<1> DEFINE A == {n \in 0 .. x : n \in T}
           B == A \ {0}
           f == [n \in A |-> n + 1]
<1>1. A \in SUBSET (0 .. x) /\ 0 \in A
  OBVIOUS
<1>2. IsFiniteSet(A)
  <2> HIDE DEF A
  <2>1. IsFiniteSet(0 .. x)
    BY FS_Interval
  <2> QED
    BY <1>1, <2>1, FS_Subset
<1>3. f \in [A -> B]
  OBVIOUS
<1>4. Cardinality(B) = Cardinality(A) - 1 /\ IsFiniteSet(B) /\ Cardinality(A) \in Nat
  BY <1>1, <1>2, FS_RemoveElement, FS_CardinalityType
<1>5. PICK m \in A, n \in A : m # n /\ f[m] = f[n]
  <2> HIDE DEF f, A, B
  <2> QED
    BY <1>2, <1>3, <1>4, FS_PigeonHole
<1> QED
  BY <1>5

(* What the first k files of v.txt add to the list, for every k. *)
IsListing(l) ==
    /\ l[0] = <<>>
    /\ \A k \in 1 .. Len(FileOrder) :
          l[k] = IF alreadyInstalled(FileOrder[k]) THEN l[k - 1]
                 ELSE Append(l[k - 1], FileOrder[k])

(* Up to any number there is a function that obeys the recursion. *)
LEMMA ListingExists ==
  \E l \in [0 .. Len(FileOrder) -> Seq(Files)] : IsListing(l)
<1> DEFINE Item(l, k) == IF alreadyInstalled(FileOrder[k]) THEN l[k - 1]
                         ELSE Append(l[k - 1], FileOrder[k])
           Listed(l, n) == l[0] = <<>> /\ \A k \in 1 .. n : l[k] = Item(l, k)
           P(n) == n <= Len(FileOrder) => \E l \in [0 .. n -> Seq(Files)] : Listed(l, n)
           T == {n \in Nat : P(n)}
<1>0. FileOrder \in Seq(Files) /\ Len(FileOrder) \in Nat
  BY UpdateAssumption
<1>1. 0 \in T
  <2>1. [k \in 0 .. 0 |-> <<>>] \in [0 .. 0 -> Seq(Files)]
    OBVIOUS
  <2>2. Listed([k \in 0 .. 0 |-> <<>>], 0)
    OBVIOUS
  <2>3. P(0)
    BY <2>1, <2>2
  <2> HIDE DEF P
  <2> QED
    BY <2>3
<1>2. ASSUME NEW n \in Nat, n \in T PROVE n + 1 \in T
  <2> SUFFICES ASSUME n + 1 <= Len(FileOrder)
               PROVE  \E l \in [0 .. n + 1 -> Seq(Files)] : Listed(l, n + 1)
    <3>1. SUFFICES P(n + 1)
      <4> HIDE DEF P
      <4> QED
        OBVIOUS
    <3> QED
      OBVIOUS
  <2>1. P(n) /\ n <= Len(FileOrder)
    <3>1. P(n)
      <4> HIDE DEF P
      <4> QED
        BY <1>2
    <3>2. n <= Len(FileOrder)
      BY <1>0
    <3> HIDE DEF P
    <3> QED
      BY <3>1, <3>2
  <2>2. PICK l \in [0 .. n -> Seq(Files)] : Listed(l, n)
    <3> HIDE DEF Listed
    <3> QED
      BY <2>1
  <2> DEFINE v == IF alreadyInstalled(FileOrder[n + 1]) THEN l[n]
                  ELSE Append(l[n], FileOrder[n + 1])
             g == [k \in 0 .. n + 1 |-> IF k = n + 1 THEN v ELSE l[k]]
  <2>3. v \in Seq(Files)
    BY <1>0
  <2>4. g \in [0 .. n + 1 -> Seq(Files)]
    BY <2>3
  <2>5. g[0] = <<>>
    BY <2>2
  <2>6. ASSUME NEW k \in 1 .. n + 1 PROVE g[k] = Item(g, k)
    <3>1. CASE k = n + 1
      BY <3>1
    <3>2. CASE k # n + 1
      BY <2>2, <3>2
    <3> QED
      BY <3>1, <3>2
  <2> HIDE DEF g
  <2> QED
    BY <2>4, <2>5, <2>6
<1>3. Nat \subseteq T
  <2> HIDE DEF T
  <2> QED
    BY <1>1, <1>2, Induction
<1>4. P(Len(FileOrder))
  <2>1. Len(FileOrder) \in T
    <3> HIDE DEF T
    <3> QED
      BY <1>0, <1>3
  <2> HIDE DEF P
  <2> QED
    BY <2>1
<1> QED
  BY <1>4 DEF IsListing

(* The recursive function in Lacking is one of them. *)
LEMMA LackingIs ==
  \E l : IsListing(l) /\ Lacking = l[Len(FileOrder)]
<1> DEFINE Body(f) == [k \in 0 .. Len(FileOrder) |->
                          IF k = 0 THEN <<>>
                          ELSE IF alreadyInstalled(FileOrder[k]) THEN f[k - 1]
                          ELSE Append(f[k - 1], FileOrder[k])]
           h == CHOOSE f : f = Body(f)
<1>0. Len(FileOrder) \in Nat
  BY UpdateAssumption
<1>1. PICK l \in [0 .. Len(FileOrder) -> Seq(Files)] : IsListing(l)
  BY ListingExists
<1>2. l = Body(l)
  <2>1. ASSUME NEW k \in 0 .. Len(FileOrder)
        PROVE  l[k] = IF k = 0 THEN <<>>
                      ELSE IF alreadyInstalled(FileOrder[k]) THEN l[k - 1]
                      ELSE Append(l[k - 1], FileOrder[k])
    <3>1. CASE k = 0
      BY <1>1, <3>1 DEF IsListing
    <3>2. CASE k # 0
      <4>1. k \in 1 .. Len(FileOrder)
        BY <1>0, <3>2
      <4> QED
        BY <1>1, <3>2, <4>1 DEF IsListing
    <3> QED
      BY <3>1, <3>2
  <2>2. l = [k \in 0 .. Len(FileOrder) |-> l[k]]
    OBVIOUS
  <2> QED
    BY <2>1, <2>2
<1>3. h = Body(h)
  <2> HIDE DEF Body
  <2> QED
    BY <1>2
<1>4. Lacking = h[Len(FileOrder)]
  BY DEF Lacking
<1>5. IsListing(h)
  <2> HIDE DEF h
  <2>1. \A k \in 0 .. Len(FileOrder) :
           h[k] = IF k = 0 THEN <<>>
                  ELSE IF alreadyInstalled(FileOrder[k]) THEN h[k - 1]
                  ELSE Append(h[k - 1], FileOrder[k])
    BY <1>3
  <2> QED
    BY <1>0, <2>1 DEF IsListing
<1> QED
  BY <1>4, <1>5

(* It lists files of the installation, each of them once. *)
LEMMA LackingListsFiles ==
  Lacking \in Seq(Files) /\ Distinct(Lacking)
<1>0. FileOrder \in Seq(Files) /\ Len(FileOrder) \in Nat
  BY UpdateAssumption
<1>1. PICK l : IsListing(l) /\ Lacking = l[Len(FileOrder)]
  BY LackingIs
<1> DEFINE Lists(n) == /\ l[n] \in Seq(Files)
                       /\ Distinct(l[n])
                       /\ \A j \in 1 .. Len(l[n]) : \E m \in 1 .. n : l[n][j] = FileOrder[m]
           T == {n \in Nat : n <= Len(FileOrder) => Lists(n)}
<1>2. 0 \in T
  <2>1. l[0] = <<>> /\ <<>> \in Seq(Files) /\ Len(<<>>) = 0
    BY <1>1 DEF IsListing
  <2>2. l[0] \in Seq(Files) /\ Len(l[0]) = 0 /\ 1 .. Len(l[0]) = {}
    BY <2>1
  <2>3. Distinct(l[0])
    BY <2>2 DEF Distinct
  <2>4. Lists(0)
    BY <2>2, <2>3
  <2> HIDE DEF Lists
  <2> QED
    BY <2>4
<1>3. ASSUME NEW n \in Nat, n \in T PROVE n + 1 \in T
  <2> SUFFICES ASSUME n + 1 <= Len(FileOrder) PROVE Lists(n + 1)
    OBVIOUS
  <2>1. Lists(n) /\ n + 1 \in 1 .. Len(FileOrder)
    BY <1>0, <1>3
  <2>2. l[n + 1] = IF alreadyInstalled(FileOrder[n + 1]) THEN l[n]
                   ELSE Append(l[n], FileOrder[n + 1])
    BY <1>1, <2>1 DEF IsListing
  <2>3. CASE l[n + 1] = l[n]
    <3>1. \A j \in 1 .. Len(l[n]) : \E m \in 1 .. n + 1 : l[n][j] = FileOrder[m]
      BY <2>1
    <3> QED
      BY <2>1, <2>3, <3>1
  <2>4. CASE l[n + 1] = Append(l[n], FileOrder[n + 1])
    <3> DEFINE s == l[n]
               x == FileOrder[n + 1]
               r == l[n + 1]
    <3>1. x \in Files /\ s \in Seq(Files) /\ Len(s) \in Nat
      BY <1>0, <2>1
    <3>2. /\ r \in Seq(Files) /\ Len(r) = Len(s) + 1
          /\ \A j \in 1 .. Len(s) : r[j] = s[j]
          /\ r[Len(s) + 1] = x
      BY <2>4, <3>1
    <3>3. \A j \in 1 .. Len(s) : s[j] # x
      <4> SUFFICES ASSUME NEW j \in 1 .. Len(s) PROVE s[j] # x
        OBVIOUS
      <4>1. PICK m \in 1 .. n : s[j] = FileOrder[m]
        BY <2>1
      <4>2. m \in DOMAIN FileOrder /\ n + 1 \in DOMAIN FileOrder /\ m # n + 1
        BY <1>0, <2>1
      <4> QED
        BY <4>1, <4>2, UpdateAssumption
    <3>4. \A j \in 1 .. Len(s) : \E m \in 1 .. n + 1 : s[j] = FileOrder[m]
      BY <2>1
    <3>5. x = FileOrder[n + 1] /\ n + 1 \in 1 .. n + 1 /\ Distinct(s)
      BY <2>1
    <3> HIDE DEF s, x, r
    <3>6. Distinct(r)
      BY <3>1, <3>2, <3>3, <3>5 DEF Distinct
    <3>7. \A j \in 1 .. Len(r) : \E m \in 1 .. n + 1 : r[j] = FileOrder[m]
      BY <3>1, <3>2, <3>4, <3>5
    <3> QED
      BY <3>2, <3>6, <3>7 DEF r
  <2> QED
    BY <2>2, <2>3, <2>4
<1>4. Nat \subseteq T
  <2> HIDE DEF T
  <2> QED
    BY <1>2, <1>3, Induction
<1>5. Lists(Len(FileOrder))
  BY <1>0, <1>4
<1> QED
  BY <1>1, <1>5

-----------------------------------------------------------------------------
(* Contents, and the files up to a position *)

LEMMA ContentsAre ==
  /\ Releases \subseteq Contents /\ Absent \in Contents /\ Empty \in Contents
  /\ Damaged \in Contents /\ Absent \notin Releases
  /\ 1 \in Releases
  /\ \A r \in Releases : \A f : Published(r, f) \in Releases \cup {Empty}
BY UpdateAssumption DEF Releases, Contents, Absent, Empty, Damaged, Published

LEMMA UptoIs ==
  ASSUME Typed, NEW n \in 1 .. Len(todo)
  PROVE  /\ todo[n] \in Files
         /\ Upto(n) = Upto(n - 1) \cup {todo[n]}
         /\ todo[n] \notin Upto(n - 1)
<1>1. todo \in Seq(Files) /\ Len(todo) \in Nat /\ todo[n] \in Files
  BY DEF Typed
<1>2. {k \in 1 .. Len(todo) : k <= n} = {k \in 1 .. Len(todo) : k <= n - 1} \cup {n}
  BY <1>1
<1>3. n \notin {k \in 1 .. Len(todo) : k <= n - 1}
  BY <1>1
<1>4. \A j \in 1 .. Len(todo) : todo[j] = todo[n] => j = n
  BY DEF Typed, Distinct
<1> QED
  BY <1>1, <1>2, <1>3, <1>4 DEF Upto

LEMMA UptoNone == Upto(0) = {}
BY DEF Upto

(* What an updater has not got its hands on is as it was. *)
LEMMA AtRest ==
  ASSUME Typed', updater' \in {"none", "finish"}
  PROVE  IInv'
BY DEF IInv, InList, Downloaded, Undoable

LEMMA EndOfList ==
  ASSUME NEW result, EndWith(result)
  PROVE  todo' \in Seq(Files) /\ Distinct(todo)' /\ i' \in Nat
BY DEF EndWith, Distinct

LEMMA EndTyped ==
  ASSUME Typed, NEW result, EndWith(result),
         UNCHANGED <<release, target, app, backup, before>>,
         update' \in [Files -> Contents]
  PROVE  Typed'
BY EndOfList DEF Typed, EndWith

LEMMA InitIInv == Init => IInv
<1> SUFFICES ASSUME Init PROVE IInv
  OBVIOUS
<1>1. todo \in Seq(Files) /\ Distinct(todo)
  BY DEF Init, UpdaterInit, Distinct
<1>2. Typed
  BY <1>1, ContentsAre DEF Init, UpdaterInit, Typed
<1> QED
  BY <1>2 DEF Init, UpdaterInit, IInv, InList, Downloaded, Undoable

-----------------------------------------------------------------------------
(* Starting, publishing, crashing *)

LEMMA PublishKeeps ==
  ASSUME IInv, Publish
  PROVE  IInv'
<1>1. release' \in Releases
  BY UpdateAssumption DEF Publish, IInv, Typed, Releases
<1> QED
  BY <1>1 DEF Publish, IInv, Typed, InList, Downloaded, IsDownloaded, Undoable, Saved,
     NoneSavedAfter, Movable, Upto, File, Distinct, diskVars, taskVars

LEMMA checkForUpdatesKeeps ==
  ASSUME IInv, NEW only, NEW version, checkForUpdates(only, version)
  PROVE  IInv'
<1>1. CASE updater' = "cleanup"
  <2>1. /\ todo' = Lacking /\ i' = 1 /\ target' = release
        /\ UNCHANGED <<release, diskVars, before>>
    BY <1>1 DEF checkForUpdates, EndWith
  <2>2. Typed'
    BY <1>1, <2>1, LackingListsFiles DEF IInv, Typed, Distinct, diskVars
  <2> QED
    BY <1>1, <2>1, <2>2 DEF IInv, InList, Downloaded, Undoable
<1>2. CASE updater' # "cleanup"
  <2>1. EndWith("no update") /\ UNCHANGED <<release, target, app, backup, before, update>>
    BY <1>2 DEF checkForUpdates, diskVars
  <2>2. Typed'
    BY <2>1, EndTyped DEF IInv, Typed
  <2> QED
    BY <2>1, <2>2, AtRest DEF EndWith
<1> QED
  BY <1>1, <1>2

LEMMA CrashKeeps ==
  ASSUME IInv, Crash
  PROVE  IInv'
<1>1. update' \in [Files -> Contents]
  BY ContentsAre DEF Crash, IInv, Typed, InList
<1>2. Typed'
  BY <1>1, EndTyped DEF Crash, IInv
<1> QED
  BY <1>2, AtRest DEF Crash, EndWith

-----------------------------------------------------------------------------
(* Downloading *)

LEMMA initialCleanupKeeps ==
  ASSUME IInv, initialCleanup
  PROVE  IInv'
<1>1. Typed'
  BY DEF initialCleanup, IInv, Typed, Distinct, taskVars
<1>2. CASE updater' = updater
  BY <1>1, <1>2 DEF initialCleanup, IInv, InList, Downloaded, Undoable
<1>3. CASE /\ updater' = "download" /\ UNCHANGED backup
           /\ \A f \in Files : backup[f] = Absent \/ f \in unmoved'
  <2>1. i = 1 /\ i' = 1
    BY DEF initialCleanup, IInv, InList
  <2>2. Downloaded' /\ InList'
    BY <1>1, <1>3, <2>1 DEF Downloaded, InList, Typed
  <2> QED
    BY <1>1, <1>3, <2>2 DEF IInv, Undoable, Movable, Typed
<1> QED
  BY <1>2, <1>3 DEF initialCleanup

LEMMA RemoveStaleKeeps ==
  ASSUME IInv, RemoveStale
  PROVE  IInv'
<1>1. /\ updater = "download" /\ i \in 1 .. Len(todo) /\ todo[i] \in Files
      /\ UNCHANGED <<release, app, backup, taskVars, before, failed, unmoved>>
  BY DEF RemoveStale, IInv, Typed, InList
<1>2. CASE alreadyDownloaded
  <2>1. i' = i + 1 /\ UNCHANGED <<updater, update>>
    BY <1>2 DEF RemoveStale
  <2>2. Typed' /\ InList'
    BY <1>1, <2>1 DEF IInv, Typed, Distinct, InList, taskVars
  <2>3. IsDownloaded(i)
    BY <1>2 DEF alreadyDownloaded, IsDownloaded, File
  <2>4. \A j \in 1 .. Len(todo) : j < i + 1 => IsDownloaded(j)
    BY <1>1, <2>3 DEF IInv, Downloaded, Typed
  <2>5. Downloaded'
    BY <1>1, <2>1, <2>4 DEF Downloaded, IsDownloaded, taskVars
  <2> QED
    BY <1>1, <2>1, <2>2, <2>5 DEF IInv, Undoable, Movable
<1>3. CASE ~alreadyDownloaded
  <2>1. /\ update' = [update EXCEPT ![todo[i]] = Absent]
        /\ updater' = "fetch" /\ i' = i
    BY <1>3 DEF RemoveStale, File
  <2>2. Typed' /\ InList'
    BY <1>1, <2>1, ContentsAre DEF IInv, Typed, Distinct, InList, taskVars
  <2>3. \A j \in 1 .. Len(todo) : j < i => todo[j] # todo[i] /\ todo[j] \in Files
    BY <1>1 DEF IInv, Typed, Distinct
  <2>4. Downloaded'
    BY <1>1, <2>1, <2>3 DEF IInv, Typed, Downloaded, IsDownloaded, taskVars
  <2> QED
    BY <1>1, <2>1, <2>2, <2>4 DEF IInv, Undoable, Movable
<1> QED
  BY <1>2, <1>3

LEMMA downloadFileKeeps ==
  ASSUME IInv, downloadFile
  PROVE  IInv'
<1>0. /\ updater = "fetch"
      /\ UNCHANGED <<release, app, backup, noInstall, target, before, failed, unmoved>>
  BY DEF downloadFile
<1>1. i \in 1 .. Len(todo) /\ todo[i] \in Files
  BY <1>0 DEF IInv, Typed, InList
<1>2. CASE updater' = "download"
  <2>1. /\ update' = [update EXCEPT ![todo[i]] = Published(target, todo[i])]
        /\ i' = i + 1 /\ todo' = todo
    BY <1>2 DEF downloadFile, EndWith, File
  <2>2. Typed' /\ InList'
    BY <1>0, <1>1, <1>2, <2>1, ContentsAre DEF IInv, Typed, Distinct, InList
  <2>3. \A j \in 1 .. Len(todo) : todo[j] \in Files
    BY DEF IInv, Typed
  <2>4. Downloaded'
    BY <1>0, <1>1, <1>2, <2>1, <2>3 DEF IInv, Typed, Downloaded, IsDownloaded
  <2> QED
    BY <1>0, <1>1, <1>2, <2>2, <2>4 DEF IInv, Undoable, Movable
<1>3. CASE updater' # "download"
  <2>1. EndWith("no update")
        /\ \E c \in {Absent, Damaged} : update' = [update EXCEPT ![todo[i]] = c]
    BY <1>3 DEF downloadFile, File
  <2>2. update' \in [Files -> Contents]
    BY <2>1, ContentsAre DEF IInv, Typed
  <2>3. Typed'
    BY <1>0, <1>1, <2>1, <2>2, EndTyped DEF IInv
  <2> QED
    BY <2>1, <2>3, AtRest DEF EndWith
<1> QED
  BY <1>2, <1>3

LEMMA DownloadsDoneKeeps ==
  ASSUME IInv, DownloadsDone
  PROVE  IInv'
<1>1. CASE updater' = "backup"
  <2>1. /\ updater = "download" /\ i > Len(todo) /\ i' = 1 /\ before' = app
        /\ UNCHANGED <<release, diskVars, target, todo, failed, unmoved>>
    BY <1>1 DEF DownloadsDone, EndWith
  <2>2. Typed' /\ InList'
    BY <1>1, <2>1 DEF IInv, Typed, Distinct, InList, diskVars
  <2>3. \A j \in 1 .. Len(todo) : IsDownloaded(j)
    BY <2>1 DEF IInv, Typed, Downloaded
  <2>4. Downloaded'
    BY <1>1, <2>1, <2>3 DEF Downloaded, IsDownloaded, diskVars
  <2>5. Upto(0)' = {} /\ i' - 1 = 0
    BY <2>1 DEF Upto
  <2>6. /\ \A f \in Files : app'[f] = before'[f]
        /\ \A f \in Movable' : backup'[f] = Absent
    BY <2>1 DEF IInv, Undoable, Movable, diskVars
  <2>7. Undoable'
    BY <1>1, <2>5, <2>6 DEF Undoable, Saved, NoneSavedAfter, Movable
  <2> QED
    BY <2>2, <2>4, <2>7 DEF IInv
<1>2. CASE updater' # "backup"
  <2>1. EndWith("updated") /\ UNCHANGED <<release, target, app, backup, before, update>>
    BY <1>2 DEF DownloadsDone, diskVars
  <2>2. Typed'
    BY <2>1, EndTyped DEF IInv, Typed
  <2> QED
    BY <2>1, <2>2, AtRest DEF EndWith
<1> QED
  BY <1>1, <1>2

-----------------------------------------------------------------------------
(* Installing *)

LEMMA BackUpKeeps ==
  ASSUME IInv, BackUp
  PROVE  IInv'
<1>1. /\ updater = "backup" /\ i \in 1 .. Len(todo)
      /\ UNCHANGED <<release, update, taskVars, i, before, unmoved>>
  BY DEF BackUp, IInv, Typed, InList
<1>2. todo[i] \in Files /\ Upto(i) = Upto(i - 1) \cup {todo[i]} /\ todo[i] \notin Upto(i - 1)
  BY <1>1, UptoIs DEF IInv
<1>3. Saved(i - 1) /\ NoneSavedAfter(i - 1)
  BY <1>1 DEF IInv, Undoable
<1>4. \A n : Upto(n)' = Upto(n)
  BY <1>1 DEF Upto, taskVars
<1>5. CASE updater' = "install"
  <2>1. IF app[todo[i]] = Absent
        THEN UNCHANGED <<app, backup>>
        ELSE /\ backup' = [backup EXCEPT ![todo[i]] = app[todo[i]]]
             /\ app' = [app EXCEPT ![todo[i]] = Absent]
    BY <1>5 DEF BackUp, File
  <2>2. Typed' /\ InList'
    BY <1>1, <1>2, <1>5, <2>1 DEF IInv, Typed, Distinct, InList, taskVars
  <2>3. Downloaded'
    BY <1>1, <1>5 DEF IInv, Downloaded, IsDownloaded, taskVars
  <2>4. /\ app'[todo[i]] = Absent
        /\ todo[i] \in Movable => backup'[todo[i]] = before[todo[i]]
    BY <1>2, <1>3, <2>1 DEF Saved, NoneSavedAfter, IInv, Typed, Movable
  <2>5. \A f \in Files \ {todo[i]} : app'[f] = app[f] /\ backup'[f] = backup[f]
    BY <1>2, <2>1 DEF IInv, Typed
  <2>6. Upto(i - 1) \subseteq Files
    BY <1>1 DEF Upto, IInv, Typed
  <2>7. Saved(i)' /\ NoneSavedAfter(i)'
    BY <1>1, <1>2, <1>3, <1>4, <2>4, <2>5, <2>6 DEF Saved, NoneSavedAfter, Movable
  <2>8. Undoable'
    BY <1>1, <1>5, <2>4, <2>7 DEF Undoable, File, taskVars
  <2> QED
    BY <2>2, <2>3, <2>8 DEF IInv
<1>6. CASE updater' # "install"
  <2>1. updater' = "rollback" /\ failed' = "backup" /\ UNCHANGED <<app, backup>>
    BY <1>6 DEF BackUp
  <2>2. Typed' /\ InList'
    BY <1>1, <2>1 DEF IInv, Typed, Distinct, InList, taskVars
  <2> QED
    BY <2>1, <2>2 DEF IInv, Downloaded, Undoable
<1> QED
  BY <1>5, <1>6

LEMMA InstallKeeps ==
  ASSUME IInv, Install
  PROVE  IInv'
<1>1. updater = "install" /\ UNCHANGED <<release, backup, taskVars, before, unmoved>>
  BY DEF Install
<1>2. i \in 1 .. Len(todo) /\ todo[i] \in Files
  BY <1>1 DEF IInv, Typed, InList
<1>3. /\ Saved(i) /\ NoneSavedAfter(i) /\ app[todo[i]] = Absent
      /\ todo[i] \in Upto(i)
  BY <1>1, <1>2, UptoIs DEF IInv, Undoable, File
<1>4. \A n : Upto(n)' = Upto(n)
  BY <1>1 DEF Upto, taskVars
<1>5. \A j \in 1 .. Len(todo) : j >= i => IsDownloaded(j)
  BY <1>1 DEF IInv, Downloaded
<1>6. update[todo[i]] \in Releases \cup {Empty}
  BY <1>2, <1>5, ContentsAre DEF IsDownloaded, IInv, Typed
<1>7. CASE updater' = "backup"
  <2>1. /\ i' = i + 1
        /\ \/ UNCHANGED <<app, update>>
           \/ /\ update[todo[i]] \in Releases
              /\ app' = [app EXCEPT ![todo[i]] = update[todo[i]]]
              /\ update' = [update EXCEPT ![todo[i]] = Absent]
    BY <1>6, <1>7 DEF Install, File
  <2>2. app' \in [Files -> Releases \cup {Absent}] /\ update' \in [Files -> Contents]
    BY <1>2, <2>1, ContentsAre DEF IInv, Typed
  <2>3. Typed' /\ InList'
    BY <1>1, <1>2, <1>7, <2>1, <2>2 DEF IInv, Typed, Distinct, InList, taskVars
  <2>4. \A f \in Files \ {todo[i]} : app'[f] = app[f] /\ update'[f] = update[f]
    BY <1>2, <2>1 DEF IInv, Typed
  <2>5. \A j \in 1 .. Len(todo) : j >= i + 1 => todo[j] \in Files \ {todo[i]} /\ j >= i
    BY <1>2 DEF IInv, Typed, Distinct
  <2>6. Downloaded'
    BY <1>1, <1>5, <1>7, <2>1, <2>4, <2>5 DEF Downloaded, IsDownloaded, taskVars
  <2>7. Upto(i - 1)' = Upto(i)
    BY <1>1, <1>2, <2>1 DEF Upto, taskVars
  <2>8. Saved(i - 1)' /\ NoneSavedAfter(i - 1)'
    BY <1>1, <1>3, <2>4, <2>7 DEF Saved, NoneSavedAfter, Movable
  <2>9. Undoable'
    BY <1>7, <2>8 DEF Undoable
  <2> QED
    BY <2>3, <2>6, <2>9 DEF IInv
<1>8. CASE updater' # "backup"
  <2>1. updater' = "rollback" /\ UNCHANGED <<app, update, i>>
    BY <1>8 DEF Install
  <2>2. Typed' /\ InList'
    BY <1>1, <1>2, <2>1 DEF IInv, Typed, Distinct, InList, taskVars
  <2>3. Saved(i)'
    BY <1>1, <1>3, <1>4, <2>1 DEF Saved, Movable
  <2> QED
    BY <2>1, <2>2, <2>3 DEF IInv, Downloaded, Undoable
<1> QED
  BY <1>7, <1>8

LEMMA FinishKeeps ==
  ASSUME IInv, InstallsDone \/ finalCleanup
  PROVE  IInv'
<1>1. Typed' /\ updater' \in {"none", "finish"}
  <2>1. CASE InstallsDone
    BY <2>1 DEF InstallsDone, IInv, Typed, Distinct, diskVars, taskVars
  <2>2. CASE finalCleanup /\ updater' = updater
    <3>1. /\ \E f \in Files : update' = [update EXCEPT ![f] = Absent]
          /\ UNCHANGED <<release, app, backup, target, before, todo, i>>
      BY <2>2 DEF finalCleanup, EndWith, IInv, Typed, taskVars
    <3>2. update' \in [Files -> Contents]
      BY <3>1, ContentsAre DEF IInv, Typed
    <3>3. updater' = "finish"
      BY <2>2 DEF finalCleanup
    <3> QED
      BY <3>1, <3>2, <3>3 DEF IInv, Typed, Distinct
  <2>3. CASE finalCleanup /\ updater' # updater
    <3>1. EndWith("updated") /\ UNCHANGED <<release, target, app, backup, before, update>>
      BY <2>3 DEF finalCleanup
    <3>2. Typed'
      BY <3>1, EndTyped DEF IInv, Typed
    <3> QED
      BY <3>1, <3>2 DEF EndWith
  <2> QED
    BY <2>1, <2>2, <2>3
<1> QED
  BY <1>1, AtRest

-----------------------------------------------------------------------------
(* Rolling back *)

LEMMA TakeBackKeeps ==
  ASSUME IInv, TakeBack
  PROVE  IInv'
<1>1. /\ updater = "rollback" /\ updater' = "restore"
      /\ UNCHANGED <<release, backup, taskVars, i, before, failed>>
      /\ unmoved \subseteq unmoved'
  BY DEF TakeBack, NothingToMove, RenameFails, diskVars
<1>2. i \in 1 .. Len(todo) /\ todo[i] \in Files /\ todo[i] \in Upto(i)
  BY <1>1, UptoIs DEF IInv, Typed, InList
<1>3. \/ UNCHANGED <<app, update>> /\ (app[todo[i]] = Absent \/ todo[i] \in unmoved')
      \/ /\ update' = [update EXCEPT ![todo[i]] = app[todo[i]]]
         /\ app' = [app EXCEPT ![todo[i]] = Absent]
  BY DEF TakeBack, NothingToMove, RenameFails, File, diskVars
<1>4. Typed' /\ InList'
  BY <1>1, <1>2, <1>3, ContentsAre DEF IInv, Typed, Distinct, InList, taskVars
<1>5. /\ app'[todo[i]] = Absent \/ todo[i] \in unmoved'
      /\ \A f \in Files \ {todo[i]} : app'[f] = app[f]
  BY <1>2, <1>3 DEF IInv, Typed
<1>6. \A n : Upto(n)' = Upto(n)
  BY <1>1 DEF Upto, taskVars
<1>7. failed = "install" => Saved(i)'
  <2>1. failed = "install" => Saved(i)
    BY <1>1 DEF IInv, Undoable
  <2> QED
    BY <1>1, <1>2, <1>5, <1>6, <2>1 DEF Saved, Movable
<1>8. Undoable'
  BY <1>1, <1>5, <1>7 DEF Undoable, File, taskVars
<1> QED
  BY <1>1, <1>4, <1>8 DEF IInv, Downloaded

(* The file that is restored is as it was, and so are those behind it, but  *)
(* for those that could not be moved.                                       *)
LEMMA RestorePutsBack ==
  ASSUME IInv, Restore
  PROVE  /\ i \in 1 .. Len(todo) /\ todo[i] \in Files
         /\ app' \in [Files -> Releases \cup {Absent}]
         /\ backup' \in [Files -> Releases \cup {Absent}]
         /\ update' \in [Files -> Contents]
         /\ failed = "install" =>
               /\ \A f \in Movable' \ Upto(i - 1) : app'[f] = before[f]
               /\ \A f \in Upto(i - 1) \cap Movable' : backup'[f] = before[f]
<1>1. updater = "restore"
  BY DEF Restore
<1>2. /\ i \in 1 .. Len(todo) /\ todo[i] \in Files
      /\ Upto(i) = Upto(i - 1) \cup {todo[i]} /\ todo[i] \notin Upto(i - 1)
      /\ app[todo[i]] = Absent \/ todo[i] \in unmoved
  BY <1>1, UptoIs DEF IInv, Typed, InList, Undoable, File
<1>3. /\ unmoved \subseteq unmoved' /\ update' = update
      /\ \/ /\ UNCHANGED <<app, backup>>
            /\ backup[todo[i]] = Absent \/ todo[i] \in unmoved'
         \/ /\ app' = [app EXCEPT ![todo[i]] = backup[todo[i]]]
            /\ backup' = [backup EXCEPT ![todo[i]] = Absent]
  BY DEF Restore, PutBack, NothingToMove, RenameFails, File, diskVars
<1>4. /\ app' \in [Files -> Releases \cup {Absent}]
      /\ backup' \in [Files -> Releases \cup {Absent}]
      /\ update' \in [Files -> Contents]
  BY <1>2, <1>3 DEF IInv, Typed
<1>5. /\ todo[i] \in Movable' => app'[todo[i]] = backup[todo[i]]
      /\ \A f \in Files \ {todo[i]} : app'[f] = app[f] /\ backup'[f] = backup[f]
  BY <1>2, <1>3 DEF IInv, Typed, Movable
<1>6. Upto(i - 1) \subseteq Files
  BY <1>1 DEF Upto, IInv, Typed
<1>7. failed = "install" => Saved(i)
  BY <1>1 DEF IInv, Undoable
<1>8. Movable' \subseteq Movable
  BY <1>3 DEF Movable
<1>9. Movable' \subseteq Files
  BY DEF Movable
<1> QED
  BY <1>2, <1>4, <1>5, <1>6, <1>7, <1>8, <1>9 DEF Saved

LEMMA RestoreKeeps ==
  ASSUME IInv, Restore
  PROVE  IInv'
<1>1. UNCHANGED <<release, target, before, failed>>
  BY DEF Restore
<1>2. CASE i > 1
  <2>1. updater' = "rollback" /\ i' = i - 1 /\ todo' = todo
    BY <1>2 DEF Restore
  <2>2. i - 1 \in 1 .. Len(todo)
    BY <1>2, RestorePutsBack DEF IInv, Typed
  <2>3. Typed' /\ InList'
    BY <1>1, <2>1, <2>2, RestorePutsBack DEF IInv, Typed, Distinct, InList
  <2>4. Upto(i)' = Upto(i - 1)
    BY <2>1 DEF Upto
  <2>5. failed = "install" => Saved(i)'
    BY <1>1, <2>4, RestorePutsBack DEF Saved
  <2>6. Undoable'
    BY <1>1, <2>1, <2>5 DEF Undoable
  <2> QED
    BY <2>1, <2>3, <2>6 DEF IInv, Downloaded
<1>3. CASE ~(i > 1)
  <2>1. EndWith("no update")
    BY <1>3 DEF Restore
  <2>2. todo' \in Seq(Files) /\ Distinct(todo)' /\ i' \in Nat
    BY <2>1, EndOfList
  <2>3. Typed'
    BY <1>1, <2>1, <2>2, RestorePutsBack DEF IInv, Typed, EndWith
  <2> QED
    BY <2>1, <2>3, AtRest DEF EndWith
<1> QED
  BY <1>2, <1>3

-----------------------------------------------------------------------------
(* The steps of the system *)

LEMMA UpdaterStepKeeps ==
  ASSUME IInv, UpdaterStep
  PROVE  IInv'
BY initialCleanupKeeps, RemoveStaleKeeps, downloadFileKeeps, DownloadsDoneKeeps, BackUpKeeps,
   InstallKeeps, FinishKeeps, TakeBackKeeps, RestoreKeeps
DEF UpdaterStep

(* The threads and the callers leave the updater alone, but for starting it. *)
LEMMA ThreadsOnlyStartIt ==
  ASSUME [Next]_vars
  PROVE  \/ UpdaterStep \/ Crash \/ Publish
         \/ \E only, version : checkForUpdates(only, version)
         \/ UNCHANGED updateVars
<1>1. CASE \E c \in Callers : TurnOn(c) \/ TurnOff(c) \/ CallerStep(c)
  BY <1>1 DEF TurnOn, TurnOff, CallerStep, TestChecking, StartThread, AskToStop
<1>2. CASE \E t \in Threads : ThreadStep(t)
  <2> PICK t \in Threads : ThreadStep(t)
    BY <1>2
  <2>1. CASE StartCheck(t)
    BY <2>1 DEF StartCheck, Execute
  <2>2. CASE StartApply(t)
    BY <2>2 DEF StartApply, Execute
  <2>3. CASE \/ Begin(t) \/ Leave(t) \/ CheckDone(t) \/ CountDown(t)
             \/ ApplyDone(t) \/ Restart(t) \/ NothingToDo(t) \/ Pause(t)
    BY <2>3 DEF Begin, Leave, CheckDone, CountDown, ApplyDone, Restart, NothingToDo, Pause
  <2> QED
    BY <2>1, <2>2, <2>3 DEF ThreadStep
<1>3. CASE UpdaterOrWorld
  BY <1>3 DEF UpdaterOrWorld
<1>4. CASE UNCHANGED vars
  BY <1>4 DEF vars
<1> QED
  BY <1>1, <1>2, <1>3, <1>4 DEF Next

LEMMA NextIInv == IInv /\ [Next]_vars => IInv'
<1> SUFFICES ASSUME IInv, [Next]_vars PROVE IInv'
  OBVIOUS
<1>1. CASE UNCHANGED updateVars
  BY <1>1 DEF updateVars, diskVars, taskVars, IInv, Typed, Distinct, InList, Downloaded,
     IsDownloaded, Undoable, Saved, NoneSavedAfter, Movable, Upto, File
<1> QED
  BY <1>1, ThreadsOnlyStartIt, UpdaterStepKeeps, CrashKeeps, PublishKeeps, checkForUpdatesKeeps

-----------------------------------------------------------------------------
(* The theorems *)

LEMMA IInvHolds == Spec => []IInv
BY InitIInv, NextIInv, PTL DEF Spec

(* Nothing but the whole, signed file of some release is ever installed,    *)
(* however downloads fail and whatever crashes leave in the update folder.  *)
THEOREM OnlyVerifiedIsInstalledHolds == Spec => []OnlyVerifiedIsInstalled
<1>1. IInv => OnlyVerifiedIsInstalled
  BY DEF IInv, Typed, OnlyVerifiedIsInstalled
<1> QED
  BY <1>1, IInvHolds, PTL

(* When a file cannot be installed, the rollback leaves every file as it    *)
(* was before the update, whatever was published or asked for meanwhile,    *)
(* except those files that the rollback itself fails to move, or that       *)
(* initialCleanup failed to remove from the backup folder.                  *)
THEOREM FailedInstallRestoresHolds == Spec => FailedInstallRestores
<1>1. IInv /\ [Next]_vars =>
        [RollbackEnds /\ failed = "install"
            => \A f \in Files \ unmoved' : app'[f] = before[f]]_vars
  <2> SUFFICES ASSUME IInv, [Next]_vars, RollbackEnds, failed = "install"
               PROVE  \A f \in Files \ unmoved' : app'[f] = before[f]
    OBVIOUS
  <2>1. updater = "restore" /\ updater' = "none" /\ outcome' = "no update"
    BY DEF RollbackEnds
  <2>2. Restore
    <3>0. \/ UpdaterStep \/ Crash \/ Publish
          \/ \E only, version : checkForUpdates(only, version)
          \/ UNCHANGED updateVars
      BY ThreadsOnlyStartIt
    <3>1. ~Crash /\ ~Publish
      BY <2>1 DEF Crash, EndWith, Publish
    <3>2. ~UNCHANGED updateVars
      BY <2>1 DEF updateVars
    <3>3. ASSUME NEW only, NEW version, checkForUpdates(only, version) PROVE FALSE
      BY <2>1, <3>3 DEF checkForUpdates
    <3>4. UpdaterStep
      BY <3>0, <3>1, <3>2, <3>3, Zenon
    <3>5. ~initialCleanup /\ ~RemoveStale /\ ~downloadFile
      BY <2>1 DEF initialCleanup, RemoveStale, downloadFile
    <3>6. ~DownloadsDone /\ ~BackUp /\ ~Install
      BY <2>1 DEF DownloadsDone, BackUp, Install
    <3>7. ~InstallsDone /\ ~finalCleanup /\ ~TakeBack
      BY <2>1 DEF InstallsDone, finalCleanup, TakeBack
    <3> QED
      BY <3>4, <3>5, <3>6, <3>7, Zenon DEF UpdaterStep
  <2>3. i = 1
    <3>1. i \in Nat /\ i >= 1
      BY <2>2, RestorePutsBack DEF IInv, Typed
    <3>2. ~(i > 1)
      BY <2>1, <2>2 DEF Restore
    <3> QED
      BY <3>1, <3>2
  <2> QED
    BY <2>2, <2>3, RestorePutsBack, UptoNone DEF Movable
<1> QED
  BY <1>1, IInvHolds, PTL DEF Spec, FailedInstallRestores

=============================================================================
