------------------------------ MODULE UpdateTask ------------------------------
(***************************************************************************)
(* MEGAcmdUpdater, one process at a time (it holds a lock file): UpdateTask *)
(* reads which release is published, downloads the files that the           *)
(* installation lacks into the update folder, and installs them one by one, *)
(* moving each replaced file to the backup folder; when a step fails it     *)
(* rolls back.  One action is one change of the disk, so that a crash may   *)
(* fall between any two.                                                    *)
(*                                                                          *)
(* A file's content is the release it comes from; other contents are        *)
(* Absent, Empty (a published file of length zero asks for a removal) and   *)
(* Damaged (whatever a failed download leaves).  A signature identifies the *)
(* content.  Renames are those of macOS: they replace their target.  The    *)
(* download of v.txt is a read of the published release; one that fails, or *)
(* whose signature is wrong, ends the process without a trace.              *)
(***************************************************************************)
EXTENDS Naturals, Sequences, FiniteSets

CONSTANTS
    FileOrder,    \* the files of the installation, in the order of v.txt
    MaxRelease,   \* releases are 1 .. MaxRelease; 1 is installed at first
    Removed,      \* pairs <<r, f>>: release r asks for the removal of f
    MaxFaults,    \* bound on failing directory operations and downloads
    MaxCrashes    \* bound on crashes of the updater

Files == {FileOrder[k] : k \in DOMAIN FileOrder}
Releases == 1 .. MaxRelease

ASSUME UpdateAssumption ==
    /\ FileOrder \in Seq(Files)
    /\ \A j, k \in DOMAIN FileOrder : FileOrder[j] = FileOrder[k] => j = k
    /\ MaxRelease \in Nat \ {0}
    /\ Removed \subseteq Releases \X Files
    /\ MaxFaults \in Nat
    /\ MaxCrashes \in Nat

VARIABLES
    release,    \* the release that the server publishes
    app,        \* appFolder: file -> content
    update,     \* updateFolder
    backup,     \* backupFolder
    updater,    \* control state of the updater process
    noInstall,  \* its argument --do-not-install
    target,     \* updateVersion
    todo,       \* localPaths: the files to download and install
    i,          \* position in todo
    outcome,    \* how the last process ended: its exit code, or a crash
    before,     \* history: app when the installation started
    failed,     \* history: the step of the installation that failed
    unmoved,    \* history: files that a failing removal left in the backup folder, or a
                \* failing rename of the rollback where they were
    faults,
    crashes

diskVars == <<app, update, backup>>
taskVars == <<noInstall, target, todo>>
updateVars == <<release, diskVars, updater, taskVars, i, outcome, before, failed,
                unmoved, faults, crashes>>

Absent == 0
Empty == MaxRelease + 1
Damaged == MaxRelease + 2
Contents == 0 .. MaxRelease + 2

Published(r, f) == IF <<r, f>> \in Removed THEN Empty ELSE r

UpdaterInit ==
    /\ release = 1
    /\ app = [f \in Files |-> 1]
    /\ update = [f \in Files |-> Absent]
    /\ backup = [f \in Files |-> Absent]
    /\ updater = "none"
    /\ noInstall = FALSE
    /\ target = 1
    /\ todo = <<>>
    /\ i = 0
    /\ outcome = "none"
    /\ before = app
    /\ failed = "no"
    /\ unmoved = {}
    /\ faults = 0
    /\ crashes = 0

Publish ==
    /\ release < MaxRelease
    /\ release' = release + 1
    /\ UNCHANGED <<diskVars, updater, taskVars, i, outcome, before, failed,
                   unmoved, faults, crashes>>

Fault == faults < MaxFaults /\ faults' = faults + 1

(* The process ends; what it had in memory is gone. *)
EndWith(result) ==
    /\ updater' = "none"
    /\ outcome' = result
    /\ todo' = <<>>
    /\ i' = 0

Crash ==
    /\ updater # "none"
    /\ crashes < MaxCrashes
    /\ crashes' = crashes + 1
    /\ EndWith("crashed")
    /\ \/ UNCHANGED update
       \/ /\ updater = "fetch"
          /\ update' = [update EXCEPT ![todo[i]] = Damaged]
    /\ UNCHANGED <<release, app, backup, noInstall, target, before, failed, unmoved,
                   faults>>

-----------------------------------------------------------------------------
(* checkForUpdates, up to the downloads *)

alreadyInstalled(f) == app[f] = Published(release, f)

(* The files of v.txt that have to be downloaded, in its order. *)
Lacking ==
    LET lacking[k \in 0 .. Len(FileOrder)] ==
            IF k = 0 THEN <<>>
            ELSE IF alreadyInstalled(FileOrder[k]) THEN lacking[k - 1]
            ELSE Append(lacking[k - 1], FileOrder[k])
    IN  lacking[Len(FileOrder)]

(* Mutant of IsNewer: an off-by-one. *)
MutTwoNewer(version) == release > version + 1

IsNewer(version) == release > version

(* version is what the caller passes, or the version of the updater itself. *)
checkForUpdates(only, version) ==
    /\ updater = "none"
    /\ noInstall' = only
    /\ \/ /\ IsNewer(version)
          /\ Lacking # <<>>
          /\ updater' = "cleanup"
          /\ target' = release
          /\ todo' = Lacking
          /\ i' = 1
          /\ failed' = "no"
          /\ unmoved' = {}
          /\ UNCHANGED <<outcome, faults>>
       \/ /\ ~IsNewer(version) \/ Lacking = <<>>
          /\ EndWith("no update")
          /\ UNCHANGED <<target, failed, unmoved, faults>>
       \/ /\ Fault
          /\ EndWith("no update")
          /\ UNCHANGED <<target, failed, unmoved>>
    /\ UNCHANGED <<release, diskVars, before, crashes>>

(* initialCleanup empties the backup folder, one file after the other.  A   *)
(* file that cannot be removed stays, and nobody looks.                     *)
initialCleanup ==
    /\ updater = "cleanup"
    /\ \/ \E f \in Files :
             /\ backup[f] # Absent
             /\ backup' = [backup EXCEPT ![f] = Absent]
             /\ UNCHANGED <<updater, unmoved, faults>>
       \/ /\ \A f \in Files : backup[f] = Absent
          /\ updater' = "download"
          /\ UNCHANGED <<backup, unmoved, faults>>
       \/ /\ Fault
          /\ updater' = "download"
          /\ unmoved' = {f \in Files : backup[f] # Absent}
          /\ UNCHANGED backup
    /\ UNCHANGED <<release, app, update, taskVars, i, outcome, before, failed, crashes>>

-----------------------------------------------------------------------------
(* The loop of downloads *)

File == todo[i]

(* Mutant of alreadyDownloaded: the signature is not checked. *)
MutPresent == update[File] # Absent

alreadyDownloaded == update[File] = Published(target, File)

(* What is not downloaded yet is removed and fetched. *)
RemoveStale ==
    /\ updater = "download"
    /\ i <= Len(todo)
    /\ IF alreadyDownloaded
       THEN i' = i + 1 /\ UNCHANGED <<updater, update>>
       ELSE /\ update' = [update EXCEPT ![File] = Absent]
            /\ updater' = "fetch"
            /\ UNCHANGED i
    /\ UNCHANGED <<release, app, backup, taskVars, outcome, before, failed,
                   unmoved, faults, crashes>>

(* The folder cannot be made, the download fails, or the signature of what  *)
(* arrived is wrong: the process ends.                                      *)
downloadFile ==
    /\ updater = "fetch"
    /\ \/ /\ update' = [update EXCEPT ![File] = Published(target, File)]
          /\ updater' = "download"
          /\ i' = i + 1
          /\ UNCHANGED <<todo, outcome, faults>>
       \/ /\ Fault
          /\ \E c \in {Absent, Damaged} : update' = [update EXCEPT ![File] = c]
          /\ EndWith("no update")
    /\ UNCHANGED <<release, app, backup, noInstall, target, before, failed, unmoved,
                   crashes>>

DownloadsDone ==
    /\ updater = "download"
    /\ i > Len(todo)
    /\ IF noInstall
       THEN EndWith("updated") /\ UNCHANGED before
       ELSE /\ updater' = "backup"
            /\ i' = 1
            /\ before' = app
            /\ UNCHANGED <<todo, outcome>>
    /\ UNCHANGED <<release, diskVars, noInstall, target, failed, unmoved, faults,
                   crashes>>

-----------------------------------------------------------------------------
(* performUpdate *)

(* Move the installed file to the backup folder, unless there is none.      *)
BackUp ==
    /\ updater = "backup"
    /\ i <= Len(todo)
    /\ \/ /\ updater' = "install"
          /\ IF app[File] = Absent
             THEN UNCHANGED <<app, backup>>
             ELSE /\ backup' = [backup EXCEPT ![File] = app[File]]
                  /\ app' = [app EXCEPT ![File] = Absent]
          /\ UNCHANGED <<failed, faults>>
       \/ /\ Fault
          /\ updater' = "rollback"
          /\ failed' = "backup"
          /\ UNCHANGED <<app, backup>>
    /\ UNCHANGED <<release, update, taskVars, i, outcome, before, unmoved, crashes>>

(* Move the downloaded file into place; an empty one asks for a removal,    *)
(* which the backup has done already.                                       *)
Install ==
    /\ updater = "install"
    /\ \/ /\ update[File] = Empty
          /\ updater' = "backup"
          /\ i' = i + 1
          /\ UNCHANGED <<app, update, failed, faults>>
       \/ /\ update[File] \notin {Empty, Absent}
          /\ app' = [app EXCEPT ![File] = update[File]]
          /\ update' = [update EXCEPT ![File] = Absent]
          /\ updater' = "backup"
          /\ i' = i + 1
          /\ UNCHANGED <<failed, faults>>
       \/ /\ update[File] # Empty
          /\ Fault
          /\ updater' = "rollback"
          /\ failed' = "install"
          /\ UNCHANGED <<app, update, i>>
    /\ UNCHANGED <<release, backup, taskVars, outcome, before, unmoved, crashes>>

InstallsDone ==
    /\ updater = "backup"
    /\ i > Len(todo)
    /\ updater' = "finish"
    /\ UNCHANGED <<release, diskVars, taskVars, i, outcome, before, failed,
                   unmoved, faults, crashes>>

(* finalCleanup empties the update folder, as far as it can be. *)
finalCleanup ==
    /\ updater = "finish"
    /\ \/ /\ \E f \in Files :
                /\ update[f] # Absent
                /\ update' = [update EXCEPT ![f] = Absent]
          /\ UNCHANGED <<updater, outcome, todo, i, faults>>
       \/ /\ EndWith("updated")
          /\ IF \A f \in Files : update[f] = Absent THEN UNCHANGED faults ELSE Fault
          /\ UNCHANGED update
    /\ UNCHANGED <<release, app, backup, noInstall, target, before, failed, unmoved,
                   crashes>>

-----------------------------------------------------------------------------
(* rollbackUpdate, from the file whose step failed down to the first: move  *)
(* the installed file back to the update folder, then the backup back.      *)
(* Nobody looks at the result of either rename: what cannot be moved stays, *)
(* and the next initialCleanup removes a backup that was not put back.      *)

RenameFails ==
    /\ Fault
    /\ unmoved' = unmoved \cup {File}
    /\ UNCHANGED diskVars

(* A file that is not there cannot be moved, nor does it have to be. *)
NothingToMove == UNCHANGED <<diskVars, unmoved, faults>>

TakeBack ==
    /\ updater = "rollback"
    /\ IF app[File] = Absent
       THEN NothingToMove
       ELSE \/ /\ update' = [update EXCEPT ![File] = app[File]]
               /\ app' = [app EXCEPT ![File] = Absent]
               /\ UNCHANGED <<backup, unmoved, faults>>
            \/ RenameFails
    /\ updater' = "restore"
    /\ UNCHANGED <<release, taskVars, i, outcome, before, failed, crashes>>

PutBack ==
    IF backup[File] = Absent
    THEN NothingToMove
    ELSE \/ /\ app' = [app EXCEPT ![File] = backup[File]]
            /\ backup' = [backup EXCEPT ![File] = Absent]
            /\ UNCHANGED <<update, unmoved, faults>>
         \/ RenameFails

(* Mutant of Restore: the loop stops before the first file. *)
MutRestoreNotTheFirst ==
    /\ updater = "restore"
    /\ PutBack
    /\ IF i > 2
       THEN updater' = "rollback" /\ i' = i - 1 /\ UNCHANGED <<todo, outcome>>
       ELSE EndWith("no update")
    /\ UNCHANGED <<release, noInstall, target, before, failed, crashes>>

Restore ==
    /\ updater = "restore"
    /\ PutBack
    /\ IF i > 1
       THEN updater' = "rollback" /\ i' = i - 1 /\ UNCHANGED <<todo, outcome>>
       ELSE EndWith("no update")
    /\ UNCHANGED <<release, noInstall, target, before, failed, crashes>>

-----------------------------------------------------------------------------
UpdaterStep ==
    \/ initialCleanup \/ RemoveStale \/ downloadFile \/ DownloadsDone
    \/ BackUp \/ Install \/ InstallsDone \/ finalCleanup \/ TakeBack \/ Restore

=============================================================================
