# Formal models of MEGAcmd

TLA+ modules, TLC configurations and TLAPS proofs about the server (`mega-cmd`), its clients
(`mega-cmd-shell`, `mega-exec`) and the updater (`MEGAcmdUpdater`). Every definition is translated
from the C++ under `src/src`; the MEGA SDK, a git submodule, and the MEGA service are environment.
Line numbers below are those of this commit. `PROJECT.json` maps every definition to its lines and
lists the runs, the mutants, the hazards and the theorems.

## 1. The system

```
 mega-exec, shell ──socket──> main loop ──thread per petition──> executer ──requests──> SDK
        ^                        |   ^                              |  ^                 |
        └──state listeners <─────┴───┘<── greetings, broadcasts ────┘  └── listeners <───┘
                                                                       (the SDK's thread)
 every thread ──messages──> rotating logger ──files──> compression thread
 checking thread ──executes──> MEGAcmdUpdater ──renames──> the installation
```

One process serves all clients. The main thread accepts connections and gives each petition a
thread of its own; the thread executes one command with synchronous requests to the SDK, whose own
thread answers through listeners. Clients that are shells keep a second connection open, their
state listener, on which any thread of the server may tell them something.

| Component | State | Operations | What is hard | What makes it correct |
|---|---|---|---|---|
| Main loop and petitions (`megacmd.cpp`, `comunicationsmanagerfilesockets.cpp`) | `doExit`, listening socket, `semaphoreClients`, two vectors of threads | accept, dispatch, doProcessLine, reap, quit, signals, finalize | the flag is written by every petition; reaping in two places; the pool fills up | slots are neither leaked nor forged, running threads stay owned, clients are served |
| Session (`megacmdexecuter.cpp`, `listeners.cpp`, `megacmdsandbox.*`, `megacmd.h`) | login flag, blocked flag, valid commands, two promises, greetings, session file | login, resume, reload, logout, block, unblock | SDK answers in any order to several threads; promises with one reader; crash | shells learn when a login ends, no command hangs |
| Command protocol (`megacmdshellcommunications.cpp`, `comunicationsmanagerfilesockets.cpp`) | a byte stream each way | send a command, partial output, question, answer, result | nothing on the wire says what comes next; either side dies | output in order, the result arrives, the user decides |
| State listeners and broadcasts (`comunicationsmanager.cpp`, `megacmd.cpp`, `listeners.cpp`, `sync_issues.cpp`) | registered shells, two lists of greetings, delayed messages, prompt, warnings | register, greet, broadcast, erase, delay, debounce | registration races with broadcasts of several threads | no kept message is lost, every shell is told, the last change is announced |
| Interactive shell (`megacmdshell.cpp`, `megacmdshellcommunications.cpp`) | prompt state, flags of a pending password, listener thread | type, ask, confirm, interrupt, register again | two threads; a server that goes away; Ctrl-C | passwords go to their command, the shell listens again |
| Transfers (`megacmdexecuter.cpp`, `listeners.cpp`, `megacmd.cpp`) | counters per command, completed transfers, a pool of folder APIs | get, put, import, pause, cancel, list | callbacks of many transfers in any order; the pool at its limit | a foreground command ends when all its transfers have, with their error |
| Remote tree (`megacmdexecuter.cpp`) | nodes of the account, working folder | ls, cd, mkdir, mv, cp, rm, deleteversions, share, export | what was resolved is out of date when used; several requests of which one fails | nothing is removed but what was meant |
| Configuration and backups (`configurationmanager.cpp`, `megacmdexecuter.cpp`) | `megacmd.cfg`, files of syncs and backups, maps, settings of the SDK | load, save, set, serve, back up, log in and out | files rewritten in place; read, change, write back; crash | what is saved is what runs |
| Sync and FUSE commands (`sync_command.cpp`, `sync_ignore.cpp`, `megacmd_fuse.cpp`) | syncs, mounts, `.megaignore` files with a lock each | add, pause, delete, filter, mount | look up, then change; two requests in one command | the named one changes, filters as told, OK means done |
| Deferred trigger (`deferred_single_trigger.h`) | a counter, a thread, two mutexes | trigger, fire, destroy | calls, timer and destructor race | one worker, the latest callback, nothing after destruction |
| Rotating logger (`megacmd_rotating_logger.cpp`) | two buffers, a stream, flags | append, swap, write, reopen, destroy | disk and memory faults, shutdown | nothing is lost, repeated or reordered but by a fault |
| Log rotation (same file) | a directory, a queue of jobs | rotate, prune, compress | two threads rename and remove the same files | only what is too old or too many disappears |
| Updater (`updater/UpdateTask.cpp`) | the installation and two folders | download, install, roll back | a crash between any two renames, damaged files | only verified files, whole releases |
| Automatic updates (`megacmd.cpp`) | two flags, a thread, a property | on, off, check, apply, restart | unlocked flags shared by callers and thread | updates arrive |
| Pure code (`megacmdcommonutils.cpp`, `megacmdutils.cpp`, `megacmd_utf8.cpp`) | none | parse, format, convert | boundaries | agreement with a reference definition |

## 2. Modules

| Module | Models | Run(s) |
|---|---|---|
| `PetitionServer` | main loop, petition threads, exit | `petition_server` |
| `Session` | login, resumption, reload, logout, blocked accounts | `session` |
| `SessionProofs` | TLAPS | |
| `CommandProtocol` | one command over its socket; cat, rm, deleteversions, passwd | `command_protocol`, `rm_skips_confirmation` |
| `CommandProtocolProofs` | TLAPS | |
| `DeferredSingleTrigger` | the class of that name | `shell`, through the next |
| `Broadcasts` | extends the trigger: listeners, greetings, broadcasts and their sources | `shell`, through the next |
| `Shell` | extends `Broadcasts`: the shells, connected to that server | `shell` |
| `ShellProofs` | TLAPS, of the three modules together | |
| `Transfers` | get, put, import, transfers, their listeners, the pool | `transfers` |
| `TransfersProofs` | TLAPS | |
| `RemoteTree` | the commands on nodes | `remote_tree` |
| `Ordering` | a set of numbers in its order, for the two above | |
| `SettingsStore` | abstract: a map of properties, saved one at a time | (refined) |
| `Configuration` | settings, served locations, backups, login, logout, crash | `configuration` |
| `ConfigurationProofs` | TLAPS | |
| `LocalFolders` | sync, sync-ignore, sync-config, sync-issues and fuse commands | `local_folders` |
| `ServerProofs` | TLAPS, of the main loop, `LocalFolders` and `RemoteTree` | |
| `LogChannel` | abstract: an ordered channel that loses messages only when there are faults | (refined) |
| `RotatingLogger` | message bus, writer thread, destructor | `rotating_logger` |
| `LogRotation` | rotation engines and the compression thread | `log_rotation` |
| `RotatingLoggerProofs` | TLAPS, of the logger and of the rotation | |
| `UpdateTask` | the updater process, one disk change per step | (extended by the next) |
| `AutoUpdate` | on/off, checking thread, restart, over `UpdateTask` | `auto_update` |
| `AutoUpdateProofs` | TLAPS | |

Each component module declares its constants with their assumptions, one action per handler or per
access to shared state, `Spec`, the fair specification, and its properties. The `MC` module gives
TLC what a `.cfg` cannot write. Operators whose name begins with `Mut` are what a plausible mistake
in the code would make of the definition that follows them; `PROJECT.json` pairs each with the
property it breaks. They belong to no specification.

### How the models correspond to the code

* **PetitionServer.** `doExit = process_line(...)` in every petition is `StoreResult`; the two later
  reads of the flag (stop the updates thread; shut the socket down) are `returnAndClosePetition` and
  `WakeMain`. `delete_finished_threads` is one step because the mutex it holds is not needed any more
  by the threads on the list. A socket that was shut down is always readable and still hands out
  queued connections, as on Linux.
* **Session.** A petition thread is a program counter in `executecommand`, `LoginGuard`,
  `actUponLogin`, `fetchNodes`, `actUponFetchNodes`, `getReasonblocked`. The SDK's thread runs one
  callback at a time, and the two callbacks that take several steps (`AccountBlocked`,
  `WhyAnswered`) are split where other threads can get in between. The promises are records:
  whether a future was taken, whether a value was set. An uncaught exception (a second `get_future`,
  a broken promise, a joinable `std::thread` destroyed) is `Die`: the process ends and may restart.
  `updatevalidCommands` goes with its flag, so the unlocked copy of the vector is not in the model.
  So does the early dump of a session with its saving.
* **CommandProtocol.** Items are one element of the stream each; partial output is cut into pieces.
  The client's `string(buffer, partialoutsize)` writes the whole buffer whatever `recv` returned:
  `Junk` is what was in it. Buffers that a question fills exactly are modelled (`Filling`), and the
  liveness property sets them aside because both ends then wait for ever.
* **DeferredSingleTrigger.** The granularity is the critical section of each mutex. Time is not
  modelled: a waiting worker's timer may expire at any moment, or never.
* **Broadcasts.** It extends the trigger, whose callback here is `verifySharedFolders`: the callback
  begins and ends with the trigger's own steps and broadcasts in between. Each thread that
  broadcasts has a message in its `hand`: `InformStep` is `informStateListeners` under
  `mStateListenersMutex`, which erases the shells that have closed, and `KeepStep` appends to the
  greetings of the first client when nobody was there. The registration of a shell is the main
  thread's program counter: id, storage warning, greetings, prompt, each a step of its own because
  each takes another lock. `broadcastDelayedMessage` is its queue and a detached thread; a second
  one can exist while the first is ending. The debouncer's thread and the answers of the SDK to the
  list of stalls are separate steps. A greeting is popped whether or not it could be sent: `unheard`
  remembers those popped for a shell that had hung up. The texts of messages are abbreviations.
* **Shell.** `shell[s]` is the memory of one process. The main thread goes through `readloop`, the
  listener thread through `listenToStateChanges`; `registerForStateChanges` is split where it joins
  the listener thread. `process_line` is one action per prompt and per family of commands:
  `LoginPassword`, `NewPassword`, `ConfirmPassword`, `AccountLine`, `ConfirmLine` and so on. Sending
  a command may start a server that is down (`createSocket`); the shell that has done so registers
  again at once. What a command does over its socket is `CommandProtocol`'s subject.
* **Transfers.** A petition thread stops between any two calls of the SDK. A transfer is a record
  that starts, progresses and ends in any order with the others; `MegaCmdMultiTransferListener` is a
  record with its counters. The pool of folder APIs is its queue, its occupied list and its
  semaphore. Lists of transfers keep tags, and look each up later, as the code does.
* **RemoteTree.** A node is a handle with a parent, a name and a time; older versions are children
  of the file. `nodebypath`, `nodesbypath` and `nodesPathsbypath` are operators over the components
  of a path (a fold, and a recursive function each for the two kinds of patterns), with the code's
  special cases. A command keeps copies of the nodes it has resolved; requests act on the tree as it
  is by then. `stirred`, `promoted`, `agreed`, `unasked` and `placed` only remember, for the
  properties: `agreed` is what the user has answered, `unasked` that the code has taken the removal
  of a file for an "all" that nobody gave.
* **Configuration.** Opening a file truncates it, closing it fills it: a crash in between leaves it
  empty (`BeginWrite`, `EndWrite`). A setter that fetches, changes and pushes an object of the SDK is
  two steps under its mutex. A restart logs in again as the startup does. A file may also not be
  opened (`CannotOpen`), or read or written in part only (`Perhaps`): the code notices none of this,
  and goes on. A line or record that is cut short counts as missing. The SDK may refuse at login what
  it took before, which is logged. `unsettled` remembers the settings and backups that two commands
  have changed at once, for which no order is the right one, and those that such a failure has kept
  from the file or from the SDK.
* **LocalFolders.** Looking a sync or a mount up and asking for its change are separate steps. A
  `.megaignore` file is a sequence of lines with a flag for a last line without an end, to which an
  appended filter sticks. The lock of a path is held over reading and writing. `executeAdd` and
  `executeRemove` tell the client first and write in a later step; opening, reading, truncating and
  writing may each fail or stop half way (`Fault`), of which only a file that cannot be opened to
  begin with is noticed. `unsettled` remembers the filters that were told and are not written yet, or
  were lost so; `missed` that a command has not seen its write fail.
* **RotatingLogger.** The writer reads `mExit`, `mFlush` and the bus one at a time, each under its
  own lock; swapping and writing is one step because the front buffer is private. The stream's own
  buffer is separate from the disk.
* **LogRotation.** The directory is a function from names to contents; an open file keeps its
  content when its name goes. One step is one directory operation of one of the two threads. A
  compression may end with a damaged target that `gzipFile` takes for a whole one (a read that fails
  ends it as the end of the file does, and the result of the last `gzclose` is dropped): `truncated`
  remembers whose.
* **UpdateTask and AutoUpdate.** A file's content is the release it comes from, or absent, empty or
  damaged. A crash may fall between any two renames. Renames replace their target (macOS), and each
  may fail, those of the rollback and the removals included, whose results are not looked at
  (`unmoved` remembers the files that such a failure concerns).

## 3. Runs

| Run | Instance | What it shows |
|---|---|---|
| `petition_server` | startup login and 2 clients, 2 slots, 1 waiting attempt, 1 signal | slots accounted for, a waiting quit outlives the others, clients are served |
| `session` | 2 petition threads and the main thread, one of them resuming a session or not, 5 commands, email and SMS blocks, 1 session, 2 events (commands, shells, blockings, crashes) | the `login:` greeting has a login, a shell that was told so is told the end, no command hangs |
| `command_protocol` | 22 commands over 3 nodes, client may be killed, server may crash | output once and in order, result delivered, the user decides, both sides end |
| `rm_skips_confirmation` | rm of a file and a folder | a violation, see below |
| `shell` | 24 scenarios: 1 or 2 shells, up to 4 events of the SDK, or stalls, or commands of others, up to 2 triggers from 2 callers, up to 2 crashes of the server, a refused connection, a shell that dies, a Ctrl-C, lines typed or a user who types for ever | the latest callback, kept messages reach a shell, shells are told of the state they find, order of delayed messages, passwords go to their command, the last stall is announced, shells listen again |
| `transfers` | 13 scenarios of 2 clients, at most 3 transfers, 2 completed ones kept, pools of 0, 1 and 2, up to 2 failures or quota events | foreground commands report and end, tags are right, lists are complete |
| `remote_tree` | 18 pairs of scripts on 8 nodes (3 more may be made), 2 failures or changes from elsewhere | only what was agreed, replaced or old is removed; ls lists what matches |
| `configuration` | 9 pairs of scripts, 2 locations or backups, 2 legacy syncs (interchangeable), 1 failure: a crash, a file that cannot be opened, read or written, or a setting refused at login | the file agrees with the SDK, lists and backups are kept, `megacmd.cfg` implements `SettingsStore` |
| `local_folders` | 12 scenarios of 2 clients, 2 syncs, 2 mounts, 3 filter files, up to 2 failures (of requests or of filter files) or acts of the user | the named sync changes, filters as told, OK means done |
| `rotating_logger` | 3 messages, 1 disk fault, 1 failed allocation | implements `LogChannel`, the destructor returns |
| `log_rotation` | 7 generations, 2 files kept, age 3, 1 fault; both engines, with and without compression | nothing lost but by the limits or its own failed compression, the exit compresses all |
| `auto_update` | 3 files, 2 releases of which one removes a file, 2 callers and 2 threads, 2 faults, 1 crash | only verified files, rollback restores, updates arrive |

Deadlock is checked in `configuration`, `remote_tree` and `transfers`, whose specifications have a
step for the end of all scripts; it is off in the others: each of those systems may stop (all
petitions made, the process ended, the bound on events reached).

**Bounds.** Two slots and three petitions fill the pool with one waiting. Three messages exceed the
fail-safe size of two. Seven generations are more than twice what fits in the limits of
`log_rotation`, so that pruning meets a running compression repeatedly. In `auto_update` the first
fault makes an installation fail and the second makes a step of its rollback fail. Two releases are
enough for an update folder that holds the wrong one; three files put the failing one first, in the
middle and last. In `session` the resumption is free of the bound, so two events add two more actors
to it; a third multiplies the states by thirteen and was checked once without finding anything new.

The five instances with scripts or scenarios check a set of small systems in one run. A scenario
gives each client one to four commands that touch the same thing, because commands that touch
different things do not interact in the code; together they fire every action of the module. Two
clients are enough for what one command can do between two steps of another, and two faults for a
failure in the middle of a failure's clean-up. In `transfers` three transfers fill more than the
completed list, and pools of none, one and two APIs are the empty, the contended and the free one.
In `shell` two shells fill `maxStateListeners` when it is 1, and two crashes are a server that dies
again before a shell has come back.

**Fairness.** Threads that can run do (weak fairness of each). The SDK answers every request
(weak fairness per request): that is its contract, and the code waits without a limit on it.
Nothing is assumed of clients, signals, crashes, the timer of the trigger, or
`EVENT_NODES_CURRENT` (the code stops waiting for it after 150 seconds). In `rotating_logger` the
flush needs strong fairness: it competes with appends for a lock. In `command_protocol` the user
answers, and does not say something that is neither yes nor no for ever. In `transfers` a transfer
that is not paused ends. In `shell` one weak fairness covers all threads of the server, whose work
between two faults is finite; each shell has one for its listener thread with the thirty seconds
after a failed registration, and one for its main thread with the user who types on. Faults and
events of the SDK need never come. `configuration`, `remote_tree`, `local_folders` and
`log_rotation` are safety only.

### Where the code differs from what it says

| Run | Statement | What happens |
|---|---|---|
| `rm_skips_confirmation` | "-f: Force (no asking)" (`rm.md:8`) | deleting a file confirms the folders that follow it |

Met while modelling, in the models, and not given a run of their own:

* `quit` may have no effect: `doExit` is overwritten by a petition that ends later
  (`megacmd.cpp:4341`).
* Two `reload`s overlap against `assert(!pendingCompletion)` (`megacmdsandbox.h:44`); in a release
  build the second promise breaks the first, and the exception ends the server.
* `update --auto=ON` does nothing while the thread that is leaving still counts as checking
  (`megacmd.cpp:4557`).
* After a short `recv`, `cat` prints the whole buffer (`megacmdshellcommunications.cpp:430`).
* `sync ID` without an option pauses the sync, although the help says that it lists it
  (`megacmdexecuter.cpp:7855`, `megacmd.cpp:2655`).
* After Ctrl-C at the password of `signup`, the password typed for a later `passwd` is sent with
  `signup`: `PasswordGoesToItsCommand` allows a command that was given up.
* A failed registration leaves `mStopListener` set and the shell never listens again:
  `ListensAgain` sets those shells aside.
* A logout between the reading of a list of served locations and its saving is undone for that list:
  the command saves what it read (`LocationsSurvive` allows it after `wiped`).
* Two `mkdir -p` of one path may make two folders of the same name, and `mkdir -p` takes `.` and `..`
  behind a missing folder for names: `LsListsMatches` allows for both.
* `deleteversions` removes what it has read even if `mv` has meanwhile taken that version out of its
  file and made it a file of its own (`megacmdexecuter.cpp:3181`): the last version of the new file is
  lost. `LastVersionsSurvive` sets the command aside in whose time this happened (`promoted`).
* A filter appended to a `.megaignore` file whose last line has no end is joined to that line, and is
  lost: `FiltersAsTold` excepts such a file.
* A filter typed with a space at its end is not removed by `sync-ignore --remove`: `containsFilter`
  looks for it without the space, "Removed filter" is printed, and `removeFilters` looks for it with
  the space (`sync_ignore.cpp:301`, `sync_ignore.cpp:321`). It is on no line, so `FiltersAsTold`
  holds.
* The numbered rotation engine names every file being compressed alike and may lose one
  (`NoGenerationLost` excludes it; the server's default is the timestamp engine), and ends the
  process when a rename has failed and the directory holds a name without a timestamp.
* The rollback of a file whose backup failed moves it out of the installation
  (`FailedInstallRestores` is about the other steps).

Some failures are noticed by nobody: the call's result is dropped, or there is no `else`, and the
program answers and goes on as if it had succeeded. They are in the models, and each property sets
aside exactly what such a failure concerns:

* The last flush of a compression, and a read that fails during it: the rotated log is removed all the
  same (`megacmd_rotating_logger.cpp:1051`, `1086`; `truncated`).
* The renames of the rollback of an update, after which the backup folder is emptied
  (`UpdateTask.cpp:963-972`; `unmoved`).
* `saveProperty`, `saveBackups` and the others when the file cannot be opened
  (`configurationmanager.cpp:243-252`, `381-416`), or when a write stops half way: the setting runs,
  the file does not have it. A file that cannot be read to its end is rewritten without the rest
  (`unsettled`). A `setMaxConnections` that fails at login is only logged
  (`megacmdexecuter.cpp:2635-2641`).
* `sync-ignore` says "Added filter" or "Removed filter" before it opens the file for writing, never
  looks at the stream, and answers OK (`sync_ignore.cpp:82`, `98`, `278-285`, `308-313`; `unsettled`,
  `missed`).
* The greetings kept for the first client are popped when they are sent to a shell that has hung up
  (`megacmd.cpp:4881-4885`; `unheard`).

Others are about memory, waits and words:

* A second reader of the promised reason throws outside the `try`; `unblock()` destroys a joinable
  thread when there are no nodes.
* `deleteversions --all` asks a client that is gone for ever (`CommandEnds` excludes it).
* `removeDelayedBroadcastMatching("Your sync has been disabled")` matches no message that is queued
  (`listeners.cpp:377`).

## 4. Proofs

**ServerProofs** begins with the main loop, for any finite set of petitions and any numbers of
slots, waits and signals. `SlotsAccountedFor` (a cardinality) needs that a thread is started only
for a petition that has none: `WaitingPetitions` says that a petition that is queued, or held by the
main thread, has no thread and is in one place only. `OneMoreHolder` and `OneHolderLess` do the
counting. `QuietQuit` follows from `RunningThreadsAreOwned`: the quit itself is one of the threads
that are owned and not ended, so at most one such thread means no other petition runs. The run
checks `SlotsAccountedFor` and `QuietQuit`; types and ownership are left to the proof.

It goes on with `LocalFolders`, for any clients, scenarios, syncs, mounts, folders and filters.
* `OkMeansDone` and the action property `SyncsChangeAsNamed` come from `CommandsInv`: what a command
  has looked up is what its name stood for (`FoundAsNamed`), each request it has sent is about that
  sync or mount, and what it has already reported as done was done (`DoneSoFar`).
* `FiltersAsTold` comes from `IgnoreInv`: a command between reading and writing a file has the lock
  of its path (`LockHeld`), the lines it keeps are as told but for the filters it removes
  (`KeptAsTold`), and a file that nobody is rewriting is as told (`FileAsTold`), all of it but for
  the filters that are unsettled: those that somebody holding the lock has told of and not written
  yet, and those that a read or write in part has lost. Three lemmas say what the code's operations
  on lines do: removing (`WithoutRemoves`), ordering a set of filters (`SetToSeqIs`) and appending
  to a file whose last line may have no end (`AppendedEffect`).

It ends with `RemoteTree`, for any threads and scripts, any number of handles and failures, and any
initial tree whose nodes are numbered downwards and where only versions are below a file
(`TreeAssumption`). The three action properties say what a request may take away, and a command makes
it with copies that are some requests old. `TreeInv` says what of them is still true.
* Of the tree: nodes have parents that have been nodes (`NodesKnown`), and below a file there are only
  files, in a line without a circle and one at most below each (`VersionsBelow`, with a rank as its
  witness). So a file goes with its older versions and nothing else (`SubtreeOfFile`), and taking a
  version out makes no other one current (`VersionRemovedKeeps`). Each kind of request keeps this; the
  copy of a folder is the long one (`CopiedKeeps`). `Reached`, a recursive function, is dealt with by
  induction over `Nat`: `ReachedSelf`, `ReachedStays` and `ReachedFrom` are all that is used of it.
* Of each command: a node in hand is what it was or is gone; one about to be removed has been agreed
  to, or comes behind a file (`AgreedTo`, in `Settled`); the
  new file is in its place when the old one is to be removed (`Arrived`); what `deleteversions` has
  read are older versions (`OldVersions`).

A step that only thinks keeps it for the others since nothing moved, a request since the tree
only ages (`TreeAges`, `SettledAges`) and since whoever is concerned is told (`Noticed`). That leaves
the command itself: one lemma for each (`RmKeeps`, `MvKeeps` and so on), which also shows that what it
took was its to take (`TakesItsOwn`).

**RotatingLoggerProofs**, for any finite set of messages and any numbers of faults:
`LoggerImplementsChannel`, the refinement that the run checks as `ImplementsChannel`. A step that
pushes out the stream is an `Advance` of the channel (`PushOutAdvances`, with `PrefixOfConcat` and
`RestOfConcat` for the sequences), a bad stream that swallows the messages is one that discards them
(`DiscardAdvances`), and the destructor is `Finish` (`DestroyFinishes`). The channel may only lose a
message after a fault, so `IInv` ties the flags of the code to faults: a disk that refuses or a
stream that is bad means a fault (`BadFileMeansFault`), a bad stream holds nothing
(`BadFileIsEmpty`), only an exiting writer drains (`DrainsOnlyAtExit`), and one that has left with a
good file left nothing behind (`ExitedIsDrained`).

Its second half is about `LogRotation`, for any limits, both engines, with and without compression,
and any numbers of rotations and faults: `NoGenerationLost`, `ExpiredOnlyByLimits` and
`ExitCompressesAll`. `FilesInv` has a part for each engine. With the timestamp engine every
generation has a tag of its own and a file carries the tag of what is in it (`StampedFiles`); the
compression works on earlier generations, and the source of its job disappears only when the target
is whole or seems to be, or when it has expired (`StampedJob`); what is pruned has expired
(`DoomedExpired`). With the numbered engine, as long as no rename has failed, a number is at most
the number of rotations its file has seen (`NumberedFiles`), and without compression the number a
file is about to get is free (`NumberIsFree`). That every generation is whole in some file, has
expired, or was truncated by its own compression is part of both (`Kept`). `ExitCompressesAll` needs
that a file waiting for compression is in the queue (`ZippingIsQueued`) and that the thread leaves
only after the queue is empty (`ExitOrder`).

**TransfersProofs**, for any clients and scenarios, any number of transfers and any pool:
`PrintedTagIsItsOwn`, and the action property `ForegroundReports`. The listener of a transfer lives in
the frame of its command and the promise of a start in the frame of `uploadNode`. `IInv` says that
both are still there when the SDK's thread uses them: a transfer that runs calls the listener of a
command that has not returned (`ListenersLive`), and a queued upload that will tell its start is the
one that its thread sleeps for (`StartsAwaited`), so the promise holds that tag or none
(`PromisesOwn`). The counters of a listener count the command's own transfers, the permits those that
have ended, and a failure of any of them is the final error (`OwnCounted`). As many permits as
transfers then means that all have ended: a subset of the same cardinality is the set itself.

The action property `ListIsComplete` has an invariant of its own, `ListInv`, because the list is
taken at one moment and asked for a tag at a time while the transfers go on. What a list holds are
transfers of that moment, each in the sequence of its type (`ListKnown`); and each that it owes to
its reader has a row or is still to be asked for, unless there are rows enough or one of them has
ended meanwhile (`OwedIsListed`). Every other step leaves the lists alone and transfers only age
(`LeavesListsKeeps`). The lemmas are about the sequences: the tags in ascending order are all of
them (`AscendingIs`, by counting); what is picked out of a sequence (`OnlyInTakes`) and that two
types share out the rows (`SharesAddUp`), both by induction over `Nat`.

**CommandProtocolProofs**, for any commands, nodes and chunks, cut into any pieces:
`ResultDelivered`, `OutputInOrder` and `UserDecides`. Nothing in the stream says what an item is, so
`IInv` has to say of everything under way that the client will read it as what it was sent:
`Grammar` for `cat` (what follows each item, up to where the petition thread goes on), `Dialogue`
for the commands that take turns with the client. A server that crashes leaves a stream that ends
anywhere, so `Grammar` allows for a cut at its end; of the stream to a client that was killed
nothing is claimed. The other commands print nothing, crash or not (`NoOutput`). `OutputInOrder`
then follows from `Streamed`: what was written and what is pending in the stream are together the
pieces that were sent, the written ones before the pending ones, and pieces join and leave the
stream in order (`SentOneMore`, `WrittenGrows`). `SendsAll` says that only a client that is gone
makes cat stop. `UserDecides` is inductive with `ForceIsGiven`, which says where a `force` that is
set came from.

**SessionProofs**, for any threads, commands, ways of being blocked and numbers of events:
`LoginGreetingHasLogin` is inductive once it is said that only a login enters the guard
(`GuardsAreOfLogins`) and that a new process has no greetings (`DownIsSilent`).
`ResumingShellIsTold`, the safety half of `ShellLeavesResuming`, comes from the same steps: whenever
a shell waits for the end of a login, some thread has that broadcast ahead of it.

**ShellProofs** begins with the trigger alone, for any set of callers and any number of calls.
`SingleWorker`, `CallbackIsLatest` and `NothingAfterDestructor` are not inductive: `TriggerInv` adds
that whoever joins or replaces the thread holds `mThreadMutex` (`MutexProtectsThread`), that between
the join and the new thread there is none (`StoppedMeansNoThread`), that a callback runs under the
other mutex (`CallbackHoldsMutex`), that issued ids are bounded by the counter (`IssuedIds`), and
that a call past the `isDestroyed` test cannot spawn after the destructor (`DoneMeansNoSpawn`).
`FiresInOrder`, an action property, follows from the same invariant. The run `shell` checks
`CallbackIsLatest`; the others are left to the proof.

It goes on with the whole system, for any number of shells, texts, broadcasters, scenarios, crashes
and restarts of the server. `SystemImplementsTrigger`: the trigger in the server behaves as the
trigger alone, with the rest of the system as its callers, so `CallbackIsLatest` of the whole system
follows from the proof about the class. `PasswordGoesToItsCommand` needs that the prompt, the
asked-for command and the three flags of a shell fit together (`PromptFits`, `FlagsFit`). The three
about messages share types (`ServerTyped`) and what a broadcasting thread holds (`HandsFit`):
* `KeptMessageIsNotLost`: a kept message is queued, in a hand that will keep it, among the greetings,
  handed out, or popped for a shell that had hung up (`KeptInv`);
* `DelayedInOrder`: what was queued is what was told, then what the one active thread is about to
  tell, then the queue (`DelayedInv`). That removing a superseded message keeps the others in order
  is a lemma about `NotMatching`, whose recursive function is shown to exist and to do what it says
  by induction over `Nat` (the lemma `Induction` has its hypothesis as a set);
* `EveryShellIsTold`: a registered shell knows, or the steps its registration has left will tell it,
  or a thread is about to (`ToldInv`, with the place of the registration).

**ConfigurationProofs**, for any threads, commands, paths, legacy syncs and numbers of failures, by
four invariants, each using the ones before it:
* `StoreInv`: types; what command may be at each point of a thread; at most one file is being
  written, by the thread that has `settingsMutex`, and `megacmd.cfg` is empty meanwhile. It gives
  `ImplementsStore`: every step is a step of `SettingsStore` or none. A thread that clears the file
  is one of a logout, and only a step that counts a failure loses more.
* `ListInv`: a thread that still has to save a list of locations has the mutex of its protocol, and
  the list it read is still the one stored, unless a command or a failure removed some of it. It
  gives `LocationsSurvive`.
* `SettingsInv`: a setting that two threads work on is unsettled (`Apart`); a thread that fetched
  the reclaiming options has them as the SDK does, but for its own (`Fetched`); for any other
  setting, unless a failure has unsettled it, what a command gave the SDK is what it will save, and
  a login has restored the settings it has been through (`WorksOn`). It gives `SavedIsRunning`.
* `BackupsInv`: the same for backups, by the point the command or the login has reached
  (`CopyingOn`, `ResumingOn`). It gives `BackupsAgree`.

**AutoUpdateProofs**, for any list of distinct files, releases, callers, threads and numbers of faults
and crashes. `IInv` is about the updater alone: the threads of the server can only start one
(`ThreadsOnlyStartIt`).
* `OnlyVerifiedIsInstalled`: the files of the list that the updater has been through while it
  downloads, and those it still has to install, are what was published (`Downloaded`). The list
  is of the files that are not installed as published; that it lists files, and none twice, is shown
  by induction over `Nat` (`LackingListsFiles`).
* `FailedInstallRestores`: up to its position in the list a file is in the backup folder as it was
  before the update, after it it is in place (`Saved`), and the backup folder holds nothing else
  while installing (`NoneSavedAfter`). A rollback walks the position back, so when it is at the
  first file `Saved` says of every file that it is in place. All of this is said of the files that no
  failing rename or removal has left behind: that such a failure costs no other file is what the
  walk, one file per step and whatever became of the one before, has to keep.

In `ConfigurationProofs` and `ShellProofs`, most steps do not touch what an invariant is about; for
each invariant a few lemmas say so once for a class of steps (`QuietKeeps`, `OthersListed` and their
like), and each remaining step has its own.

The assumptions are the named ASSUMEs of the component modules; TLC evaluates them in the runs.

**Only model-checked:** every liveness property (ENABLED and fairness are outside the prover's
reach), and `LsListsMatches` of `RemoteTree`. That one compares three recursive walks along a path of
any length over a tree of any shape, which would take an induction over paths; and it is not true of
every script, since a pattern that ends with a `..` above the root is listed and matches nothing. So
it is checked for the paths of the run. No module that holds theorems reaches a RECURSIVE operator;
recursive functions are reasoned about by induction over the set `Nat`, in `ShellProofs`,
`ServerProofs`, `AutoUpdateProofs` and `TransfersProofs`.

## 5. What is not modelled

* Data races that are undefined behaviour whatever the order: `validCommands`, the vector
  `petitionThreads` (`megacmd.cpp:4670`), the prompt read while it is assigned, and memory that is
  used after it was freed: by petitions that `finalize` does not wait for, by the detached thread of
  the delayed messages, by the main thread that registers a shell which another thread erases, and
  by two commands that erase one entry of the map of backups, which neither locks
  (`megacmdexecuter.cpp:6899`).
* A negative `--limit` of `transfers`, which the code does not refuse: the limit is assumed to be a
  natural number.
* Sizes: the log buffers, a socket that is full because a shell does not read (the time limit of a
  send is set in debug builds only).
* The restart handshake of `finalize`, the execution lock, migration of configuration folders.
* Parts of commands: folder links and two factor codes at login, the server's side of confirm and
  signup, public service announcements, shares of other users, links, find, du, tree, attr, users,
  invitations, thumbnails, media information, listings and the text of columns.
* Windows (named pipes, the shell's update command), `--emergency-update`, the signature arithmetic.
* The copies that a backup makes, synchronisation and mounts themselves: they are the SDK's.
* Components marked `not_modelled` in `PROJECT.json`: the logger's front end (formatting), the pure
  utilities, Windows communication, packaging and loader.

## 6. Plan

1. An abstract specification of broadcasts (each shell hears what was sent after it was greeted, in
   order, or is dropped) that `Broadcasts` implements, and one of a foreground transfer that
   `Transfers` implements.
2. The pure utilities (patterns, unquoting of words, UTF-8 and percentages) as recursive functions
   against reference definitions.
3. The remaining node commands: find, users and invitations, links.
