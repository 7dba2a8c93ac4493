----------------------------- MODULE LogRotation -----------------------------
(***************************************************************************)
(* What RotatingFileManager does to the log files: the writer thread of the *)
(* logger rotates the base file with a NumberedRotationEngine or a          *)
(* TimestampRotationEngine and hands the rotated file to the                *)
(* GzipCompressionEngine, whose own thread compresses the queued files.     *)
(* The two threads share the directory and the job queue.                   *)
(*                                                                          *)
(* A generation is what the base file held between two rotations.  A file   *)
(* is known by its kind (base, plain, zipping, gz) and its tag: the number  *)
(* for the numbered engine, the timestamp for the other one.  Time is the   *)
(* number of the generation: timestamps have microseconds and are unique.   *)
(* An open file keeps its content when its name is renamed or removed, as   *)
(* on POSIX systems.  cancelAll and cleanupFiles are left out: the program  *)
(* never forces a renewal.                                                  *)
(***************************************************************************)
EXTENDS Naturals, Sequences, FiniteSets

CONSTANTS
    Setups,           \* configurations: rotation type, and whether to compress
    MaxFilesToKeep,
    MaxFileAge,       \* in generations; 0 when files do not age
    MaxGenerations,   \* bound on the number of rotations
    MaxFaults         \* bound on the number of calls of the file system that fail

ASSUME LogRotationAssumption ==
    /\ Setups \subseteq {"Numbered", "Timestamp"} \X BOOLEAN
    /\ MaxFilesToKeep \in Nat
    /\ MaxFileAge \in Nat
    /\ MaxGenerations \in Nat \ {0}
    /\ MaxFaults \in Nat

VARIABLES
    setup,      \* the configuration, fixed at the start
    dir,        \* the directory: file name -> content
    now,        \* generation that the base file collects
    rotator,    \* control state of the writer thread
    index,      \* loop index of NumberedRotationEngine::rotateFiles
    doomed,     \* files that the timestamp engine is about to remove
    queue,      \* mQueue: names of the files to compress
    gzip,       \* control state of the compression thread
    job,        \* the job it runs
    engineExit, \* mExit of the compression engine
    faults,
    expired,    \* history: generations removed because the limits say so
    truncated   \* history: generations whose compression failed unnoticed

rotationVars == <<setup, dir, now, rotator, index, doomed, queue, gzip, job, engineExit,
                  faults, expired, truncated>>

RotationType == setup[1]
Compressed == setup[2]     \* CompressionType::Gzip, else None

rotatorVars == <<setup, now, rotator, index, doomed, expired>>
gzipVars == <<gzip, job, truncated>>

File(k, t) == [kind |-> k, tag |-> t]
Base == File("base", 0)
Rotated == {n \in DOMAIN dir : n.kind # "base"}

Whole(g) == [gen |-> g, whole |-> TRUE]
Partial(g) == [gen |-> g, whole |-> FALSE]

(* Directory operations: remove is quiet about a file that does not exist.  *)
Removed(d, ns) == [n \in DOMAIN d \ ns |-> d[n]]
Renamed(d, src, dst) ==
    [n \in (DOMAIN d \ {src}) \cup {dst} |-> IF n = dst THEN d[src] ELSE d[n]]
Created(d, n, c) == [m \in DOMAIN d \cup {n} |-> IF m = n THEN c ELSE d[m]]

NoJob == [src |-> Base, dst |-> Base, gen |-> 0]

RotationInit ==
    /\ setup \in Setups
    /\ dir = [n \in {Base} |-> Whole(1)]
    /\ now = 1
    /\ rotator = "idle"
    /\ index = 0
    /\ doomed = {}
    /\ queue = <<>>
    /\ gzip = "waiting"
    /\ job = NoJob
    /\ engineExit = FALSE
    /\ faults = 0
    /\ expired = {}
    /\ truncated = {}

(* A rename or a removal works, or fails and changes nothing. *)
MayFail(next) ==
    \/ dir' = next /\ UNCHANGED faults
    \/ faults < MaxFaults /\ faults' = faults + 1 /\ UNCHANGED dir

-----------------------------------------------------------------------------
(* The writer thread rotates; the base file is closed meanwhile. *)

StartRotation ==
    /\ rotator = "idle"
    /\ now < MaxGenerations
    /\ ~engineExit
    /\ rotator' = IF RotationType = "Numbered" THEN "number" ELSE "stamp"
    /\ index' = MaxFilesToKeep
    /\ UNCHANGED <<setup, dir, now, doomed, expired, queue, gzipVars, engineExit, faults>>

(* NumberedRotationEngine::rotateFiles, one turn of its loop *)

Src(i) == IF i = 0 THEN Base ELSE File(IF Compressed THEN "gz" ELSE "plain", i)

Dst(i) == IF i = 0 THEN File("plain", 1)
                   ELSE File(IF Compressed THEN "gz" ELSE "plain", i + 1)

IsLastFile(i) == i = MaxFilesToKeep
IsLastTurn(i) == i = 0

NumberStep ==
    /\ rotator = "number"
    /\ IF Src(index) \notin DOMAIN dir
       THEN UNCHANGED <<dir, expired, faults>>
       ELSE IF IsLastFile(index)
       THEN /\ MayFail(Removed(dir, {Src(index)}))
            /\ expired' = expired \cup {dir[Src(index)].gen}
       ELSE /\ MayFail(Renamed(dir, Src(index), Dst(index)))
            /\ UNCHANGED expired
    /\ IF IsLastTurn(index)
       THEN rotator' = "clash" /\ UNCHANGED index
       ELSE index' = index - 1 /\ UNCHANGED rotator
    /\ UNCHANGED <<setup, now, doomed, queue, gzipVars, engineExit>>

(* TimestampRotationEngine: rename the base file, then look for what the    *)
(* limits say is too old or too much. *)
StampStep ==
    /\ rotator = "stamp"
    /\ MayFail(Renamed(dir, Base, File("plain", now)))
    /\ rotator' = "scan"
    /\ UNCHANGED <<setup, now, index, doomed, expired, queue, gzipVars, engineExit>>

(* Each timestamp counts once, whichever of its files the walk meets first. *)
Tags == {n.tag : n \in Rotated}

OneFilePerTag ==
    {s \in SUBSET Rotated :
        /\ \A t \in Tags : \E n \in s : n.tag = t
        /\ \A m, n \in s : m.tag = n.tag => m = n}

Newer(t) == {u \in Tags : u > t}

MutKeepOneLess(t) ==
    \/ MaxFileAge > 0 /\ t + MaxFileAge < now
    \/ Cardinality(Newer(t)) >= MaxFilesToKeep - 1

TooOld(t) ==
    \/ MaxFileAge > 0 /\ t + MaxFileAge < now
    \/ Cardinality(Newer(t)) >= MaxFilesToKeep

(* Walking over the base file, which is there when its rename failed, takes *)
(* a substring past its end: the exception leaves the thread and ends the   *)
(* process. *)
ScanDirectory ==
    /\ rotator = "scan"
    /\ IF Base \in DOMAIN dir
       THEN /\ rotator' = "terminated"
            /\ UNCHANGED <<doomed, expired>>
       ELSE \E files \in OneFilePerTag :
            /\ doomed' = {n \in files : TooOld(n.tag)}
            /\ expired' = expired \cup {t \in Tags : TooOld(t)}
            /\ rotator' = "prune"
    /\ UNCHANGED <<setup, dir, now, index, queue, gzipVars, engineExit, faults>>

Prune ==
    /\ rotator = "prune"
    /\ \E n \in doomed :
          /\ \A m \in doomed : n.tag <= m.tag
          /\ MayFail(Removed(dir, {n}))
          /\ doomed' = doomed \ {n}
    /\ UNCHANGED <<setup, now, rotator, index, expired, queue, gzipVars, engineExit>>

PruneEnds ==
    /\ rotator = "prune"
    /\ doomed = {}
    /\ rotator' = "clash"
    /\ UNCHANGED <<setup, dir, now, index, doomed, expired, queue, gzipVars, engineExit,
                   faults>>

(* GzipCompressionEngine::compressFile: move the newly rotated file out of  *)
(* the way, after removing a file of that name, and queue it; a file of     *)
(* that name that could not be removed ends it.  The plain                  *)
(* CompressionEngine does nothing. *)
NewTag == IF RotationType = "Numbered" THEN 1 ELSE now
Zipping == File("zipping", NewTag)

RemoveClash ==
    /\ rotator = "clash"
    /\ IF Compressed /\ Zipping \in DOMAIN dir
       THEN MayFail(Removed(dir, {Zipping}))
       ELSE UNCHANGED <<dir, faults>>
    /\ rotator' = "handover"
    /\ UNCHANGED <<setup, now, index, doomed, expired, queue, gzipVars, engineExit>>

Reopened(d) == IF Base \in DOMAIN d THEN d ELSE Created(d, Base, Whole(now + 1))

Handover ==
    /\ rotator = "handover"
    /\ LET plain == File("plain", NewTag) IN
       IF Compressed /\ plain \in DOMAIN dir /\ Zipping \notin DOMAIN dir
       THEN \/ /\ dir' = Reopened(Renamed(dir, plain, Zipping))
               /\ queue' = Append(queue, NewTag)
               /\ UNCHANGED faults
            \/ /\ faults < MaxFaults
               /\ faults' = faults + 1
               /\ dir' = Reopened(dir)
               /\ UNCHANGED queue
       ELSE dir' = Reopened(dir) /\ UNCHANGED <<queue, faults>>
    /\ now' = IF Base \in DOMAIN dir THEN now ELSE now + 1
    /\ rotator' = "idle"
    /\ UNCHANGED <<setup, index, doomed, expired, gzipVars, engineExit>>

(* The logger is destroyed: its writer thread is joined first, then the     *)
(* compression engine is told to exit once its queue is empty. *)
Exit ==
    /\ rotator = "idle"
    /\ ~engineExit
    /\ engineExit' = TRUE
    /\ UNCHANGED <<dir, rotatorVars, queue, gzipVars, faults>>

RotatorStep ==
    \/ NumberStep \/ StampStep \/ ScanDirectory \/ Prune \/ PruneEnds
    \/ RemoveClash \/ Handover

-----------------------------------------------------------------------------
(* The compression thread *)

ProcessAlive == rotator # "terminated"

(* Mutant of TakeJob: exits although jobs are queued. *)
MutExitAtOnce ==
    /\ gzip = "waiting"
    /\ ProcessAlive
    /\ IF engineExit
       THEN gzip' = "exited" /\ UNCHANGED <<job, queue>>
       ELSE /\ queue # <<>>
            /\ job' = [src |-> File("zipping", Head(queue)),
                       dst |-> File("gz", Head(queue)), gen |-> 0]
            /\ queue' = Tail(queue)
            /\ gzip' = "open"
    /\ UNCHANGED <<dir, rotatorVars, engineExit, faults, truncated>>

TakeJob ==
    /\ gzip = "waiting"
    /\ ProcessAlive
    /\ \/ /\ queue # <<>>
          /\ job' = [src |-> File("zipping", Head(queue)),
                     dst |-> File("gz", Head(queue)), gen |-> 0]
          /\ queue' = Tail(queue)
          /\ gzip' = "open"
       \/ /\ queue = <<>>
          /\ engineExit
          /\ gzip' = "exited"
          /\ UNCHANGED <<job, queue>>
    /\ UNCHANGED <<dir, rotatorVars, engineExit, faults, truncated>>

(* gzipFile opens the source; a source that is gone ends the job. *)
OpenSource ==
    /\ gzip = "open"
    /\ ProcessAlive
    /\ IF job.src \in DOMAIN dir
       THEN /\ job' = [job EXCEPT !.gen = dir[job.src].gen]
            /\ gzip' = "create"
       ELSE gzip' = "waiting" /\ UNCHANGED job
    /\ UNCHANGED <<dir, rotatorVars, queue, engineExit, faults, truncated>>

(* Mutant of CreateTarget: the source is removed before the target   *)
(* is complete. *)
MutRemoveEarly ==
    /\ gzip = "create"
    /\ ProcessAlive
    /\ dir' = Removed(Created(dir, job.dst, Partial(job.gen)), {job.src})
    /\ gzip' = "compress"
    /\ UNCHANGED <<rotatorVars, job, queue, engineExit, faults, truncated>>

CreateTarget ==
    /\ gzip = "create"
    /\ ProcessAlive
    /\ \/ /\ dir' = Created(dir, job.dst, Partial(job.gen))
          /\ gzip' = "compress"
          /\ UNCHANGED faults
       \/ /\ faults < MaxFaults
          /\ faults' = faults + 1
          /\ gzip' = "waiting"
          /\ UNCHANGED dir
    /\ UNCHANGED <<rotatorVars, job, queue, engineExit, truncated>>

(* All lines are written and the target is closed, under whatever name it   *)
(* has by now.  Or a write fails, the partial target stays and the source,  *)
(* too.  Or the target stays partial and nobody notices: a line that cannot *)
(* be read ends the loop as the end of the file does, and the result of     *)
(* gzclose, which writes what zlib still holds, is ignored.                 *)
Compress ==
    /\ gzip = "compress"
    /\ ProcessAlive
    /\ \/ /\ dir' = [n \in DOMAIN dir |-> IF dir[n] = Partial(job.gen)
                                          THEN Whole(job.gen) ELSE dir[n]]
          /\ gzip' = "remove"
          /\ UNCHANGED <<faults, truncated>>
       \/ /\ faults < MaxFaults
          /\ faults' = faults + 1
          /\ UNCHANGED dir
          /\ \/ gzip' = "waiting" /\ UNCHANGED truncated
             \/ gzip' = "remove" /\ truncated' = truncated \cup {job.gen}
    /\ UNCHANGED <<rotatorVars, job, queue, engineExit>>

RemoveSource ==
    /\ gzip = "remove"
    /\ ProcessAlive
    /\ MayFail(Removed(dir, {job.src}))
    /\ gzip' = "waiting"
    /\ UNCHANGED <<rotatorVars, job, queue, engineExit, truncated>>

GzipStep == TakeJob \/ OpenSource \/ CreateTarget \/ Compress \/ RemoveSource

-----------------------------------------------------------------------------
RotationNext == StartRotation \/ RotatorStep \/ Exit \/ GzipStep

RotationSpec == RotationInit /\ [][RotationNext]_rotationVars

-----------------------------------------------------------------------------
(* Properties *)

Intact(g) == \E n \in DOMAIN dir : dir[n] = Whole(g)

(* A generation disappears from disk only because the limits say so, or     *)
(* because its own compression failed without gzipFile noticing, which then *)
(* removed the source; whatever the compression thread is doing when the    *)
(* next rotation starts, and whatever else fails.  The numbered engine      *)
(* keeps this promise only when it does not compress (the file being        *)
(* compressed is always base.1.zipping: the next rotation removes or        *)
(* overwrites it) and its renames work.                                     *)
NoGenerationLost ==
    RotationType = "Timestamp" \/ (~Compressed /\ faults = 0) =>
        \A g \in 1 .. now : Intact(g) \/ g \in expired \cup truncated

(* The limits are honoured as such: only generations that are not among the *)
(* newest MaxFilesToKeep, or too old, expire.  (The numbers also move on    *)
(* when the rename of the base file fails.)                                 *)
ExpiredOnlyByLimits ==
    RotationType = "Timestamp" \/ faults = 0 =>
        \A g \in expired :
            \/ g + MaxFilesToKeep <= now
            \/ MaxFileAge > 0 /\ g + MaxFileAge < now

(* "We want to exit gracefull": when the compression thread has exited,     *)
(* nothing is waiting to be compressed (unless a fault intervened).         *)
ExitCompressesAll ==
    gzip = "exited" /\ faults = 0 => \A n \in DOMAIN dir : n.kind # "zipping"

=============================================================================
