---------------------------- MODULE RotatingLogger ----------------------------
(***************************************************************************)
(* FileRotatingLoggedStream and its MessageBus (megacmd_rotating_logger):   *)
(* every thread of the server appends to the back buffer, and one writer    *)
(* thread swaps the buffers and writes to the log file, reopening it when   *)
(* it went bad and rotating it when it has grown too large.                 *)
(*                                                                          *)
(* A message is appended, or the flag mExit or mFlush changed, under        *)
(* mWriteMtx; the writer reads them one at a time, so each read is a step.  *)
(* The front buffer is private to the writer: swapping and writing it out   *)
(* is one step.  mOutputFile is a stream with a buffer of its own: what was *)
(* written is on disk only after a flush, a close or an overflow, each of   *)
(* which fails when the disk does.  What a rotation does to the files is in *)
(* LogRotation.  setForceRenew(true) is called nowhere in the program, so   *)
(* renewal never happens.                                                   *)
(***************************************************************************)
EXTENDS Naturals, Sequences, FiniteSets

CONSTANTS
    Messages,       \* messages that the threads may log, each once
    FailSafe,       \* mFailSafeSize, in messages
    MaxDiskFaults,  \* how often the disk may become unwritable
    MaxBadAllocs    \* how often an append may run out of memory

ASSUME ConstantsAssumption ==
    /\ IsFiniteSet(Messages)
    /\ FailSafe \in Nat \ {0}
    /\ MaxDiskFaults \in Nat
    /\ MaxBadAllocs \in Nat

VARIABLES
    backBuffer,     \* messages appended and not swapped yet
    mMemoryError,   \* an append threw bad_alloc since the last swap
    unflushed,      \* messages in the buffer of mOutputFile
    disk,           \* messages on disk, over all rotated files
    fileOk,         \* the state of mOutputFile
    writable,       \* whether the disk takes writes (environment)
    mExit,
    mFlush,
    writer,         \* control state of the writer thread
    destructor,     \* control state of the destructor
    logged,         \* history: messages given to writeToBuffer
    dropped,        \* history: messages that will never be on disk
    toStderr,       \* history: messages that went to stderr
    unreported,     \* a write failed and stderr does not say so yet
    diskFaults,
    badAllocs

vars == <<backBuffer, mMemoryError, unflushed, disk, fileOk, writable, mExit,
          mFlush, writer, destructor, logged, dropped, toStderr, unreported,
          diskFaults, badAllocs>>

busVars == <<backBuffer, mMemoryError>>
fileVars == <<unflushed, disk, fileOk, unreported>>
flagVars == <<mExit, mFlush>>
envVars == <<writable, diskFaults, badAllocs>>

MessagesIn(s) == {s[i] : i \in DOMAIN s}

Init ==
    /\ backBuffer = <<>>
    /\ mMemoryError = FALSE
    /\ unflushed = <<>>
    /\ disk = <<>>
    /\ fileOk = TRUE
    /\ writable = TRUE
    /\ mExit = FALSE
    /\ mFlush = FALSE
    /\ writer = "loop"
    /\ destructor = "none"
    /\ logged = {}
    /\ dropped = {}
    /\ toStderr = {}
    /\ unreported = FALSE
    /\ diskFaults = 0
    /\ badAllocs = 0

-----------------------------------------------------------------------------
(* The threads that log *)

(* writeToBuffer: after the exit mark messages go to stderr instead. *)
writeToBuffer(m) ==
    /\ m \notin logged
    /\ destructor # "done"
    /\ logged' = logged \cup {m}
    /\ \/ /\ mExit
          /\ toStderr' = toStderr \cup {m}
          /\ UNCHANGED <<busVars, dropped, badAllocs>>
       \/ /\ ~mExit
          /\ backBuffer' = Append(backBuffer, m)
          /\ UNCHANGED <<mMemoryError, dropped, toStderr, badAllocs>>
       \/ /\ ~mExit
          /\ badAllocs < MaxBadAllocs
          /\ badAllocs' = badAllocs + 1
          /\ mMemoryError' = TRUE
          /\ dropped' = dropped \cup {m}
          /\ UNCHANGED <<backBuffer, toStderr>>
    /\ UNCHANGED <<fileVars, flagVars, writable, diskFaults, writer, destructor>>

flush ==
    /\ ~mExit
    /\ mFlush' = TRUE
    /\ UNCHANGED <<busVars, fileVars, mExit, envVars, writer, destructor, logged,
                   dropped, toStderr>>

(* The destructor: markForExit, then join the writer and close the file. *)
markForExit ==
    /\ destructor = "none"
    /\ mExit' = TRUE
    /\ destructor' = "joining"
    /\ UNCHANGED <<busVars, fileVars, mFlush, envVars, writer, logged, dropped,
                   toStderr>>

-----------------------------------------------------------------------------
(* The disk *)

DiskFails ==
    /\ writable
    /\ diskFaults < MaxDiskFaults
    /\ writable' = FALSE
    /\ diskFaults' = diskFaults + 1
    /\ UNCHANGED <<busVars, fileVars, flagVars, badAllocs, writer, destructor,
                   logged, dropped, toStderr>>

DiskRecovers ==
    /\ ~writable
    /\ writable' = TRUE
    /\ UNCHANGED <<busVars, fileVars, flagVars, diskFaults, badAllocs, writer,
                   destructor, logged, dropped, toStderr>>

(* Push what the stream holds out to the disk.  When the disk fails, only a *)
(* prefix arrives and the rest of the stream is gone.                       *)
PushOut(content) ==
    \/ /\ writable
       /\ disk' = disk \o content
       /\ unflushed' = <<>>
       /\ UNCHANGED <<dropped, unreported>>
    \/ /\ ~writable
       /\ content # <<>>
       /\ \E n \in 0 .. Len(content) - 1 :
             /\ disk' = disk \o SubSeq(content, 1, n)
             /\ dropped' = dropped
                    \cup MessagesIn(SubSeq(content, n + 1, Len(content)))
       /\ unflushed' = <<>>
       /\ unreported' = TRUE
    \/ /\ ~writable
       /\ content = <<>>
       /\ UNCHANGED <<disk, unflushed, dropped, unreported>>

-----------------------------------------------------------------------------
(* The writer thread, mainLoop *)

WriterAt(state) == writer = state

(* "while (!shouldExit() || !mMessageBus.isEmpty())": the two reads take    *)
(* the two locks one after the other.                                       *)
LoopOrDrain ==
    /\ WriterAt("loop")
    /\ writer' = IF mExit THEN "drain" ELSE "file"
    /\ UNCHANGED <<busVars, fileVars, flagVars, envVars, destructor, logged,
                   dropped, toStderr>>

LeaveWhenEmpty ==
    /\ WriterAt("drain")
    /\ writer' = IF backBuffer = <<>> THEN "exited" ELSE "file"
    /\ UNCHANGED <<busVars, fileVars, flagVars, envVars, destructor, logged,
                   dropped, toStderr>>

(* waitForOutputFile returned false: report on stderr and reopen. *)
Reopen ==
    /\ WriterAt("file")
    /\ ~fileOk
    /\ fileOk' = writable
    /\ unreported' = FALSE
    /\ writer' = "check"
    /\ UNCHANGED <<busVars, unflushed, disk, flagVars, envVars, destructor,
                   logged, dropped, toStderr>>

(* The file is good, and small enough or rotated: a rotation closes it,     *)
(* which flushes it, and opens a new one.                                   *)
KeepFile ==
    /\ WriterAt("file")
    /\ fileOk
    /\ writer' = "check"
    /\ UNCHANGED <<busVars, fileVars, flagVars, envVars, destructor, logged,
                   dropped, toStderr>>

RotateFile ==
    /\ WriterAt("file")
    /\ fileOk
    /\ disk # <<>> \/ unflushed # <<>>
    /\ PushOut(unflushed)
    /\ fileOk' = writable
    /\ writer' = "check"
    /\ UNCHANGED <<busVars, flagVars, envVars, destructor, logged, toStderr>>

(* Mutant of CheckFile: a bad file does not end the loop of an exiting      *)
(* writer.                                                                  *)
MutKeepTrying ==
    /\ WriterAt("check")
    /\ writer' = IF fileOk \/ Len(backBuffer) >= FailSafe THEN "wait" ELSE "loop"
    /\ UNCHANGED <<busVars, fileVars, flagVars, envVars, destructor, logged,
                   dropped, toStderr>>

(* A file that cannot be opened: give up when exiting, try again unless the *)
(* buffer has reached the fail-safe size.                                   *)
CheckFile ==
    /\ WriterAt("check")
    /\ writer' = IF fileOk THEN "wait"
                 ELSE IF mExit THEN "exited"
                 ELSE IF Len(backBuffer) < FailSafe THEN "loop" ELSE "wait"
    /\ UNCHANGED <<busVars, fileVars, flagVars, envVars, destructor, logged,
                   dropped, toStderr>>

(* wait_for on mWriteCV: woken with something to do, or timed out. *)
SomethingToDo == mExit \/ mFlush \/ backBuffer # <<>>

WaitForMessages ==
    /\ WriterAt("wait")
    /\ writer' = IF SomethingToDo THEN "write" ELSE "flush"
    /\ UNCHANGED <<busVars, fileVars, flagVars, envVars, destructor, logged,
                   dropped, toStderr>>

(* Mutant of writeMessagesToFile: the new messages overtake the buffered.   *)
MutOvertake ==
    /\ WriterAt("write")
    /\ fileOk
    /\ unflushed' = backBuffer \o unflushed
    /\ backBuffer' = <<>>
    /\ mMemoryError' = FALSE
    /\ writer' = "flush"
    /\ UNCHANGED <<disk, fileOk, unreported, flagVars, envVars,
                   destructor, logged, dropped, toStderr>>

(* swapBuffers and the write of the front buffer.  A good stream keeps the  *)
(* messages in its buffer or pushes them out; a bad one ignores them.       *)
writeMessagesToFile ==
    /\ WriterAt("write")
    /\ backBuffer' = <<>>
    /\ mMemoryError' = FALSE
    /\ \/ /\ fileOk
          /\ unflushed' = unflushed \o backBuffer
          /\ UNCHANGED <<disk, fileOk, unreported, dropped>>
       \/ /\ fileOk
          /\ PushOut(unflushed \o backBuffer)
          /\ fileOk' = (writable \/ unflushed \o backBuffer = <<>>)
       \/ /\ ~fileOk
          /\ dropped' = dropped \cup MessagesIn(backBuffer)
          /\ UNCHANGED <<unflushed, disk, fileOk, unreported>>
    /\ writer' = "flush"
    /\ UNCHANGED <<flagVars, envVars, destructor, logged, toStderr>>

(* shouldFlush: on request, or when the flush period has passed. *)
flushToFile ==
    /\ WriterAt("flush")
    /\ \/ /\ fileOk
          /\ PushOut(unflushed)
          /\ fileOk' = (writable \/ unflushed = <<>>)
       \/ /\ ~fileOk
          /\ UNCHANGED <<fileVars, dropped>>
    /\ mFlush' = FALSE
    /\ writer' = "loop"
    /\ UNCHANGED <<busVars, mExit, envVars, destructor, logged, toStderr>>

SkipFlush ==
    /\ WriterAt("flush")
    /\ ~mFlush
    /\ writer' = "loop"
    /\ UNCHANGED <<busVars, fileVars, flagVars, envVars, destructor, logged,
                   dropped, toStderr>>

WriterStep ==
    \/ LoopOrDrain \/ LeaveWhenEmpty \/ Reopen \/ KeepFile \/ RotateFile
    \/ CheckFile \/ WaitForMessages \/ writeMessagesToFile \/ flushToFile
    \/ SkipFlush

(* The destructor after the join: mOutputFile and the bus are destroyed.    *)
(* Closing the file pushes out the rest; an error there is not reported.    *)
Destroy ==
    /\ destructor = "joining"
    /\ writer = "exited"
    /\ destructor' = "done"
    /\ IF writable
       THEN /\ disk' = disk \o unflushed
            /\ dropped' = dropped \cup MessagesIn(backBuffer)
       ELSE /\ UNCHANGED disk
            /\ dropped' = dropped \cup MessagesIn(unflushed \o backBuffer)
    /\ unflushed' = <<>>
    /\ backBuffer' = <<>>
    /\ fileOk' = FALSE
    /\ UNCHANGED <<mMemoryError, unreported, flagVars, envVars, writer, logged,
                   toStderr>>

Next ==
    \/ \E m \in Messages : writeToBuffer(m)
    \/ flush
    \/ markForExit
    \/ DiskFails
    \/ DiskRecovers
    \/ WriterStep
    \/ Destroy

Spec == Init /\ [][Next]_vars

(* The writer runs, the flush period passes again and again, and the        *)
(* destructor, once called, goes on.  The disk owes nothing.                *)
Fairness ==
    /\ WF_vars(WriterStep)
    /\ SF_vars(flushToFile)
    /\ WF_vars(Destroy)

FairSpec == Spec /\ Fairness

-----------------------------------------------------------------------------
(* Properties *)

TypeOK ==
    /\ backBuffer \in Seq(Messages)
    /\ mMemoryError \in BOOLEAN
    /\ unflushed \in Seq(Messages)
    /\ disk \in Seq(Messages)
    /\ Len(backBuffer) + Len(unflushed) + Len(disk) <= Cardinality(Messages)
    /\ fileOk \in BOOLEAN
    /\ writable \in BOOLEAN
    /\ mExit \in BOOLEAN
    /\ mFlush \in BOOLEAN
    /\ writer \in {"loop", "drain", "file", "check", "wait", "write", "flush",
                   "exited"}
    /\ destructor \in {"none", "joining", "done"}
    /\ logged \subseteq Messages
    /\ dropped \subseteq Messages
    /\ toStderr \subseteq Messages
    /\ unreported \in BOOLEAN
    /\ diskFaults \in 0 .. MaxDiskFaults
    /\ badAllocs \in 0 .. MaxBadAllocs

(* The server's shutdown never hangs on its log: the destructor returns,    *)
(* whether or not the log file can be written.                              *)
DestructorReturns == (destructor = "joining") ~> (destructor = "done")

(* The logger implements the channel. *)
Channel == INSTANCE LogChannel WITH
    faulty    <- diskFaults + badAllocs > 0,
    accepted  <- logged \ toStderr,
    pending   <- unflushed \o backBuffer,
    delivered <- disk,
    open      <- ~mExit,
    finished  <- destructor = "done"

ImplementsChannel == Channel!Spec

=============================================================================
