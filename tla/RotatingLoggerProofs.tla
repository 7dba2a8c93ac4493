------------------------- MODULE RotatingLoggerProofs -------------------------
(***************************************************************************)
(* Proofs about the rotating logger: RotatingLogger, for any set of         *)
(* messages and any number of disk faults and failed allocations, and       *)
(* LogRotation, for any limits and any number of rotations and faults.      *)
(*                                                                          *)
(* 1. The logger implements LogChannel.  The channel may discard a message  *)
(* only after a fault, and has to be closed and drained before it is torn   *)
(* down.  The inductive invariant (IInv) says what ties the code's flags to *)
(* that: a stream is bad or a disk refuses writes only because of a fault   *)
(* (BadFileMeansFault), a bad stream holds nothing (BadFileIsEmpty), only   *)
(* an exiting writer drains (DrainsOnlyAtExit), and a writer that has left  *)
(* with a good file has left no message behind (ExitedIsDrained).           *)
(*                                                                          *)
(* 2. What the log files on disk hold.  The inductive invariant (FilesInv)  *)
(* says what the two engines rely on.  The timestamp engine gives every     *)
(* generation a tag of its own, so that the compression thread only ever    *)
(* replaces a file by its own compressed form (StampedFiles, StampedJob).   *)
(* The numbered engine moves each file to a number that the turn before has *)
(* freed (NumberIsFree), and a number never exceeds the rotations its file  *)
(* has seen (NumberedFiles).                                                *)
(***************************************************************************)
EXTENDS RotatingLogger, LogRotation, SequenceTheorems, FiniteSetTheorems, TLAPS

-----------------------------------------------------------------------------
(* The inductive invariant *)

Domains ==
    /\ backBuffer \in Seq(Messages)
    /\ unflushed \in Seq(Messages)
    /\ disk \in Seq(Messages)
    /\ fileOk \in BOOLEAN
    /\ writable \in BOOLEAN
    /\ mExit \in BOOLEAN
    /\ writer \in {"loop", "drain", "file", "check", "wait", "write", "flush",
                   "exited"}
    /\ destructor \in {"none", "joining", "done"}
    /\ diskFaults \in Nat
    /\ badAllocs \in Nat

BadFileMeansFault ==
    /\ ~writable => diskFaults > 0
    /\ ~fileOk /\ destructor # "done" => diskFaults > 0

BadFileIsEmpty == ~fileOk => unflushed = <<>>

DestructorMarksExit == mExit <=> destructor # "none"

DrainsOnlyAtExit == writer \in {"drain", "exited"} => mExit

ExitedIsDrained == writer = "exited" /\ fileOk => backBuffer = <<>>

DoneMeansExited == destructor = "done" => writer = "exited"

StderrIsLogged == toStderr \subseteq logged

IInv ==
    /\ Domains
    /\ BadFileMeansFault
    /\ BadFileIsEmpty
    /\ DestructorMarksExit
    /\ DrainsOnlyAtExit
    /\ ExitedIsDrained
    /\ DoneMeansExited
    /\ StderrIsLogged

-----------------------------------------------------------------------------
(* Lemmas about sequences *)

(* A first part of a concatenation that ends within its left operand. *)
LEMMA PrefixOfConcat ==
    ASSUME NEW S, NEW s \in Seq(S), NEW t \in Seq(S), NEW n \in 0 .. Len(s)
    PROVE  SubSeq(s \o t, 1, n) = SubSeq(s, 1, n)
<1>0. Len(s) \in Nat /\ n \in Int /\ 1 \in Int
  BY LenProperties
<1>1. CASE n = 0
  BY <1>0, <1>1, SubSeqEmpty
<1>2. CASE n # 0
  <2>1. n \in 1 .. Len(s) /\ 1 \in 1 .. Len(s)
    BY <1>0, <1>2
  <2> QED
    BY <2>1, SubSeqOfConcat1
<1> QED
  BY <1>1, <1>2

(* What is left of a concatenation without its left operand. *)
LEMMA RestOfConcat ==
    ASSUME NEW S, NEW s \in Seq(S), NEW t \in Seq(S)
    PROVE  SubSeq(s \o t, Len(s) + 1, Len(s \o t)) = t
<1>0. Len(s) \in Nat /\ Len(t) \in Nat /\ Len(s \o t) = Len(s) + Len(t)
  BY LenProperties, ConcatProperties
<1>1. CASE t = <<>>
  <2>1. Len(s \o t) < Len(s) + 1
    BY <1>0, <1>1
  <2> QED
    BY <1>0, <1>1, <2>1, SubSeqEmpty
<1>2. CASE t # <<>>
  <2>1. Len(t) > 0
    BY <1>0, <1>2, EmptySeq
  <2>2. /\ Len(s) + 1 \in Len(s) + 1 .. Len(s) + Len(t)
        /\ Len(s) + Len(t) \in Len(s) + 1 .. Len(s) + Len(t)
    BY <1>0, <2>1
  <2>3. SubSeq(s \o t, Len(s) + 1, Len(s) + Len(t))
            = SubSeq(t, Len(s) + 1 - Len(s), Len(s) + Len(t) - Len(s))
    BY <2>2, SubSeqOfConcat2
  <2>4. Len(s) + 1 - Len(s) = 1 /\ Len(s) + Len(t) - Len(s) = Len(t)
    BY <1>0
  <2> QED
    BY <1>0, <2>3, <2>4, SubSeqFull
<1> QED
  BY <1>1, <1>2

(* A part of a sequence of messages is one. *)
LEMMA PrefixType ==
    ASSUME NEW S, NEW s \in Seq(S), NEW n \in 0 .. Len(s)
    PROVE  SubSeq(s, 1, n) \in Seq(S)
<1>1. Len(s) \in Nat /\ \A i \in 1 .. Len(s) : s[i] \in S
  BY LenProperties, ElementOfSeq
<1>2. n \in Int /\ 1 \in Int /\ \A i \in 1 .. n : s[i] \in S
  BY <1>1
<1> QED
  BY <1>2, SubSeqProperties

-----------------------------------------------------------------------------
(* The initial states satisfy the inductive invariant. *)
LEMMA InitIInv == Init => IInv
<1>1. <<>> \in Seq(Messages)
  BY EmptySeq
<1> SUFFICES ASSUME Init PROVE IInv
  OBVIOUS
<1>2. Domains
  BY <1>1 DEF Init, Domains
<1>3. fileOk /\ writable /\ ~mExit /\ writer = "loop" /\ destructor = "none"
  BY DEF Init
<1>4. StderrIsLogged
  BY DEF Init, StderrIsLogged
<1> QED
  BY <1>2, <1>3, <1>4 DEF IInv, BadFileMeansFault, BadFileIsEmpty,
       DestructorMarksExit, DrainsOnlyAtExit, ExitedIsDrained,
       DoneMeansExited

(* Pushing out a stream leaves it empty or as it was, and empties it        *)
(* whenever the disk refuses it.                                            *)
LEMMA PushOutEffect ==
    ASSUME Domains, NEW content \in Seq(Messages), PushOut(content)
    PROVE  /\ unflushed' \in Seq(Messages)
           /\ disk' \in Seq(Messages)
           /\ unflushed' = <<>> \/ (content = <<>> /\ unflushed' = unflushed)
           /\ ~writable /\ content # <<>> => unflushed' = <<>>
<1>1. CASE writable /\ disk' = disk \o content /\ unflushed' = <<>>
  BY <1>1, ConcatProperties, EmptySeq DEF Domains
<1>2. CASE ~writable /\ content # <<>>
  <2>1. PICK n \in 0 .. Len(content) - 1 :
            disk' = disk \o SubSeq(content, 1, n)
    BY <1>2 DEF PushOut
  <2>2. Len(content) \in Nat
    BY LenProperties
  <2>3. n \in 0 .. Len(content)
    BY <2>2
  <2>4. SubSeq(content, 1, n) \in Seq(Messages)
    BY <2>3, PrefixType
  <2>5. unflushed' = <<>>
    BY <1>2 DEF PushOut
  <2> QED
    BY <2>1, <2>4, <2>5, ConcatProperties, EmptySeq DEF Domains
<1>3. CASE ~writable /\ content = <<>>
  BY <1>3 DEF PushOut, Domains
<1> QED
  BY <1>1, <1>2, <1>3 DEF PushOut

(* Every step preserves it.  Only the steps that move messages or change    *)
(* the state of the file need more than their frame.                        *)
LEMMA NextIInv == IInv /\ [Next]_vars => IInv'
<1> SUFFICES ASSUME IInv, [Next]_vars PROVE IInv'
  OBVIOUS
<1> USE ConstantsAssumption DEF IInv, Domains, BadFileMeansFault, BadFileIsEmpty,
        DestructorMarksExit, DrainsOnlyAtExit, ExitedIsDrained,
        DoneMeansExited, StderrIsLogged, WriterAt, busVars, fileVars,
        flagVars, envVars
<1>0. <<>> \in Seq(Messages)
  BY EmptySeq
<1>1. ASSUME NEW m \in Messages, writeToBuffer(m) PROVE IInv'
  <2>1. Append(backBuffer, m) \in Seq(Messages)
    BY AppendProperties
  <2>2. CASE mExit
    BY <1>1, <2>2 DEF writeToBuffer
  <2>3. CASE ~mExit /\ backBuffer' = Append(backBuffer, m) /\ badAllocs' = badAllocs
    BY <1>1, <2>1, <2>3 DEF writeToBuffer
  <2>4. CASE ~mExit /\ badAllocs' = badAllocs + 1 /\ UNCHANGED backBuffer
    BY <1>1, <2>4 DEF writeToBuffer
  <2> QED
    BY <1>1, <2>2, <2>3, <2>4 DEF writeToBuffer
<1>2. CASE flush
  BY <1>2 DEF flush
<1>3. CASE markForExit
  BY <1>3 DEF markForExit
<1>4. CASE DiskFails
  <2>1. diskFaults' \in Nat /\ diskFaults' > 0 /\ UNCHANGED badAllocs
    BY <1>4 DEF DiskFails
  <2>2. writable' \in BOOLEAN
    BY <1>4 DEF DiskFails
  <2> QED
    BY <1>4, <2>1, <2>2 DEF DiskFails
<1>5. CASE DiskRecovers
  BY <1>5 DEF DiskRecovers
<1>6. CASE LoopOrDrain
  BY <1>6 DEF LoopOrDrain
<1>7. CASE LeaveWhenEmpty
  BY <1>7 DEF LeaveWhenEmpty
<1>8. CASE Reopen
  BY <1>8 DEF Reopen
<1>9. CASE KeepFile
  BY <1>9 DEF KeepFile
<1>10. CASE RotateFile
  <2>1. /\ unflushed' \in Seq(Messages)
        /\ disk' \in Seq(Messages)
        /\ unflushed' = <<>> \/ (unflushed = <<>> /\ unflushed' = unflushed)
    BY <1>10, PushOutEffect DEF RotateFile
  <2> QED
    BY <1>10, <2>1 DEF RotateFile
<1>11. CASE CheckFile
  BY <1>11 DEF CheckFile
<1>12. CASE WaitForMessages
  BY <1>12 DEF WaitForMessages
<1>13. CASE writeMessagesToFile
  <2> DEFINE content == unflushed \o backBuffer
  <2>1. content \in Seq(Messages)
    BY ConcatProperties
  <2>2. CASE fileOk /\ unflushed' = content /\ UNCHANGED <<disk, fileOk>>
    BY <1>0, <1>13, <2>1, <2>2 DEF writeMessagesToFile
  <2>3. CASE fileOk /\ PushOut(content) /\ fileOk' = (writable \/ content = <<>>)
    <3>1. /\ unflushed' \in Seq(Messages)
          /\ disk' \in Seq(Messages)
          /\ ~writable /\ content # <<>> => unflushed' = <<>>
      BY <2>1, <2>3, PushOutEffect
    <3> QED
      BY <1>0, <1>13, <2>3, <3>1 DEF writeMessagesToFile
  <2>4. CASE ~fileOk /\ UNCHANGED <<unflushed, disk, fileOk>>
    BY <1>0, <1>13, <2>4 DEF writeMessagesToFile
  <2> QED
    BY <1>13, <2>2, <2>3, <2>4 DEF writeMessagesToFile
<1>14. CASE flushToFile
  <2>1. CASE fileOk /\ PushOut(unflushed) /\ fileOk' = (writable \/ unflushed = <<>>)
    <3>1. /\ unflushed' \in Seq(Messages)
          /\ disk' \in Seq(Messages)
          /\ ~writable /\ unflushed # <<>> => unflushed' = <<>>
      BY <2>1, PushOutEffect
    <3> QED
      BY <1>14, <2>1, <3>1 DEF flushToFile
  <2>2. CASE ~fileOk /\ UNCHANGED fileVars
    BY <1>14, <2>2 DEF flushToFile
  <2> QED
    BY <1>14, <2>1, <2>2 DEF flushToFile
<1>15. CASE SkipFlush
  BY <1>15 DEF SkipFlush
<1>16. CASE Destroy
  <2>1. disk \o unflushed \in Seq(Messages)
    BY ConcatProperties
  <2> QED
    BY <1>0, <1>16, <2>1 DEF Destroy
<1>17. CASE UNCHANGED vars
  BY <1>17 DEF vars
<1> QED
  BY <1>1, <1>2, <1>3, <1>4, <1>5, <1>6, <1>7, <1>8, <1>9, <1>10, <1>11,
     <1>12, <1>13, <1>14, <1>15, <1>16, <1>17 DEF Next, WriterStep

THEOREM InvariantHolds == Spec => []IInv
BY InitIInv, NextIInv, PTL DEF Spec

-----------------------------------------------------------------------------
(* The refinement *)

Pending == unflushed \o backBuffer

(* What the steps that write to the file leave alone. *)
OutsideOfFile == <<logged, toStderr, diskFaults, badAllocs, mExit, destructor>>

LEMMA PendingType == IInv => Pending \in Seq(Messages)
BY ConcatProperties DEF IInv, Domains, Pending

(* Pushing out the first part of what is pending is an Advance of the       *)
(* channel: of all of that part, or of a prefix of it when the disk fails.  *)
LEMMA PushOutAdvances ==
    ASSUME IInv, UNCHANGED OutsideOfFile,
           NEW content \in Seq(Messages), NEW rest \in Seq(Messages),
           PushOut(content), Pending = content \o rest, Pending' = rest
    PROVE  Channel!Advance
<1> DEFINE k == Len(content)
<1>1. /\ k \in Nat
      /\ Len(rest) \in Nat
      /\ Len(Pending) = k + Len(rest)
      /\ k \in 0 .. Len(Pending)
  BY LenProperties, ConcatProperties
<1>2. Pending' = SubSeq(Pending, k + 1, Len(Pending))
  BY RestOfConcat
<1>3. SUFFICES \E n \in 0 .. k :
                  /\ k > n => diskFaults + badAllocs > 0
                  /\ disk' = disk \o SubSeq(Pending, 1, n)
  <2>1. PICK n \in 0 .. k : /\ k > n => diskFaults + badAllocs > 0
                            /\ disk' = disk \o SubSeq(Pending, 1, n)
    BY <1>3
  <2>2. n \in 0 .. Len(Pending) /\ k \in n .. Len(Pending)
    BY <1>1
  <2> HIDE DEF k
  <2>3. UNCHANGED <<logged \ toStderr, diskFaults + badAllocs > 0, ~mExit,
                    destructor = "done">>
    BY DEF OutsideOfFile
  <2> QED
    BY <1>2, <2>1, <2>2, <2>3 DEF Channel!Advance, Pending
<1>4. CASE disk' = disk \o content
  <2>1. SubSeq(Pending, 1, k) = content
    BY <1>1, PrefixOfConcat, SubSeqFull
  <2>2. k \in 0 .. k /\ ~(k > k)
    BY <1>1
  <2> HIDE DEF k
  <2> QED
    BY <1>4, <2>1, <2>2
<1>5. CASE ~writable /\ content # <<>>
  <2>1. PICK n \in 0 .. k - 1 : disk' = disk \o SubSeq(content, 1, n)
    BY <1>5 DEF PushOut
  <2>2. n \in 0 .. k
    BY <1>1
  <2>3. SubSeq(Pending, 1, n) = SubSeq(content, 1, n)
    BY <2>2, PrefixOfConcat
  <2>4. diskFaults + badAllocs > 0
    BY <1>5 DEF IInv, Domains, BadFileMeansFault
  <2> QED
    BY <2>1, <2>2, <2>3, <2>4
<1>6. CASE content = <<>> /\ UNCHANGED disk
  BY <1>4, <1>6, ConcatEmptySeq DEF IInv, Domains
<1> QED
  BY <1>4, <1>5, <1>6 DEF PushOut

(* Messages lost by a stream that is bad are an Advance that discards all   *)
(* that is pending, which a fault allows.                                   *)
LEMMA DiscardAdvances ==
    ASSUME IInv, UNCHANGED OutsideOfFile, UNCHANGED disk,
           diskFaults + badAllocs > 0, Pending' = <<>>
    PROVE  Channel!Advance
<1>1. Len(Pending) \in Nat
  BY PendingType, LenProperties
<1>2. 0 \in 0 .. Len(Pending) /\ Len(Pending) \in 0 .. Len(Pending)
  BY <1>1
<1>3. SubSeq(Pending, Len(Pending) + 1, Len(Pending)) = <<>>
  BY <1>1, SubSeqEmpty
<1>4. SubSeq(Pending, 1, 0) = <<>>
  BY SubSeqEmpty
<1>5. disk \o SubSeq(Pending, 1, 0) = disk
  BY <1>4, ConcatEmptySeq DEF IInv, Domains
<1>6. UNCHANGED <<logged \ toStderr, diskFaults + badAllocs > 0, ~mExit,
                  destructor = "done">>
  BY DEF OutsideOfFile
<1>7. \E n \in 0 .. Len(Pending) : \E k \in n .. Len(Pending) :
          /\ k > n => diskFaults + badAllocs > 0
          /\ disk' = disk \o SubSeq(Pending, 1, n)
          /\ Pending' = SubSeq(Pending, k + 1, Len(Pending))
  BY <1>2, <1>3, <1>5
<1> QED
  BY <1>6, <1>7 DEF Channel!Advance, Pending

(* Pushing out the stream of the log file. *)
LEMMA StreamAdvances ==
    ASSUME IInv, PushOut(unflushed), UNCHANGED OutsideOfFile,
           UNCHANGED backBuffer
    PROVE  Channel!Advance
<1>1. unflushed \in Seq(Messages) /\ backBuffer \in Seq(Messages)
  BY DEF IInv, Domains
<1>2. unflushed' = <<>>
  BY <1>1, PushOutEffect DEF IInv
<1>3. Pending' = backBuffer
  BY <1>1, <1>2, ConcatEmptySeq DEF Pending
<1> QED
  BY <1>1, <1>3, PushOutAdvances DEF Pending

(* The destructor finds a closed channel, and either nothing in the buffer  *)
(* or a fault.                                                              *)
LEMMA DestroyFinishes == IInv /\ Destroy => Channel!Finish
<1> SUFFICES ASSUME IInv, Destroy PROVE Channel!Finish
  OBVIOUS
<1>1. /\ backBuffer \in Seq(Messages)
      /\ unflushed \in Seq(Messages)
      /\ disk \in Seq(Messages)
      /\ diskFaults \in Nat /\ badAllocs \in Nat
  BY DEF IInv, Domains
<1>2. Len(unflushed) \in Nat /\ Len(Pending) = Len(unflushed) + Len(backBuffer)
      /\ Len(backBuffer) \in Nat
  BY <1>1, LenProperties, ConcatProperties DEF Pending
<1>3. mExit /\ destructor # "done" /\ destructor' = "done"
  BY DEF Destroy, IInv, DestructorMarksExit
<1>4. UNCHANGED <<logged, toStderr, diskFaults, badAllocs, mExit>>
  BY DEF Destroy, flagVars, envVars
<1>5. Pending' = <<>>
  BY EmptySeq, ConcatEmptySeq DEF Destroy, Pending
<1>6. \/ disk' = disk \o Pending
      \/ /\ diskFaults + badAllocs > 0
         /\ \E n \in 0 .. Len(Pending) : disk' = disk \o SubSeq(Pending, 1, n)
  <2>1. CASE writable /\ backBuffer = <<>>
    <3>1. Pending = unflushed
      BY <1>1, <2>1, ConcatEmptySeq DEF Pending
    <3> QED
      BY <2>1, <3>1 DEF Destroy
  <2>2. CASE writable /\ backBuffer # <<>>
    <3>1. diskFaults + badAllocs > 0
      BY <1>1, <1>3, <2>2 DEF Destroy, IInv, ExitedIsDrained, BadFileMeansFault
    <3>2. Len(unflushed) \in 0 .. Len(Pending) /\ Len(unflushed) \in 0 .. Len(unflushed)
      BY <1>2
    <3>3. SubSeq(Pending, 1, Len(unflushed)) = unflushed
      BY <1>1, <3>2, PrefixOfConcat, SubSeqFull DEF Pending
    <3>4. disk' = disk \o unflushed
      BY <2>2 DEF Destroy
    <3> QED
      BY <3>1, <3>2, <3>3, <3>4
  <2>3. CASE ~writable
    <3>1. diskFaults + badAllocs > 0
      BY <1>1, <2>3 DEF IInv, BadFileMeansFault
    <3>2. disk \o SubSeq(Pending, 1, 0) = disk
      BY <1>1, SubSeqEmpty, ConcatEmptySeq
    <3>3. 0 \in 0 .. Len(Pending)
      BY <1>2
    <3>4. disk' = disk
      BY <2>3 DEF Destroy
    <3> QED
      BY <3>1, <3>2, <3>3, <3>4
  <2> QED
    BY <2>1, <2>2, <2>3
<1>7. UNCHANGED <<logged \ toStderr, diskFaults + badAllocs > 0, ~mExit>>
  BY <1>4
<1> QED
  BY <1>3, <1>5, <1>6, <1>7 DEF Channel!Finish, Pending

(* Every step of the logger is one of the channel, or changes nothing that  *)
(* the channel shows.                                                       *)
LEMMA NextRefines == IInv /\ [Next]_vars => [Channel!Next]_(Channel!vars)
<1> SUFFICES ASSUME IInv, [Next]_vars
             PROVE  Channel!Next \/ UNCHANGED Channel!vars
  OBVIOUS
<1> DEFINE ChannelState == <<logged, toStderr, unflushed, backBuffer, disk,
                             diskFaults, badAllocs, mExit, destructor>>
<1>a. ASSUME UNCHANGED ChannelState PROVE UNCHANGED Channel!vars
  BY <1>a DEF Channel!vars
<1>b. <<>> \in Seq(Messages)
  BY EmptySeq
<1>c. /\ backBuffer \in Seq(Messages)
      /\ unflushed \in Seq(Messages)
      /\ disk \in Seq(Messages)
      /\ diskFaults \in Nat /\ badAllocs \in Nat
      /\ mExit \in BOOLEAN
  BY DEF IInv, Domains
<1>d. Pending \in Seq(Messages) /\ Len(Pending) \in Nat
  BY PendingType, LenProperties
<1> USE DEF WriterAt, busVars, fileVars, flagVars, envVars
<1>1. ASSUME NEW m \in Messages, writeToBuffer(m)
      PROVE  Channel!Next \/ UNCHANGED Channel!vars
  <2>1. UNCHANGED <<unflushed, disk, diskFaults, mExit, destructor>>
    BY <1>1 DEF writeToBuffer
  <2>2. m \notin logged /\ m \notin toStderr /\ logged' = logged \cup {m}
    BY <1>1 DEF writeToBuffer, IInv, StderrIsLogged
  <2>3. CASE mExit
    <3>1. (logged \ toStderr)' = logged \ toStderr
      BY <1>1, <2>2, <2>3 DEF writeToBuffer
    <3>2. UNCHANGED <<backBuffer, badAllocs>>
      BY <1>1, <2>3 DEF writeToBuffer
    <3> QED
      BY <2>1, <3>1, <3>2 DEF Channel!vars
  <2>4. CASE /\ ~mExit
             /\ backBuffer' = Append(backBuffer, m)
             /\ UNCHANGED <<toStderr, badAllocs>>
    <3>1. (logged \ toStderr)' = (logged \ toStderr) \cup {m}
      BY <2>2, <2>4
    <3>2. unflushed' \o backBuffer' = Append(unflushed \o backBuffer, m)
      <4>1. backBuffer' = backBuffer \o <<m>>
        BY <1>c, <2>4, AppendIsConcat
      <4>2. Append(unflushed \o backBuffer, m) = (unflushed \o backBuffer) \o <<m>>
        BY <1>d, AppendIsConcat DEF Pending
      <4>3. <<m>> \in Seq(Messages)
        OBVIOUS
      <4> QED
        BY <1>c, <2>1, <4>1, <4>2, <4>3, ConcatAssociative
    <3>3. Channel!Accept(m)
      BY <2>1, <2>2, <2>4, <3>1, <3>2 DEF Channel!Accept
    <3> QED
      BY <3>3 DEF Channel!Next
  <2>5. CASE ~mExit /\ badAllocs' = badAllocs + 1 /\ UNCHANGED <<backBuffer, toStderr>>
    <3>1. (logged \ toStderr)' = (logged \ toStderr) \cup {m}
      BY <2>2, <2>5
    <3>2. (diskFaults + badAllocs > 0)'
      BY <1>c, <2>1, <2>5
    <3>3. Channel!Reject(m)
      BY <2>1, <2>2, <2>5, <3>1, <3>2 DEF Channel!Reject
    <3> QED
      BY <3>3 DEF Channel!Next
  <2> QED
    BY <1>1, <2>3, <2>4, <2>5 DEF writeToBuffer
<1>2. CASE flush
  BY <1>2, <1>a DEF flush
<1>3. CASE markForExit
  <2>1. Channel!Close
    BY <1>3 DEF markForExit, Channel!Close, IInv, DestructorMarksExit
  <2> QED
    BY <2>1 DEF Channel!Next
<1>4. CASE DiskFails
  <2>1. (diskFaults + badAllocs > 0)' = TRUE
    BY <1>c, <1>4 DEF DiskFails
  <2>2. Channel!Fault
    BY <1>4, <2>1 DEF DiskFails, Channel!Fault
  <2> QED
    BY <2>2 DEF Channel!Next
<1>5. CASE DiskRecovers
  BY <1>5, <1>a DEF DiskRecovers
<1>6. CASE LoopOrDrain
  BY <1>6, <1>a DEF LoopOrDrain
<1>7. CASE LeaveWhenEmpty
  BY <1>7, <1>a DEF LeaveWhenEmpty
<1>8. CASE Reopen
  BY <1>8, <1>a DEF Reopen
<1>9. CASE KeepFile
  BY <1>9, <1>a DEF KeepFile
<1>10. CASE RotateFile
  <2>1. PushOut(unflushed) /\ UNCHANGED OutsideOfFile /\ UNCHANGED backBuffer
    BY <1>10 DEF RotateFile, OutsideOfFile
  <2>2. Channel!Advance
    BY <2>1, StreamAdvances
  <2> QED
    BY <2>2 DEF Channel!Next
<1>11. CASE CheckFile
  BY <1>11, <1>a DEF CheckFile
<1>12. CASE WaitForMessages
  BY <1>12, <1>a DEF WaitForMessages
<1>13. CASE writeMessagesToFile
  <2>1. backBuffer' = <<>> /\ UNCHANGED OutsideOfFile
    BY <1>13 DEF writeMessagesToFile, OutsideOfFile
  <2>2. CASE unflushed' = unflushed \o backBuffer /\ UNCHANGED disk
    <3>1. unflushed' \o backBuffer' = unflushed \o backBuffer
      BY <1>d, <2>1, <2>2, ConcatEmptySeq DEF Pending
    <3> QED
      BY <2>1, <2>2, <3>1 DEF OutsideOfFile, Channel!vars
  <2>3. CASE PushOut(unflushed \o backBuffer)
    <3>1. unflushed' = <<>>
      <4>1. \/ unflushed' = <<>>
            \/ unflushed \o backBuffer = <<>> /\ unflushed' = unflushed
        BY <1>d, <2>3, PushOutEffect DEF IInv, Pending
      <4>2. unflushed \o backBuffer = <<>> => unflushed = <<>>
        BY <1>c, ConcatEqualIffEmpty
      <4> QED
        BY <4>1, <4>2
    <3>2. Pending' = <<>>
      BY <1>b, <2>1, <3>1, ConcatEmptySeq DEF Pending
    <3>3. Pending = Pending \o <<>>
      BY <1>d, ConcatEmptySeq
    <3>4. Channel!Advance
      BY <1>b, <1>d, <2>1, <2>3, <3>2, <3>3, PushOutAdvances DEF Pending
    <3> QED
      BY <3>4 DEF Channel!Next
  <2>4. CASE ~fileOk /\ UNCHANGED <<unflushed, disk, fileOk>>
    <3>1. unflushed' = <<>>
      BY <2>4 DEF IInv, BadFileIsEmpty
    <3>2. Pending' = <<>>
      BY <1>b, <2>1, <3>1, ConcatEmptySeq DEF Pending
    <3>3. destructor # "done"
      BY <1>13 DEF writeMessagesToFile, IInv, DoneMeansExited
    <3>4. diskFaults + badAllocs > 0
      BY <1>c, <2>4, <3>3 DEF IInv, BadFileMeansFault
    <3>5. Channel!Advance
      BY <2>1, <2>4, <3>2, <3>4, DiscardAdvances
    <3> QED
      BY <3>5 DEF Channel!Next
  <2> QED
    BY <1>13, <2>2, <2>3, <2>4 DEF writeMessagesToFile
<1>14. CASE flushToFile
  <2>1. UNCHANGED OutsideOfFile /\ UNCHANGED backBuffer
    BY <1>14 DEF flushToFile, OutsideOfFile
  <2>2. CASE PushOut(unflushed)
    <3>1. Channel!Advance
      BY <2>1, <2>2, StreamAdvances
    <3> QED
      BY <3>1 DEF Channel!Next
  <2>3. CASE UNCHANGED fileVars
    BY <1>a, <2>1, <2>3 DEF OutsideOfFile
  <2> QED
    BY <1>14, <2>2, <2>3 DEF flushToFile
<1>15. CASE SkipFlush
  BY <1>15, <1>a DEF SkipFlush
<1>16. CASE Destroy
  <2>1. Channel!Finish
    BY <1>16, DestroyFinishes
  <2> QED
    BY <2>1 DEF Channel!Next
<1>17. CASE UNCHANGED vars
  BY <1>17, <1>a DEF vars
<1> QED
  BY <1>1, <1>2, <1>3, <1>4, <1>5, <1>6, <1>7, <1>8, <1>9, <1>10, <1>11,
     <1>12, <1>13, <1>14, <1>15, <1>16, <1>17 DEF Next, WriterStep

LEMMA InitRefines == Init => Channel!Init
<1> SUFFICES ASSUME Init PROVE Channel!Init
  OBVIOUS
<1>1. unflushed \o backBuffer = <<>>
  BY EmptySeq, ConcatEmptySeq DEF Init
<1>2. (diskFaults + badAllocs > 0) = FALSE
  BY DEF Init
<1> QED
  BY <1>1, <1>2 DEF Init, Channel!Init

(* The logger implements the channel: whatever the threads, the disk and    *)
(* the destructor do, messages reach the log file in the order in which     *)
(* they were accepted, none twice, none is discarded before a fault, and    *)
(* the destructor leaves no message behind without one.                     *)
THEOREM LoggerImplementsChannel == Spec => ImplementsChannel
BY InitRefines, NextRefines, InvariantHolds, PTL
   DEF Spec, ImplementsChannel, Channel!Spec

-----------------------------------------------------------------------------
(* 2. The log files: names, contents and control states. *)

Names == {Base} \cup [kind : {"plain", "zipping", "gz"}, tag : Nat \ {0}]
Contents == [gen : Nat \ {0}, whole : BOOLEAN]

Opened == {"create", "compress", "remove"}
Busy == {"open"} \cup Opened

(* The inductive invariant *)

Types ==
    /\ setup \in Setups
    /\ DOMAIN dir \subseteq Names
    /\ \A n \in DOMAIN dir : dir[n] \in Contents
    /\ now \in Nat \ {0}
    /\ index \in 0 .. MaxFilesToKeep
    /\ queue \in Seq(Nat \ {0})
    /\ job \in [src : Names, dst : Names, gen : Nat]
    /\ engineExit \in BOOLEAN
    /\ faults \in Nat

(* Each engine has control states of its own, and the process ends only in  *)
(* the timestamp one. *)
WriterStates ==
    /\ RotationType = "Numbered" => rotator \in {"idle", "number", "clash", "handover"}
    /\ RotationType = "Timestamp" =>
          rotator \in {"idle", "stamp", "scan", "prune", "clash", "handover",
                      "terminated"}

GzipStates ==
    /\ gzip \in {"waiting", "exited"} \cup Busy
    /\ gzip \in Busy =>
          /\ job.src.tag \in Nat \ {0}
          /\ job.src = File("zipping", job.src.tag)
          /\ job.dst = File("gz", job.src.tag)
    /\ gzip \in Opened => job.gen \in Nat \ {0}
    /\ ~Compressed => queue = <<>> /\ gzip \in {"waiting", "exited"}

(* The exit is ordered: the writer has stopped rotating, then the           *)
(* compression thread leaves an empty queue. *)
ExitOrder ==
    /\ engineExit => rotator = "idle"
    /\ gzip = "exited" => engineExit /\ queue = <<>>

(* A file that waits under a zipping name is queued or being compressed.    *)
ZippingIsQueued ==
    faults = 0 =>
        \A n \in DOMAIN dir : n.kind = "zipping" =>
            \/ \E i \in 1 .. Len(queue) : queue[i] = n.tag
            \/ gzip \in Busy /\ job.src = n

Kept == \A g \in 1 .. now : Intact(g) \/ g \in expired \cup truncated

Limited(g) ==
    \/ g + MaxFilesToKeep <= now
    \/ MaxFileAge > 0 /\ g + MaxFileAge < now

(* The timestamp engine: a file holds the generation of its tag, only       *)
(* compressed files can be partial, and the tag of the base file's          *)
(* generation is used only while the base file is away.                     *)
StampedFiles ==
    /\ Base \in DOMAIN dir => dir[Base] = Whole(now)
    /\ Base \notin DOMAIN dir => rotator \in {"scan", "prune", "clash", "handover"}
    /\ rotator \in {"prune", "clash", "handover"} => Base \notin DOMAIN dir
    /\ \A n \in DOMAIN dir : n.kind # "base" =>
          /\ dir[n].gen = n.tag
          /\ n.kind # "gz" => dir[n].whole
          /\ n.tag <= now
          /\ n.tag = now => n.kind = "plain" /\ Base \notin DOMAIN dir

(* ... the compression thread works on earlier generations, and the source  *)
(* of its job is removed only once the target is whole, or seems to be, ... *)
StampedJob ==
    /\ \A i \in 1 .. Len(queue) : queue[i] < now
    /\ gzip \in Busy => job.src.tag < now
    /\ gzip \in Opened => job.gen = job.src.tag
    /\ gzip \in {"create", "compress"} =>
          job.src \in DOMAIN dir \/ job.src.tag \in expired
    /\ gzip = "compress" => job.dst \in DOMAIN dir \/ job.src.tag \in expired
    /\ gzip = "remove" =>
          \/ job.dst \in DOMAIN dir /\ dir[job.dst] = Whole(job.src.tag)
          \/ job.src.tag \in expired \cup truncated

(* ... and what it prunes has expired.                                      *)
DoomedExpired == \A n \in doomed : n \in Names /\ n.kind # "base" /\ n.tag \in expired

(* The numbered engine: while no rename or removal has failed, the number   *)
(* of a file tells how many rotations it has been through at least.  The    *)
(* rotation under way has moved the files above its index.                  *)
Moved(n) ==
    /\ n.kind # "zipping"
    /\ \/ rotator \in {"clash", "handover"}
       \/ rotator = "number" /\ n.tag > index

NumberedFiles ==
    /\ Base \in DOMAIN dir => dir[Base].gen <= now
    /\ rotator \in {"clash", "handover"} => Base \notin DOMAIN dir
    /\ \A n \in DOMAIN dir : n.kind # "base" =>
          dir[n].gen + n.tag <= (IF Moved(n) THEN now + 1 ELSE now)
    /\ gzip \in Opened => job.gen + job.src.tag <= now

(* The rotation goes from the last number down, so that the number above    *)
(* its index is free.  The compression thread breaks this.                  *)
NumberIsFree ==
    rotator = "number" /\ index < MaxFilesToKeep
        => File("plain", index + 1) \notin DOMAIN dir

StampedInv ==
    RotationType = "Timestamp" =>
        /\ StampedFiles
        /\ StampedJob
        /\ DoomedExpired
        /\ Kept
        /\ \A g \in expired : g \in Nat /\ Limited(g)

NumberedInv ==
    RotationType = "Numbered" /\ faults = 0 =>
        /\ NumberedFiles
        /\ ~Compressed => NumberIsFree /\ Kept
        /\ \A g \in expired : g \in Nat /\ Limited(g)

FilesInv ==
    /\ Types
    /\ WriterStates
    /\ GzipStates
    /\ ExitOrder
    /\ ZippingIsQueued
    /\ StampedInv
    /\ NumberedInv

-----------------------------------------------------------------------------
(* Lemmas about file names and directories *)

LEMMA FileParts ==
    /\ \A k, t : File(k, t).kind = k /\ File(k, t).tag = t
    /\ \A n \in Names : n = File(n.kind, n.tag)
    /\ \A n \in Names : n.kind = "base" => n = Base
    /\ \A n \in Names : n.kind # "base" =>
          n.kind \in {"plain", "zipping", "gz"} /\ n.tag \in Nat \ {0}
    /\ \A k \in {"plain", "zipping", "gz"}, t \in Nat \ {0} : File(k, t) \in Names
    /\ Base \in Names
BY DEF File, Base, Names

LEMMA WholeParts ==
    /\ \A g : Whole(g).gen = g /\ Whole(g).whole = TRUE
    /\ \A g : Partial(g).gen = g /\ Partial(g).whole = FALSE
    /\ \A g \in Nat \ {0} : Whole(g) \in Contents /\ Partial(g) \in Contents
    /\ \A c \in Contents : c.gen \in Nat \ {0} /\ c.whole \in BOOLEAN
    /\ \A c \in Contents : c.whole => c = Whole(c.gen)
    /\ \A c \in Contents : ~c.whole => c = Partial(c.gen)
BY DEF Whole, Partial, Contents

LEMMA RemovedFiles ==
    ASSUME NEW d, NEW ns
    PROVE  /\ DOMAIN Removed(d, ns) = DOMAIN d \ ns
           /\ \A n \in DOMAIN Removed(d, ns) : Removed(d, ns)[n] = d[n]
BY DEF Removed

(* The base file is there once the writer has reopened it, and nothing else *)
(* has changed.                                                             *)
LEMMA ReopenedFiles ==
    ASSUME NEW d
    PROVE  /\ DOMAIN Reopened(d) = DOMAIN d \cup {Base}
           /\ \A n \in DOMAIN d : Reopened(d)[n] = d[n]
           /\ Base \notin DOMAIN d => Reopened(d)[Base] = Whole(now + 1)
<1>1. CASE Base \in DOMAIN d
  BY <1>1 DEF Reopened
<1>2. CASE Base \notin DOMAIN d
  <2>1. Reopened(d) = Created(d, Base, Whole(now + 1))
    BY <1>2 DEF Reopened
  <2>2. /\ DOMAIN Created(d, Base, Whole(now + 1)) = DOMAIN d \cup {Base}
        /\ Created(d, Base, Whole(now + 1))[Base] = Whole(now + 1)
        /\ \A n \in DOMAIN d : n # Base => Created(d, Base, Whole(now + 1))[n] = d[n]
    BY DEF Created
  <2> QED
    BY <1>2, <2>1, <2>2
<1> QED
  BY <1>1, <1>2

(* A removal leaves the other files alone, and may leave everything alone.  *)
LEMMA RemovalFiles ==
    ASSUME NEW ns, MayFail(Removed(dir, ns))
    PROVE  /\ DOMAIN dir' \subseteq DOMAIN dir
           /\ \A n \in DOMAIN dir' : dir'[n] = dir[n]
           /\ \A n \in DOMAIN dir : n \notin ns => n \in DOMAIN dir'
<1>1. CASE dir' = dir
  BY <1>1
<1>2. CASE dir' = Removed(dir, ns)
  <2>1. DOMAIN dir' = DOMAIN dir \ ns /\ \A n \in DOMAIN dir \ ns : dir'[n] = dir[n]
    BY <1>2 DEF Removed
  <2> QED
    BY <2>1
<1> QED
  BY <1>1, <1>2 DEF MayFail

LEMMA FaultsType ==
    ASSUME faults \in Nat, NEW d, MayFail(d)
    PROVE  faults' \in Nat /\ faults <= faults'
BY DEF MayFail

-----------------------------------------------------------------------------
(* The steps, one invariant part at a time *)

LEMMA FilesInvInit == RotationInit => FilesInv
<1> SUFFICES ASSUME RotationInit PROVE FilesInv
  OBVIOUS
<1>1. Types
  <2>1. dir[Base] = Whole(1) /\ Base \in Names /\ Whole(1) \in Contents
    BY FileParts, WholeParts DEF RotationInit
  <2>2. DOMAIN dir \subseteq Names /\ \A n \in DOMAIN dir : dir[n] \in Contents
    BY <2>1 DEF RotationInit
  <2>3. job \in [src : Names, dst : Names, gen : Nat]
    BY <2>1 DEF RotationInit, NoJob
  <2>4. queue \in Seq(Nat \ {0})
    BY EmptySeq DEF RotationInit
  <2>5. index \in 0 .. MaxFilesToKeep
    BY LogRotationAssumption DEF RotationInit, LogRotationAssumption
  <2>6. setup \in Setups /\ now = 1 /\ engineExit = FALSE /\ faults = 0
    BY DEF RotationInit
  <2>7. now \in Nat \ {0} /\ faults \in Nat
    BY <2>6
  <2>8. engineExit \in BOOLEAN
    BY <2>6, Zenon
  <2> QED
    BY <2>2, <2>3, <2>4, <2>5, <2>6, <2>7, <2>8 DEF Types
<1>2. WriterStates /\ GzipStates /\ ExitOrder
  BY DEF RotationInit, WriterStates, GzipStates, ExitOrder, Busy, Opened
<1>3. ZippingIsQueued
  BY FileParts DEF RotationInit, ZippingIsQueued, Base
<1>4. DOMAIN dir = {Base} /\ dir[Base] = Whole(1) /\ Base.kind = "base"
  BY FileParts DEF RotationInit, Base
<1>5. Kept
  BY <1>4 DEF RotationInit, Kept, Intact
<1>6. StampedInv
  BY <1>4, <1>5 DEF RotationInit, StampedInv, StampedFiles, StampedJob, DoomedExpired, Busy,
     Opened
<1>7. NumberedInv
  BY <1>4, <1>5, WholeParts DEF RotationInit, NumberedInv, NumberedFiles, NumberIsFree, Opened
<1> QED
  BY <1>1, <1>2, <1>3, <1>6, <1>7 DEF FilesInv

(* Types *)

LEMMA SetupTypes ==
    ASSUME Types
    PROVE  /\ RotationType \in {"Numbered", "Timestamp"}
           /\ Compressed \in BOOLEAN
BY LogRotationAssumption DEF LogRotationAssumption, Types, RotationType, Compressed

LEMMA RemovedTypes ==
    ASSUME NEW d, NEW ns, DOMAIN d \subseteq Names,
           \A n \in DOMAIN d : d[n] \in Contents
    PROVE  /\ DOMAIN Removed(d, ns) \subseteq Names
           /\ \A n \in DOMAIN Removed(d, ns) : Removed(d, ns)[n] \in Contents
<1> DEFINE e == Removed(d, ns)
<1>1. DOMAIN e = DOMAIN d \ ns /\ \A n \in DOMAIN e : e[n] = d[n]
  BY DEF Removed
<1> HIDE DEF e
<1>2. DOMAIN e \subseteq Names /\ \A n \in DOMAIN e : e[n] \in Contents
  BY <1>1
<1> QED
  BY <1>2 DEF e

LEMMA RenamedTypes ==
    ASSUME NEW d, NEW src \in DOMAIN d, NEW dst \in Names, DOMAIN d \subseteq Names,
           \A n \in DOMAIN d : d[n] \in Contents
    PROVE  /\ DOMAIN Renamed(d, src, dst) \subseteq Names
           /\ \A n \in DOMAIN Renamed(d, src, dst) : Renamed(d, src, dst)[n] \in Contents
<1> DEFINE e == Renamed(d, src, dst)
<1>1. /\ DOMAIN e = (DOMAIN d \ {src}) \cup {dst}
      /\ e[dst] = d[src]
      /\ \A n \in DOMAIN e : n # dst => e[n] = d[n]
  BY DEF Renamed
<1> HIDE DEF e
<1>2. DOMAIN e \subseteq Names /\ \A n \in DOMAIN e : e[n] \in Contents
  BY <1>1
<1> QED
  BY <1>2 DEF e

LEMMA CreatedTypes ==
    ASSUME NEW d, NEW f \in Names, NEW c \in Contents, DOMAIN d \subseteq Names,
           \A n \in DOMAIN d : d[n] \in Contents
    PROVE  /\ DOMAIN Created(d, f, c) \subseteq Names
           /\ \A n \in DOMAIN Created(d, f, c) : Created(d, f, c)[n] \in Contents
<1> DEFINE e == Created(d, f, c)
<1>1. /\ DOMAIN e = DOMAIN d \cup {f}
      /\ e[f] = c
      /\ \A n \in DOMAIN d : n # f => e[n] = d[n]
  BY DEF Created
<1> HIDE DEF e
<1>2. DOMAIN e \subseteq Names /\ \A n \in DOMAIN e : e[n] \in Contents
  BY <1>1
<1> QED
  BY <1>2 DEF e

LEMMA ReopenedTypes ==
    ASSUME NEW d, DOMAIN d \subseteq Names, now \in Nat \ {0},
           \A n \in DOMAIN d : d[n] \in Contents
    PROVE  /\ DOMAIN Reopened(d) \subseteq Names
           /\ \A n \in DOMAIN Reopened(d) : Reopened(d)[n] \in Contents
<1>1. Base \in Names /\ Whole(now + 1) \in Contents
  BY FileParts, WholeParts
<1> QED
  BY <1>1, ReopenedFiles

LEMMA SrcDst ==
    ASSUME Types
    PROVE  /\ Src(index) \in Names
           /\ Dst(index) \in Names
BY FileParts, LogRotationAssumption DEF Types, Src, Dst, LogRotationAssumption

(* What a turn of the loop does to the directory. *)
LEMMA NumberStepFiles ==
    ASSUME Types, NumberStep
    PROVE  \/ dir' = dir
           \/ /\ Src(index) \in DOMAIN dir
              /\ index = MaxFilesToKeep
              /\ dir' = Removed(dir, {Src(index)})
           \/ /\ Src(index) \in DOMAIN dir
              /\ index # MaxFilesToKeep
              /\ dir' = Renamed(dir, Src(index), Dst(index))
BY DEF NumberStep, IsLastFile, MayFail

LEMMA TypesNext == FilesInv /\ [RotationNext]_rotationVars => Types'
<1> SUFFICES ASSUME FilesInv, [RotationNext]_rotationVars PROVE Types'
  OBVIOUS
<1> USE LogRotationAssumption DEF LogRotationAssumption
<1>0. Types /\ GzipStates
  BY DEF FilesInv
<1> DEFINE DirTypes == /\ DOMAIN dir \subseteq Names
                       /\ \A n \in DOMAIN dir : dir[n] \in Contents
<1>d. DirTypes
  BY <1>0 DEF Types
<1>1. CASE StartRotation
  BY <1>0, <1>1 DEF StartRotation, Types, gzipVars
<1>2. CASE NumberStep
  <2>1. DirTypes'
    BY <1>0, <1>2, <1>d, NumberStepFiles, SrcDst, RemovedTypes, RenamedTypes
  <2>2. faults' \in Nat
    BY <1>0, <1>2 DEF NumberStep, Types, MayFail
  <2>3. index' \in 0 .. MaxFilesToKeep
    BY <1>0, <1>2 DEF NumberStep, Types, IsLastTurn
  <2> QED
    BY <1>0, <1>2, <2>1, <2>2, <2>3 DEF NumberStep, Types, gzipVars
<1>3. CASE StampStep
  <2>1. rotator = "stamp"
    BY <1>3 DEF StampStep
  <2>2. File("plain", now) \in Names
    BY <1>0, FileParts DEF Types
  <2>3. Base \in DOMAIN dir => DirTypes'
    <3>1. dir' = dir \/ dir' = Renamed(dir, Base, File("plain", now))
      BY <1>3 DEF StampStep, MayFail
    <3>2. SUFFICES ASSUME Base \in DOMAIN dir PROVE DirTypes'
      OBVIOUS
    <3>3. CASE dir' = dir
      BY <3>3, <1>d
    <3>4. CASE dir' = Renamed(dir, Base, File("plain", now))
      BY <3>2, <3>4, <1>d, <2>2, RenamedTypes
    <3> HIDE DEF DirTypes
    <3> QED
      BY <3>1, <3>3, <3>4
  <2>4. Base \in DOMAIN dir
    BY <1>0, <1>3, <2>1, SetupTypes DEF FilesInv, WriterStates, StampedInv, StampedFiles
  <2>5. faults' \in Nat
    BY <1>0, <1>3 DEF StampStep, Types, MayFail
  <2> QED
    BY <1>0, <1>3, <2>3, <2>4, <2>5 DEF StampStep, Types, gzipVars
<1>4. CASE ScanDirectory
  BY <1>0, <1>4 DEF ScanDirectory, Types, gzipVars
<1>5. CASE Prune
  <2>1. DirTypes'
    BY <1>5, <1>d, RemovalFiles DEF Prune
  <2>2. faults' \in Nat
    BY <1>0, <1>5, FaultsType DEF Prune, Types
  <2> QED
    BY <1>0, <1>5, <2>1, <2>2 DEF Prune, Types, gzipVars
<1>6. CASE PruneEnds
  BY <1>0, <1>6 DEF PruneEnds, Types, gzipVars
<1>7. CASE RemoveClash
  <2>1. DirTypes'
    BY <1>7, <1>d, RemovalFiles DEF RemoveClash
  <2>2. faults' \in Nat
    BY <1>0, <1>7, FaultsType DEF RemoveClash, Types
  <2> QED
    BY <1>0, <1>7, <2>1, <2>2 DEF RemoveClash, Types, gzipVars
<1>8. CASE Handover
  <2>1. NewTag \in Nat \ {0}
    BY <1>0 DEF NewTag, Types
  <2>2. Zipping \in Names
    BY <2>1, FileParts DEF Zipping
  <2> DEFINE plain == File("plain", NewTag)
  <2>3. \/ dir' = Reopened(dir)
        \/ plain \in DOMAIN dir /\ dir' = Reopened(Renamed(dir, plain, Zipping))
    BY <1>8 DEF Handover
  <2>4. now \in Nat \ {0}
    BY <1>0 DEF Types
  <2>5. DirTypes'
    <3>1. CASE dir' = Reopened(dir)
      BY <3>1, <2>4, <1>d, ReopenedTypes
    <3>2. CASE plain \in DOMAIN dir /\ dir' = Reopened(Renamed(dir, plain, Zipping))
      <4> DEFINE d == Renamed(dir, plain, Zipping)
      <4>1. DOMAIN d \subseteq Names /\ \A n \in DOMAIN d : d[n] \in Contents
        BY <3>2, <2>2, <1>d, RenamedTypes
      <4> HIDE DEF d
      <4>2. DOMAIN Reopened(d) \subseteq Names
            /\ \A n \in DOMAIN Reopened(d) : Reopened(d)[n] \in Contents
        BY <4>1, <2>4, ReopenedTypes
      <4> QED
        BY <4>2, <3>2 DEF d
    <3> HIDE DEF DirTypes, plain
    <3> QED
      BY <2>3, <3>1, <3>2
  <2>6. queue' = queue \/ queue' = Append(queue, NewTag)
    BY <1>8 DEF Handover
  <2>7. queue' \in Seq(Nat \ {0})
    <3>1. queue \in Seq(Nat \ {0})
      BY <1>0 DEF Types
    <3>2. Append(queue, NewTag) \in Seq(Nat \ {0})
      BY <2>1, <3>1, AppendProperties, Zenon
    <3> QED
      BY <2>6, <3>1, <3>2
  <2>8. faults' \in Nat
    BY <1>0, <1>8 DEF Handover, Types
  <2> QED
    BY <1>0, <1>8, <2>4, <2>5, <2>7, <2>8 DEF Handover, Types, gzipVars
<1>9. CASE Exit
  BY <1>0, <1>9 DEF Exit, Types, rotatorVars, gzipVars
<1>10. CASE TakeJob
  <2>1. queue # <<>> => Head(queue) \in Nat \ {0} /\ Tail(queue) \in Seq(Nat \ {0})
    BY <1>0, HeadTailProperties DEF Types
  <2>2. queue' \in Seq(Nat \ {0})
    BY <1>0, <1>10, <2>1 DEF TakeJob, Types
  <2>3. job' \in [src : Names, dst : Names, gen : Nat]
    BY <1>0, <1>10, <2>1, FileParts DEF TakeJob, Types
  <2> QED
    BY <1>0, <1>10, <2>2, <2>3 DEF TakeJob, Types, rotatorVars
<1>11. CASE OpenSource
  <2>1. job.src \in DOMAIN dir => dir[job.src].gen \in Nat
    BY <1>d, WholeParts
  <2>2. job' \in [src : Names, dst : Names, gen : Nat]
    BY <1>0, <1>11, <2>1 DEF OpenSource, Types
  <2> QED
    BY <1>0, <1>11, <2>2 DEF OpenSource, Types, rotatorVars
<1>12. CASE CreateTarget
  <2>1. job.dst \in Names /\ job.gen \in Nat \ {0}
    BY <1>0, <1>12 DEF CreateTarget, Types, GzipStates, Opened
  <2>2. DirTypes'
    BY <1>12, <1>d, <2>1, CreatedTypes, WholeParts DEF CreateTarget
  <2>3. faults' \in Nat
    BY <1>0, <1>12 DEF CreateTarget, Types
  <2> QED
    BY <1>0, <1>12, <2>2, <2>3 DEF CreateTarget, Types, rotatorVars
<1>13. CASE Compress
  <2>1. job.gen \in Nat \ {0}
    BY <1>0, <1>13 DEF Compress, GzipStates, Opened
  <2>2. DirTypes'
    BY <1>13, <1>d, <2>1, WholeParts DEF Compress
  <2>3. faults' \in Nat
    BY <1>0, <1>13 DEF Compress, Types
  <2> QED
    BY <1>0, <1>13, <2>2, <2>3 DEF Compress, Types, rotatorVars
<1>14. CASE RemoveSource
  <2>1. DirTypes'
    BY <1>14, <1>d, RemovalFiles DEF RemoveSource
  <2>2. faults' \in Nat
    BY <1>0, <1>14, FaultsType DEF RemoveSource, Types
  <2> QED
    BY <1>0, <1>14, <2>1, <2>2 DEF RemoveSource, Types, rotatorVars
<1>15. CASE UNCHANGED rotationVars
  BY <1>0, <1>15 DEF rotationVars, Types
<1> QED
  BY <1>1, <1>2, <1>3, <1>4, <1>5, <1>6, <1>7, <1>8, <1>9, <1>10, <1>11, <1>12, <1>13,
     <1>14, <1>15 DEF RotationNext, RotatorStep, GzipStep

LEMMA GzipKeepsWriter == GzipStep => UNCHANGED <<setup, now, rotator, index, doomed,
                                                 expired, engineExit>>
BY DEF GzipStep, TakeJob, OpenSource, CreateTarget, Compress, RemoveSource, rotatorVars

LEMMA WriterKeepsGzip == RotatorStep => UNCHANGED <<setup, gzip, job, truncated, engineExit>>
BY DEF RotatorStep, NumberStep, StampStep, ScanDirectory, Prune, PruneEnds, RemoveClash,
       Handover, gzipVars

LEMMA FaultsGrow == ASSUME Types, [RotationNext]_rotationVars PROVE faults' \in Nat /\ faults <= faults'
<1> USE DEF Types
<1>1. CASE StartRotation
  BY <1>1 DEF StartRotation
<1>2. CASE RotatorStep
  <2>1. CASE NumberStep
    BY <2>1, FaultsType DEF NumberStep
  <2>2. CASE StampStep \/ ScanDirectory \/ PruneEnds
    BY <2>2, FaultsType DEF StampStep, ScanDirectory, PruneEnds
  <2>3. CASE Prune
    BY <2>3, FaultsType DEF Prune
  <2>4. CASE RemoveClash
    BY <2>4, FaultsType DEF RemoveClash
  <2>5. CASE Handover
    BY <2>5 DEF Handover
  <2> QED
    BY <1>2, <2>1, <2>2, <2>3, <2>4, <2>5 DEF RotatorStep
<1>3. CASE Exit
  BY <1>3 DEF Exit
<1>4. CASE GzipStep
  BY <1>4 DEF GzipStep, TakeJob, OpenSource, CreateTarget, Compress, RemoveSource, MayFail
<1>5. CASE UNCHANGED rotationVars
  BY <1>5 DEF rotationVars
<1> QED
  BY <1>1, <1>2, <1>3, <1>4, <1>5 DEF RotationNext

LEMMA TruncatedGrow == [RotationNext]_rotationVars => truncated \subseteq truncated'
BY WriterKeepsGzip DEF RotationNext, StartRotation, Exit, gzipVars, GzipStep, TakeJob,
   OpenSource, CreateTarget, Compress, RemoveSource, rotationVars

(* Control states *)

LEMMA WriterStatesNext == FilesInv /\ [RotationNext]_rotationVars => WriterStates'
<1> SUFFICES ASSUME FilesInv, [RotationNext]_rotationVars PROVE WriterStates'
  OBVIOUS
<1>0. WriterStates /\ RotationType \in {"Numbered", "Timestamp"}
  BY SetupTypes DEF FilesInv
<1> USE <1>0 DEF WriterStates, RotationType
<1>1. CASE StartRotation
  BY <1>1 DEF StartRotation
<1>2. CASE NumberStep
  BY <1>2 DEF NumberStep
<1>3. CASE StampStep \/ ScanDirectory \/ Prune \/ PruneEnds \/ RemoveClash \/ Handover
  BY <1>3 DEF StampStep, ScanDirectory, Prune, PruneEnds, RemoveClash, Handover
<1>4. CASE Exit
  BY <1>4 DEF Exit, rotatorVars
<1>5. CASE GzipStep
  BY <1>5, GzipKeepsWriter
<1>6. CASE UNCHANGED rotationVars
  BY <1>6 DEF rotationVars
<1> QED
  BY <1>1, <1>2, <1>3, <1>4, <1>5, <1>6 DEF RotationNext, RotatorStep

LEMMA GzipStatesNext == FilesInv /\ [RotationNext]_rotationVars => GzipStates'
<1> SUFFICES ASSUME FilesInv, [RotationNext]_rotationVars PROVE GzipStates'
  OBVIOUS
<1>0. GzipStates /\ Types
  BY DEF FilesInv
<1> USE DEF GzipStates, Busy, Opened
<1>1. CASE StartRotation
  BY <1>0, <1>1 DEF StartRotation, gzipVars, Compressed
<1>2. CASE RotatorStep
  <2>1. ~Compressed => queue' = queue
    BY <1>2 DEF RotatorStep, NumberStep, StampStep, ScanDirectory, Prune, PruneEnds,
       RemoveClash, Handover
  <2> QED
    BY <1>0, <1>2, <2>1, WriterKeepsGzip DEF Compressed
<1>3. CASE Exit
  BY <1>0, <1>3 DEF Exit, gzipVars, rotatorVars, Compressed
<1>4. CASE TakeJob
  <2>1. queue # <<>> => Head(queue) \in Nat \ {0}
    BY <1>0, HeadTailProperties DEF Types
  <2>2. setup' = setup
    BY <1>4 DEF TakeJob, rotatorVars
  <2>3. CASE /\ queue # <<>>
             /\ gzip' = "open"
             /\ job' = [src |-> File("zipping", Head(queue)),
                        dst |-> File("gz", Head(queue)), gen |-> 0]
    <3>1. job'.src = File("zipping", Head(queue)) /\ job'.dst = File("gz", Head(queue))
      BY <2>3
    <3>2. job'.src.tag = Head(queue)
      BY <3>1, FileParts
    <3> QED
      BY <1>0, <2>1, <2>2, <2>3, <3>1, <3>2 DEF Compressed
  <2>4. CASE queue = <<>> /\ gzip' = "exited" /\ queue' = queue
    BY <1>0, <2>2, <2>4 DEF Compressed
  <2> QED
    BY <1>4, <2>3, <2>4 DEF TakeJob
<1>5. CASE OpenSource
  <2>1. job.src \in DOMAIN dir => dir[job.src].gen \in Nat \ {0}
    BY <1>0, WholeParts DEF Types
  <2>2. UNCHANGED <<setup, queue>> /\ job'.src = job.src /\ job'.dst = job.dst
    BY <1>0, <1>5 DEF OpenSource, rotatorVars, Types
  <2>3. gzip' = "create" => job'.gen = dir[job.src].gen /\ job.src \in DOMAIN dir
    BY <1>0, <1>5 DEF OpenSource, Types
  <2>4. gzip = "open" /\ gzip' \in {"create", "waiting"}
    BY <1>5 DEF OpenSource
  <2> QED
    BY <1>0, <2>1, <2>2, <2>3, <2>4 DEF Compressed
<1>6. CASE CreateTarget
  BY <1>0, <1>6 DEF CreateTarget, rotatorVars, Compressed
<1>7. CASE Compress
  BY <1>0, <1>7 DEF Compress, rotatorVars, Compressed
<1>8. CASE RemoveSource
  BY <1>0, <1>8 DEF RemoveSource, rotatorVars, Compressed
<1>9. CASE UNCHANGED rotationVars
  BY <1>0, <1>9 DEF rotationVars, Compressed
<1> QED
  BY <1>1, <1>2, <1>3, <1>4, <1>5, <1>6, <1>7, <1>8, <1>9 DEF RotationNext, GzipStep

LEMMA ExitOrderNext == FilesInv /\ [RotationNext]_rotationVars => ExitOrder'
<1> SUFFICES ASSUME FilesInv, [RotationNext]_rotationVars PROVE ExitOrder'
  OBVIOUS
<1>0. ExitOrder /\ Types
  BY DEF FilesInv
<1> USE DEF ExitOrder
<1>1. CASE StartRotation
  BY <1>0, <1>1 DEF StartRotation, gzipVars, Types
<1>2. CASE RotatorStep
  <2>1. rotator # "idle"
    BY <1>2 DEF RotatorStep, NumberStep, StampStep, ScanDirectory, Prune, PruneEnds,
       RemoveClash, Handover
  <2>2. ~engineExit
    BY <1>0, <2>1
  <2>3. gzip # "exited"
    BY <1>0, <2>2
  <2> QED
    BY <1>2, <2>2, <2>3, WriterKeepsGzip
<1>3. CASE Exit
  BY <1>0, <1>3 DEF Exit, gzipVars, rotatorVars
<1>4. CASE GzipStep
  <2>1. engineExit' = engineExit /\ rotator' = rotator
    BY <1>4, GzipKeepsWriter
  <2>2. gzip' = "exited" => engineExit /\ queue' = <<>>
    BY <1>0, <1>4 DEF GzipStep, TakeJob, OpenSource, CreateTarget, Compress, RemoveSource
  <2> QED
    BY <1>0, <2>1, <2>2
<1>5. CASE UNCHANGED rotationVars
  BY <1>0, <1>5 DEF rotationVars
<1> QED
  BY <1>1, <1>2, <1>3, <1>4, <1>5 DEF RotationNext

(* The queue *)

LEMMA ZippingIsQueuedNext == FilesInv /\ [RotationNext]_rotationVars => ZippingIsQueued'
<1> SUFFICES ASSUME FilesInv, [RotationNext]_rotationVars, faults' = 0,
                    NEW n \in DOMAIN dir', n.kind = "zipping"
             PROVE  \/ \E i \in 1 .. Len(queue') : queue'[i] = n.tag
                    \/ gzip' \in Busy /\ job'.src = n
  BY DEF ZippingIsQueued
<1>0. Types /\ ZippingIsQueued /\ GzipStates /\ faults = 0
  BY FaultsGrow DEF FilesInv, Types
<1>00. \A m \in DOMAIN dir : m.kind = "zipping" =>
          \/ \E i \in 1 .. Len(queue) : queue[i] = m.tag
          \/ gzip \in Busy /\ job.src = m
  BY <1>0 DEF ZippingIsQueued
<1>q. queue \in Seq(Nat \ {0}) /\ Len(queue) \in Nat
  BY <1>0, LenProperties DEF Types
<1>1. CASE n \in DOMAIN dir /\ UNCHANGED <<queue, gzip, job>>
  BY <1>00, <1>1
<1>2. CASE StartRotation
  BY <1>1, <1>2 DEF StartRotation, gzipVars
<1>3. CASE NumberStep
  <2>1. Dst(index) \in DOMAIN dir' => Dst(index).kind # "zipping"
    BY FileParts DEF Dst
  <2>2. n \in DOMAIN dir
    BY <1>0, <1>3, <2>1, NumberStepFiles DEF Removed, Renamed
  <2> QED
    BY <1>1, <1>3, <2>2 DEF NumberStep, gzipVars
<1>4. CASE StampStep
  <2>1. n # File("plain", now)
    BY FileParts
  <2>2. n \in DOMAIN dir
    BY <1>4, <2>1 DEF StampStep, MayFail, Renamed
  <2> QED
    BY <1>1, <1>4, <2>2 DEF StampStep, gzipVars
<1>5. CASE ScanDirectory \/ PruneEnds
  BY <1>1, <1>5 DEF ScanDirectory, PruneEnds, gzipVars
<1>6. CASE Prune
  <2>1. n \in DOMAIN dir
    BY <1>6, RemovalFiles DEF Prune
  <2> QED
    BY <1>1, <1>6, <2>1 DEF Prune, gzipVars
<1>7. CASE RemoveClash
  <2>1. n \in DOMAIN dir
    BY <1>7, RemovalFiles DEF RemoveClash
  <2> QED
    BY <1>1, <1>7, <2>1 DEF RemoveClash, gzipVars
<1>8. CASE Handover
  <2> DEFINE plain == File("plain", NewTag)
  <2>1. NewTag \in Nat \ {0}
    BY <1>0 DEF NewTag, Types
  <2>2. \/ dir' = Reopened(dir) /\ queue' = queue
        \/ /\ dir' = Reopened(Renamed(dir, plain, Zipping))
           /\ queue' = Append(queue, NewTag)
    BY <1>8 DEF Handover
  <2>3. n # Base /\ Zipping.tag = NewTag
    BY FileParts DEF Base, Zipping
  <2>4. UNCHANGED <<gzip, job>>
    BY <1>8 DEF Handover, gzipVars
  <2>5. CASE dir' = Reopened(dir) /\ queue' = queue
    BY <1>1, <2>3, <2>4, <2>5, ReopenedFiles
  <2>6. CASE /\ dir' = Reopened(Renamed(dir, plain, Zipping))
             /\ queue' = Append(queue, NewTag)
    <3>1. n \in DOMAIN dir \/ n = Zipping
      BY <2>3, <2>6 DEF Reopened, Renamed, Created
    <3>2. /\ Len(queue') = Len(queue) + 1
          /\ \A i \in 1 .. Len(queue) : queue'[i] = queue[i]
          /\ queue'[Len(queue) + 1] = NewTag
      BY <1>q, <2>1, <2>6, AppendProperties
    <3>3. CASE n = Zipping
      BY <1>q, <2>3, <3>2, <3>3
    <3>4. CASE n \in DOMAIN dir
      BY <1>00, <1>q, <2>4, <3>2, <3>4
    <3> QED
      BY <3>1, <3>3, <3>4
  <2> QED
    BY <2>2, <2>5, <2>6
<1>9. CASE Exit
  BY <1>1, <1>9 DEF Exit, gzipVars
<1>10. CASE TakeJob
  <2>1. n \in DOMAIN dir /\ gzip = "waiting"
    BY <1>10 DEF TakeJob
  <2>2. PICK i \in 1 .. Len(queue) : queue[i] = n.tag
    BY <1>00, <2>1 DEF Busy, Opened
  <2>3. queue # <<>>
    BY <1>q, <2>2, EmptySeq
  <2>4. /\ job'.src = File("zipping", Head(queue))
        /\ queue' = Tail(queue)
        /\ gzip' = "open"
    BY <1>10, <2>3 DEF TakeJob
  <2>5. /\ Head(queue) = queue[1]
        /\ Len(Tail(queue)) = Len(queue) - 1
        /\ \A j \in 1 .. Len(Tail(queue)) : Tail(queue)[j] = queue[j + 1]
    BY <1>q, <2>3, HeadTailProperties
  <2>6. CASE i = 1
    <3>1. n = File("zipping", n.tag)
      BY <1>0, <2>1, FileParts DEF Types
    <3> QED
      BY <2>2, <2>4, <2>5, <2>6, <3>1 DEF Busy
  <2>7. CASE i # 1
    <3>1. i - 1 \in 1 .. Len(Tail(queue)) /\ Tail(queue)[i - 1] = queue[i]
      BY <1>q, <2>2, <2>5, <2>7
    <3> QED
      BY <2>2, <2>4, <3>1
  <2> QED
    BY <2>6, <2>7
<1>11. CASE OpenSource
  <2>1. n \in DOMAIN dir /\ queue' = queue
    BY <1>11 DEF OpenSource
  <2>2. job'.src = job.src
    BY <1>0, <1>11 DEF OpenSource, Types
  <2>3. job.src = n => gzip' = "create"
    BY <1>11, <2>1 DEF OpenSource
  <2> QED
    BY <1>00, <2>1, <2>2, <2>3 DEF Busy, Opened
<1>12. CASE CreateTarget
  <2>0. faults' = faults
    BY <1>0
  <2>1. job.dst.kind = "gz" /\ gzip = "create" /\ gzip' = "compress"
    BY <1>0, <1>12, <2>0, FileParts DEF CreateTarget, GzipStates, Busy, Opened
  <2>2. n \in DOMAIN dir
    BY <1>12, <2>1 DEF CreateTarget, Created
  <2> QED
    BY <1>00, <1>12, <2>1, <2>2 DEF CreateTarget, Busy, Opened
<1>13. CASE Compress
  <2>1. n \in DOMAIN dir /\ gzip' = "remove" /\ UNCHANGED <<queue, job>>
    BY <1>0, <1>13 DEF Compress
  <2> QED
    BY <1>00, <2>1, <1>13 DEF Compress, Busy, Opened
<1>14. CASE RemoveSource
  <2>1. n \in DOMAIN dir /\ n # job.src /\ queue' = queue
    BY <1>0, <1>14 DEF RemoveSource, MayFail, Removed
  <2> QED
    BY <1>00, <2>1
<1>15. CASE UNCHANGED rotationVars
  BY <1>1, <1>15 DEF rotationVars
<1> QED
  BY <1>2, <1>3, <1>4, <1>5, <1>6, <1>7, <1>8, <1>9, <1>10, <1>11, <1>12, <1>13,
     <1>14, <1>15 DEF RotationNext, RotatorStep, GzipStep

-----------------------------------------------------------------------------
(* The timestamp engine *)

LEMMA NoNumberStep == ASSUME FilesInv, RotationType = "Timestamp" PROVE ~NumberStep
BY DEF FilesInv, WriterStates, NumberStep

(* What the compression leaves of a directory: names and generations stay,  *)
(* and what was whole stays whole.                                          *)
LEMMA CompressedFiles ==
    ASSUME Types, Compress
    PROVE  /\ DOMAIN dir' = DOMAIN dir
           /\ \A n \in DOMAIN dir :
                 /\ dir'[n].gen = dir[n].gen
                 /\ dir[n].whole => dir'[n] = dir[n]
           /\ gzip' = "remove" /\ job.gen \notin truncated' =>
                 \A n \in DOMAIN dir : dir[n].gen = job.gen => dir'[n] = Whole(job.gen)
           /\ gzip' \in {"remove", "waiting"}
<1>1. CASE /\ UNCHANGED dir
           /\ \/ gzip' = "waiting"
              \/ gzip' = "remove" /\ truncated' = truncated \cup {job.gen}
  BY <1>1
<1>2. CASE /\ dir' = [n \in DOMAIN dir |-> IF dir[n] = Partial(job.gen)
                                           THEN Whole(job.gen) ELSE dir[n]]
           /\ gzip' = "remove"
  <2>1. \A n \in DOMAIN dir : dir'[n] = IF dir[n] = Partial(job.gen)
                                        THEN Whole(job.gen) ELSE dir[n]
    BY <1>2
  <2>2. DOMAIN dir' = DOMAIN dir
    BY <1>2
  <2>3. ASSUME NEW n \in DOMAIN dir
        PROVE  /\ dir'[n].gen = dir[n].gen
               /\ dir[n].whole => dir'[n] = dir[n]
               /\ dir[n].gen = job.gen => dir'[n] = Whole(job.gen)
    <3>1. dir[n] \in Contents
      BY DEF Types
    <3>2. CASE dir[n] = Partial(job.gen)
      <4>1. dir'[n] = Whole(job.gen)
        BY <2>1, <3>2
      <4>2. dir[n].gen = job.gen /\ dir[n].whole = FALSE /\ dir'[n].gen = job.gen
        BY <3>2, <4>1, WholeParts
      <4> QED
        BY <4>1, <4>2
    <3>3. CASE dir[n] # Partial(job.gen)
      <4>1. dir'[n] = dir[n]
        BY <2>1, <3>3
      <4>2. dir[n].gen = job.gen => dir[n] = Whole(job.gen)
        BY <3>1, <3>3, WholeParts
      <4> QED
        BY <4>1, <4>2
    <3> QED
      BY <3>2, <3>3
  <2> QED
    BY <1>2, <2>2, <2>3
<1> QED
  BY <1>1, <1>2 DEF Compress

LEMMA StampedFilesNext ==
    ASSUME FilesInv, [RotationNext]_rotationVars, RotationType = "Timestamp"
    PROVE  StampedFiles'
<1>0. Types /\ StampedFiles /\ StampedJob /\ DoomedExpired /\ GzipStates
  BY DEF FilesInv, StampedInv
<1>n. now \in Nat \ {0} /\ DOMAIN dir \subseteq Names
  BY <1>0 DEF Types
<1>b. Base.kind = "base" /\ Base \in Names
  BY FileParts DEF Base
<1>f. \A n \in DOMAIN dir : n.kind # "base" =>
          /\ dir[n].gen = n.tag
          /\ n.kind # "gz" => dir[n].whole
          /\ n.tag <= now
          /\ n.tag = now => n.kind = "plain" /\ Base \notin DOMAIN dir
  BY <1>0 DEF StampedFiles
<1>w. /\ Base \in DOMAIN dir => dir[Base] = Whole(now)
      /\ Base \notin DOMAIN dir => rotator \in {"scan", "prune", "clash", "handover"}
      /\ rotator \in {"prune", "clash", "handover"} => Base \notin DOMAIN dir
  BY <1>0 DEF StampedFiles
<1> USE <1>n DEF StampedFiles
<1>1. CASE StartRotation
  <2>1. Base \in DOMAIN dir
    BY <1>w, <1>1 DEF StartRotation
  <2> QED
    BY <1>f, <1>w, <1>1, <2>1 DEF StartRotation, RotationType
<1>2. CASE StampStep
  <2>1. Base \in DOMAIN dir /\ dir[Base] = Whole(now)
    BY <1>w, <1>2 DEF StampStep
  <2>2. now' = now /\ rotator' = "scan"
    BY <1>2 DEF StampStep
  <2>3. CASE dir' = dir
    BY <1>f, <2>1, <2>2, <2>3
  <2>4. CASE dir' = Renamed(dir, Base, File("plain", now))
    <3> DEFINE p == File("plain", now)
    <3>1. p.kind = "plain" /\ p.tag = now
      BY FileParts
    <3> HIDE DEF p
    <3>2. p # Base
      BY <1>b, <3>1
    <3>3. /\ DOMAIN dir' = (DOMAIN dir \ {Base}) \cup {p}
          /\ dir'[p] = dir[Base]
          /\ \A n \in DOMAIN dir : n # p /\ n # Base => dir'[n] = dir[n]
      BY <2>4 DEF Renamed, p
    <3>4. dir'[p].gen = now /\ dir'[p].whole
      BY <2>1, <3>3, WholeParts
    <3>5. Base \notin DOMAIN dir'
      BY <3>2, <3>3
    <3>6. ASSUME NEW n \in DOMAIN dir', n.kind # "base"
          PROVE  /\ dir'[n].gen = n.tag
                 /\ n.kind # "gz" => dir'[n].whole
                 /\ n.tag <= now
                 /\ n.tag = now => n.kind = "plain" /\ Base \notin DOMAIN dir'
      <4>1. CASE n = p
        BY <3>1, <3>4, <3>5, <4>1
      <4>2. CASE n # p
        <5>1. n \in DOMAIN dir /\ dir'[n] = dir[n]
          BY <1>b, <3>3, <3>6, <4>2
        <5> QED
          BY <1>f, <2>1, <3>6, <5>1
      <4> QED
        BY <4>1, <4>2
    <3> QED
      BY <2>2, <3>5, <3>6
  <2> QED
    BY <1>2, <2>3, <2>4 DEF StampStep, MayFail
<1>3. CASE ScanDirectory
  BY <1>f, <1>w, <1>3 DEF ScanDirectory
<1>4. CASE Prune
  <2>2. /\ DOMAIN dir' \subseteq DOMAIN dir
        /\ \A n \in DOMAIN dir' : dir'[n] = dir[n]
    BY <1>4, RemovalFiles DEF Prune
  <2> QED
    BY <1>f, <1>w, <1>4, <2>2 DEF Prune
<1>5. CASE PruneEnds
  BY <1>f, <1>w, <1>5 DEF PruneEnds
<1>6. CASE RemoveClash
  <2>1. /\ DOMAIN dir' \subseteq DOMAIN dir
        /\ \A n \in DOMAIN dir' : dir'[n] = dir[n]
    BY <1>6, RemovalFiles DEF RemoveClash
  <2> QED
    BY <1>f, <1>w, <1>6, <2>1 DEF RemoveClash
<1>7. CASE Handover
  <2> DEFINE plain == File("plain", now)
  <2>0. NewTag = now /\ Zipping = File("zipping", now)
    BY DEF NewTag, Zipping
  <2>1. Zipping.tag = now /\ Zipping.kind = "zipping" /\ plain.tag = now
        /\ plain.kind = "plain"
    BY <2>0, FileParts
  <2>2. Base \notin DOMAIN dir /\ now' = now + 1 /\ rotator' = "idle"
    BY <1>w, <1>7 DEF Handover
  <2>3. \/ dir' = Reopened(dir)
        \/ plain \in DOMAIN dir /\ dir' = Reopened(Renamed(dir, plain, Zipping))
    BY <1>7, <2>0 DEF Handover
  <2> HIDE DEF plain
  <2>4. Base # Zipping
    BY <1>b, <2>1
  <2>5. CASE dir' = Reopened(dir)
    <3>1. /\ DOMAIN dir' = DOMAIN dir \cup {Base}
          /\ dir'[Base] = Whole(now + 1)
          /\ \A n \in DOMAIN dir : dir'[n] = dir[n]
      BY <2>2, <2>5 DEF Reopened, Created
    <3>2. ASSUME NEW n \in DOMAIN dir', n.kind # "base"
          PROVE  /\ dir'[n].gen = n.tag
                 /\ n.kind # "gz" => dir'[n].whole
                 /\ n.tag <= now
      BY <1>b, <1>f, <3>1, <3>2
    <3>3. ASSUME NEW n \in DOMAIN dir', n.kind # "base"
          PROVE  n.tag <= now + 1 /\ n.tag # now + 1
      <4>1. n \in DOMAIN dir
        BY <1>b, <3>1, <3>3
      <4>2. n.tag \in Nat
        BY <3>3, <4>1, FileParts
      <4> QED
        BY <3>2, <3>3, <4>2
    <3> QED
      BY <2>2, <3>1, <3>2, <3>3
  <2>6. CASE plain \in DOMAIN dir /\ dir' = Reopened(Renamed(dir, plain, Zipping))
    <3>1. /\ DOMAIN dir' = (DOMAIN dir \ {plain}) \cup {Zipping, Base}
          /\ dir'[Base] = Whole(now + 1)
          /\ dir'[Zipping] = dir[plain]
          /\ \A n \in DOMAIN dir : n # plain /\ n # Zipping => dir'[n] = dir[n]
      BY <2>2, <2>4, <2>6 DEF Reopened, Created, Renamed
    <3>2. ASSUME NEW n \in DOMAIN dir', n.kind # "base"
          PROVE  /\ dir'[n].gen = n.tag
                 /\ n.kind # "gz" => dir'[n].whole
                 /\ n.tag <= now
      <4>1. CASE n = Zipping
        BY <1>f, <2>1, <2>6, <3>1, <4>1
      <4>2. CASE n # Zipping
        <5>1. n \in DOMAIN dir /\ dir'[n] = dir[n]
          BY <1>b, <3>1, <3>2, <4>2
        <5> QED
          BY <1>f, <3>2, <5>1
      <4> QED
        BY <4>1, <4>2
    <3>3. ASSUME NEW n \in DOMAIN dir', n.kind # "base"
          PROVE  n.tag <= now + 1 /\ n.tag # now + 1
      <4>1. n \in DOMAIN dir \/ n = Zipping
        BY <1>b, <3>1, <3>3
      <4>2. n.tag \in Nat
        BY <2>1, <3>3, <4>1, FileParts
      <4> QED
        BY <3>2, <3>3, <4>2
    <3> QED
      BY <2>2, <3>1, <3>2, <3>3
  <2> QED
    BY <2>3, <2>5, <2>6
<1>8. CASE Exit
  BY <1>f, <1>w, <1>8 DEF Exit, rotatorVars
<1>9. CASE TakeJob \/ OpenSource
  BY <1>f, <1>w, <1>9 DEF TakeJob, OpenSource, rotatorVars
<1>10. CASE CreateTarget
  <2>1. /\ job.dst.kind = "gz" /\ job.dst.tag = job.src.tag
        /\ job.gen = job.src.tag /\ job.src.tag < now
        /\ job.src.tag \in Nat
    BY <1>0, <1>10, FileParts DEF CreateTarget, GzipStates, StampedJob, Busy, Opened
  <2>4. now' = now /\ rotator' = rotator
    BY <1>10 DEF CreateTarget, rotatorVars
  <2>7. CASE dir' = dir
    BY <1>f, <1>w, <2>4, <2>7
  <2>8. SUFFICES ASSUME dir' = Created(dir, job.dst, Partial(job.gen)) PROVE StampedFiles'
    BY <1>10, <2>7 DEF CreateTarget
  <2>2. /\ DOMAIN dir' = DOMAIN dir \cup {job.dst}
        /\ dir'[job.dst] = Partial(job.gen)
        /\ \A n \in DOMAIN dir : n # job.dst => dir'[n] = dir[n]
    BY <2>8 DEF Created
  <2>3. dir'[job.dst].gen = job.gen
    BY <2>2, WholeParts
  <2>5. Base # job.dst
    BY <1>b, <2>1
  <2>6. ASSUME NEW n \in DOMAIN dir', n.kind # "base"
        PROVE  /\ dir'[n].gen = n.tag
               /\ n.kind # "gz" => dir'[n].whole
               /\ n.tag <= now
               /\ n.tag = now => n.kind = "plain" /\ Base \notin DOMAIN dir'
    <3>1. CASE n = job.dst
      BY <2>1, <2>3, <3>1
    <3>2. CASE n # job.dst
      BY <1>f, <2>2, <2>5, <2>6, <3>2
    <3> QED
      BY <3>1, <3>2
  <2> QED
    BY <1>w, <2>2, <2>4, <2>5, <2>6
<1>11. CASE Compress
  <2>1. now' = now /\ rotator' = rotator
    BY <1>11 DEF Compress, rotatorVars
  <2>2. Base \in DOMAIN dir => dir'[Base] = dir[Base]
    BY <1>0, <1>w, <1>11, CompressedFiles, WholeParts
  <2>3. ASSUME NEW n \in DOMAIN dir', n.kind # "base"
        PROVE  /\ dir'[n].gen = n.tag
               /\ n.kind # "gz" => dir'[n].whole
               /\ n.tag <= now
               /\ n.tag = now => n.kind = "plain" /\ Base \notin DOMAIN dir'
    BY <1>0, <1>f, <1>11, <2>3, CompressedFiles
  <2>4. DOMAIN dir' = DOMAIN dir
    BY <1>0, <1>11, CompressedFiles
  <2> QED
    BY <1>w, <2>1, <2>2, <2>3, <2>4
<1>12. CASE RemoveSource
  <2>1. job.src.kind = "zipping"
    BY <1>0, <1>12, FileParts DEF RemoveSource, GzipStates, Busy, Opened
  <2>3. Base # job.src
    BY <1>b, <2>1
  <2>2. /\ DOMAIN dir' \subseteq DOMAIN dir
        /\ \A n \in DOMAIN dir' : dir'[n] = dir[n]
        /\ Base \in DOMAIN dir => Base \in DOMAIN dir'
    BY <1>12, <2>3, RemovalFiles DEF RemoveSource
  <2>4. now' = now /\ rotator' = rotator
    BY <1>12 DEF RemoveSource, rotatorVars
  <2> QED
    BY <1>f, <1>w, <2>2, <2>3, <2>4
<1>13. CASE UNCHANGED rotationVars
  BY <1>f, <1>w, <1>13 DEF rotationVars
<1> QED
  BY <1>1, <1>2, <1>3, <1>4, <1>5, <1>6, <1>7, <1>8, <1>9, <1>10, <1>11, <1>12, <1>13,
     NoNumberStep DEF RotationNext, RotatorStep, GzipStep

(* The writer leaves the files of earlier generations alone, the expired    *)
(* ones excepted.                                                           *)
LEMMA OlderFilesStay ==
    ASSUME FilesInv, RotatorStep, RotationType = "Timestamp", NEW n \in DOMAIN dir,
           n.kind # "base", n.tag < now
    PROVE  \/ n \in DOMAIN dir' /\ dir'[n] = dir[n]
           \/ n.tag \in expired
<1>0. Types /\ DoomedExpired
  BY DEF FilesInv, StampedInv
<1>n. now \in Nat \ {0} /\ n.tag # now /\ n # Base
  BY <1>0, FileParts DEF Types, Base
<1>1. CASE StampStep
  <2>1. File("plain", now).tag = now
    BY FileParts
  <2> QED
    BY <1>n, <1>1, <2>1 DEF StampStep, MayFail, Renamed
<1>2. CASE ScanDirectory \/ PruneEnds
  BY <1>2 DEF ScanDirectory, PruneEnds
<1>3. CASE Prune
  <2>1. PICK m \in doomed : MayFail(Removed(dir, {m}))
    BY <1>3 DEF Prune
  <2>2. m.tag \in expired
    BY <1>0 DEF DoomedExpired
  <2>3. CASE n = m
    BY <2>2, <2>3
  <2>4. CASE n # m
    BY <2>1, <2>4, RemovalFiles
  <2> QED
    BY <2>3, <2>4
<1>4. CASE RemoveClash
  <2>1. Zipping.tag = now
    BY FileParts DEF Zipping, NewTag
  <2> QED
    BY <1>n, <1>4, <2>1, RemovalFiles DEF RemoveClash
<1>5. CASE Handover
  <2> DEFINE plain == File("plain", NewTag)
  <2>1. Zipping.tag = now /\ plain.tag = now
    BY FileParts DEF Zipping, NewTag
  <2>2. dir' = Reopened(dir) \/ dir' = Reopened(Renamed(dir, plain, Zipping))
    BY <1>5 DEF Handover
  <2> HIDE DEF plain
  <2>3. CASE dir' = Reopened(dir)
    BY <2>3, ReopenedFiles
  <2>4. CASE dir' = Reopened(Renamed(dir, plain, Zipping))
    <3> DEFINE e == Renamed(dir, plain, Zipping)
    <3>1. n \in DOMAIN e /\ e[n] = dir[n]
      BY <1>n, <2>1 DEF Renamed
    <3>2. n \in DOMAIN Reopened(e) /\ Reopened(e)[n] = e[n]
      BY <3>1, ReopenedFiles
    <3> QED
      BY <2>4, <3>1, <3>2
  <2> QED
    BY <2>2, <2>3, <2>4
<1> QED
  BY <1>1, <1>2, <1>3, <1>4, <1>5, NoNumberStep DEF RotatorStep

LEMMA StampedClock ==
    ASSUME FilesInv, [RotationNext]_rotationVars, RotationType = "Timestamp"
    PROVE  /\ now' \in {now, now + 1}
           /\ expired \subseteq expired'
           /\ now' # now => Handover /\ Base \notin DOMAIN dir
           /\ expired' # expired => ScanDirectory /\ Base \notin DOMAIN dir
<1>1. CASE StartRotation
  BY <1>1 DEF StartRotation
<1>2. CASE RotatorStep
  BY <1>2, NoNumberStep DEF RotatorStep, StampStep, ScanDirectory, Prune, PruneEnds,
     RemoveClash, Handover
<1>3. CASE Exit
  BY <1>3 DEF Exit, rotatorVars
<1>4. CASE GzipStep
  BY <1>4, GzipKeepsWriter
<1>5. CASE UNCHANGED rotationVars
  BY <1>5 DEF rotationVars
<1> QED
  BY <1>1, <1>2, <1>3, <1>4, <1>5 DEF RotationNext

LEMMA StampedJobNext ==
    ASSUME FilesInv, [RotationNext]_rotationVars, RotationType = "Timestamp"
    PROVE  StampedJob'
<1>0. Types /\ StampedFiles /\ StampedJob /\ GzipStates
  BY DEF FilesInv, StampedInv
<1>n. now \in Nat \ {0} /\ queue \in Seq(Nat \ {0}) /\ Len(queue) \in Nat
  BY <1>0, LenProperties DEF Types
<1>j. gzip \in Busy => /\ job.src.tag \in Nat
                       /\ job.src.kind = "zipping"
                       /\ job.dst.kind = "gz"
                       /\ job.dst.tag = job.src.tag
  BY <1>0, FileParts DEF GzipStates
<1>q. \A i \in 1 .. Len(queue) : queue[i] < now /\ queue[i] \in Nat
  BY <1>0, <1>n, ElementOfSeq DEF StampedJob
<1>c. /\ now' \in {now, now + 1} /\ expired \subseteq expired'
      /\ truncated \subseteq truncated'
  BY StampedClock, TruncatedGrow
<1>1. CASE UNCHANGED <<dir, queue, gzip, job>>
  BY <1>0, <1>1, <1>c, <1>n, <1>q, <1>j DEF StampedJob, Busy, Opened
<1>2. CASE RotatorStep
  <2>1. UNCHANGED <<gzip, job>>
    BY <1>2, WriterKeepsGzip
  <2>2. \A i \in 1 .. Len(queue') : queue'[i] < now'
    <3>1. CASE Handover /\ queue' = Append(queue, NewTag)
      <4>1. Base \notin DOMAIN dir
        BY <1>0, <3>1 DEF Handover, StampedFiles
      <4>2. now' = now + 1 /\ NewTag = now
        BY <3>1, <4>1 DEF Handover, NewTag
      <4>3. /\ Len(queue') = Len(queue) + 1
            /\ \A i \in 1 .. Len(queue) : queue'[i] = queue[i]
            /\ queue'[Len(queue) + 1] = now
        BY <1>n, <3>1, <4>2, AppendProperties
      <4> QED
        BY <1>n, <1>q, <4>2, <4>3
    <3>2. CASE queue' = queue
      BY <1>n, <1>q, <1>c, <3>2
    <3> QED
      BY <1>2, <3>1, <3>2 DEF RotatorStep, NumberStep, StampStep, ScanDirectory, Prune,
         PruneEnds, RemoveClash, Handover
  <2>3. gzip \in Busy => job.src.tag < now'
    BY <1>0, <1>n, <1>c, <1>j DEF StampedJob
  <2>4. gzip \in {"create", "compress"} =>
            job.src \in DOMAIN dir' \/ job.src.tag \in expired'
    BY <1>0, <1>2, <1>c, <1>j, OlderFilesStay DEF StampedJob, Busy, Opened
  <2>5. gzip = "compress" => job.dst \in DOMAIN dir' \/ job.src.tag \in expired'
    BY <1>0, <1>2, <1>c, <1>j, OlderFilesStay DEF StampedJob, Busy, Opened
  <2>6. gzip = "remove" =>
          \/ job.dst \in DOMAIN dir' /\ dir'[job.dst] = Whole(job.src.tag)
          \/ job.src.tag \in expired' \cup truncated'
    BY <1>0, <1>2, <1>c, <1>j, OlderFilesStay DEF StampedJob, Busy, Opened
  <2>7. gzip \in Opened => job.gen = job.src.tag
    BY <1>0 DEF StampedJob
  <2> QED
    BY <2>1, <2>2, <2>3, <2>4, <2>5, <2>6, <2>7 DEF StampedJob, Busy, Opened
<1>3. CASE GzipStep
  <2>0. UNCHANGED <<now, expired>>
    BY <1>3, GzipKeepsWriter
  <2>1. CASE TakeJob
    <3>1. CASE queue # <<>>
      <4>1. /\ Head(queue) = queue[1]
            /\ Len(Tail(queue)) = Len(queue) - 1
            /\ \A i \in 1 .. Len(Tail(queue)) : Tail(queue)[i] = queue[i + 1]
            /\ Len(queue) >= 1
        BY <1>n, <3>1, HeadTailProperties, EmptySeq
      <4>2. /\ job'.src = File("zipping", Head(queue))
            /\ queue' = Tail(queue)
            /\ gzip' = "open"
        BY <2>1, <3>1 DEF TakeJob
      <4>3. job'.src.tag < now
        BY <1>q, <4>1, <4>2, FileParts
      <4>4. \A i \in 1 .. Len(queue') : queue'[i] < now
        BY <1>n, <1>q, <4>1, <4>2
      <4> QED
        BY <2>0, <4>2, <4>3, <4>4 DEF StampedJob, Busy, Opened
    <3>2. CASE queue = <<>>
      BY <1>q, <2>0, <2>1, <3>2 DEF TakeJob, StampedJob, Busy, Opened
    <3> QED
      BY <3>1, <3>2
  <2>2. CASE OpenSource
    <3>1. job'.src = job.src /\ job'.dst = job.dst /\ UNCHANGED <<queue, dir>>
          /\ gzip = "open" /\ gzip' \in {"create", "waiting"}
      BY <1>0, <2>2 DEF OpenSource, Types
    <3>2. gzip' = "create" => job.src \in DOMAIN dir /\ job'.gen = dir[job.src].gen
      BY <1>0, <2>2 DEF OpenSource, Types
    <3>3. gzip' = "create" => job'.gen = job.src.tag
      BY <1>0, <1>j, <3>1, <3>2 DEF StampedFiles, Busy
    <3> QED
      BY <1>0, <1>q, <2>0, <3>1, <3>2, <3>3 DEF StampedJob, Busy, Opened
  <2>3. CASE CreateTarget
    <3>1. UNCHANGED <<job, queue>> /\ gzip = "create" /\ gzip' \in {"compress", "waiting"}
      BY <2>3 DEF CreateTarget
    <3>2. gzip' = "compress" => DOMAIN dir' = DOMAIN dir \cup {job.dst}
      BY <2>3 DEF CreateTarget, Created
    <3> QED
      BY <1>0, <2>0, <3>1, <3>2 DEF StampedJob, Busy, Opened
  <2>4. CASE Compress
    <3>1. UNCHANGED <<job, queue>> /\ gzip = "compress" /\ gzip' \in {"remove", "waiting"}
      BY <2>4 DEF Compress
    <3>2. job.gen = job.src.tag
      BY <1>0, <3>1 DEF StampedJob, Opened
    <3>3. job.dst \in DOMAIN dir => dir[job.dst].gen = job.gen
      BY <1>0, <1>j, <3>1, <3>2 DEF StampedFiles, Busy, Opened
    <3>4. gzip' = "remove" /\ job.dst \in DOMAIN dir =>
                  \/ job.dst \in DOMAIN dir' /\ dir'[job.dst] = Whole(job.src.tag)
                  \/ job.src.tag \in truncated'
      BY <1>0, <2>4, <3>2, <3>3, CompressedFiles
    <3> QED
      BY <1>0, <2>0, <3>1, <3>2, <3>4 DEF StampedJob, Busy, Opened
  <2>5. CASE RemoveSource
    BY <1>0, <2>0, <2>5 DEF RemoveSource, StampedJob, Busy, Opened
  <2> QED
    BY <1>3, <2>1, <2>2, <2>3, <2>4, <2>5 DEF GzipStep
<1>4. CASE StartRotation
  BY <1>1, <1>4 DEF StartRotation, gzipVars
<1>5. CASE Exit
  BY <1>1, <1>5 DEF Exit, gzipVars
<1>6. CASE UNCHANGED rotationVars
  BY <1>1, <1>6 DEF rotationVars
<1> QED
  BY <1>2, <1>3, <1>4, <1>5, <1>6 DEF RotationNext

LEMMA DoomedExpiredNext ==
    ASSUME FilesInv, [RotationNext]_rotationVars, RotationType = "Timestamp"
    PROVE  DoomedExpired'
<1>0. Types /\ DoomedExpired
  BY DEF FilesInv, StampedInv
<1>c. expired \subseteq expired'
  BY StampedClock
<1>1. CASE doomed' \subseteq doomed
  BY <1>0, <1>1, <1>c DEF DoomedExpired
<1>2. CASE ScanDirectory /\ doomed' # doomed
  <2>1. PICK files \in OneFilePerTag :
            /\ doomed' = {n \in files : TooOld(n.tag)}
            /\ expired' = expired \cup {t \in Tags : TooOld(t)}
    BY <1>2 DEF ScanDirectory
  <2>2. files \subseteq Rotated
    BY DEF OneFilePerTag
  <2>3. ASSUME NEW n \in doomed'
        PROVE  n \in Names /\ n.kind # "base" /\ n.tag \in expired'
    <3>1. n \in Rotated /\ TooOld(n.tag)
      BY <2>1, <2>2
    <3>2. n.tag \in Tags
      BY <3>1 DEF Tags
    <3> QED
      BY <1>0, <2>1, <3>1, <3>2 DEF Rotated, Types
  <2> QED
    BY <2>3 DEF DoomedExpired
<1>3. CASE StartRotation
  BY <1>1, <1>3 DEF StartRotation
<1>4. CASE RotatorStep
  BY <1>1, <1>2, <1>4 DEF RotatorStep, NumberStep, StampStep, ScanDirectory, Prune,
     PruneEnds, RemoveClash, Handover
<1>5. CASE Exit
  BY <1>1, <1>5 DEF Exit, rotatorVars
<1>6. CASE GzipStep
  BY <1>1, <1>6, GzipKeepsWriter
<1>7. CASE UNCHANGED rotationVars
  BY <1>1, <1>7 DEF rotationVars
<1> QED
  BY <1>3, <1>4, <1>5, <1>6, <1>7 DEF RotationNext

LEMMA StampedKeptNext ==
    ASSUME FilesInv, [RotationNext]_rotationVars, RotationType = "Timestamp"
    PROVE  Kept'
<1>0. Types /\ StampedFiles /\ StampedJob /\ DoomedExpired /\ Kept /\ GzipStates
  BY DEF FilesInv, StampedInv
<1>n. /\ now \in Nat \ {0} /\ now' \in {now, now + 1} /\ expired \subseteq expired'
      /\ truncated \subseteq truncated'
  BY <1>0, StampedClock, TruncatedGrow DEF Types
<1> SUFFICES ASSUME NEW g \in 1 .. now' PROVE Intact(g)' \/ g \in expired' \cup truncated'
  BY DEF Kept
<1>1. CASE g \notin 1 .. now
  <2>1. g = now + 1 /\ Handover /\ Base \notin DOMAIN dir
    BY <1>n, <1>1, StampedClock
  <2>2. dir' = Reopened(dir)
        \/ dir' = Reopened(Renamed(dir, File("plain", NewTag), Zipping))
    BY <2>1 DEF Handover
  <2>3. Base # Zipping
    BY FileParts DEF Zipping, Base
  <2>4. Base \in DOMAIN dir' /\ dir'[Base] = Whole(g)
    BY <2>1, <2>2, <2>3 DEF Reopened, Created, Renamed
  <2> QED
    BY <2>4 DEF Intact
<1>2. CASE g \in expired \cup truncated
  BY <1>n, <1>2
<1>3. CASE g \in 1 .. now /\ g \notin expired \cup truncated
  <2>1. PICK n \in DOMAIN dir : dir[n] = Whole(g)
    BY <1>0, <1>3 DEF Kept, Intact
  <2>2. dir[n].gen = g /\ dir[n].whole /\ n \in Names
    BY <1>0, <2>1, WholeParts DEF Types
  <2>3. n = Base => g = now
    BY <1>0, <2>2, <1>3, WholeParts DEF StampedFiles
  <2>4. n # Base => n.kind # "base" /\ n.tag = g
    BY <1>0, <2>2, FileParts DEF StampedFiles
  <2>5. CASE dir' = dir
    BY <2>1, <2>5 DEF Intact
  <2>6. CASE RotatorStep /\ n # Base /\ g # now
    <3>1. n.tag < now
      BY <1>n, <1>3, <2>4, <2>6
    <3>2. n \in DOMAIN dir' /\ dir'[n] = dir[n]
      BY <1>3, <2>4, <2>6, <3>1, OlderFilesStay
    <3> QED
      BY <2>1, <3>2 DEF Intact
  <2>7. CASE RotatorStep /\ g = now
    <3>1. n # Base => n.kind = "plain" /\ Base \notin DOMAIN dir
      BY <1>0, <2>4, <2>7 DEF StampedFiles
    <3>2. CASE StampStep
      <4> DEFINE p == File("plain", now)
      <4>1. n = Base
        BY <1>0, <3>1, <3>2 DEF StampStep, StampedFiles
      <4>2. dir' = dir \/ dir' = Renamed(dir, Base, p)
        BY <3>2 DEF StampStep, MayFail
      <4>3. dir' = Renamed(dir, Base, p) => p \in DOMAIN dir' /\ dir'[p] = Whole(g)
        BY <2>1, <4>1 DEF Renamed
      <4> QED
        BY <2>5, <4>2, <4>3 DEF Intact
    <3>3. CASE ScanDirectory \/ PruneEnds
      BY <2>5, <3>3 DEF ScanDirectory, PruneEnds
    <3>4. CASE Prune
      <4>1. PICK m \in doomed : MayFail(Removed(dir, {m}))
        BY <3>4 DEF Prune
      <4>2. n # m
        BY <1>0, <1>3, <2>3, <2>4, <4>1, FileParts DEF DoomedExpired, Base
      <4>3. n \in DOMAIN dir' /\ dir'[n] = Whole(g)
        BY <2>1, <4>1, <4>2, RemovalFiles
      <4> QED
        BY <4>3 DEF Intact
    <3>5. CASE RemoveClash
      <4>1. n # Zipping
        BY <3>1, FileParts DEF Zipping, Base
      <4>2. n \in DOMAIN dir' /\ dir'[n] = Whole(g)
        BY <2>1, <3>5, <4>1, RemovalFiles DEF RemoveClash
      <4> QED
        BY <4>2 DEF Intact
    <3>6. CASE Handover
      <4> DEFINE plain == File("plain", NewTag)
      <4>1. n = plain
        <5>1. n # Base
          BY <1>0, <3>6 DEF Handover, StampedFiles
        <5> QED
          BY <2>2, <2>4, <2>7, <3>1, <5>1, FileParts DEF NewTag
      <4>2. dir' = Reopened(dir) \/ dir' = Reopened(Renamed(dir, plain, Zipping))
        BY <3>6 DEF Handover
      <4> HIDE DEF plain
      <4>3. CASE dir' = Reopened(dir)
        BY <2>1, <4>3, ReopenedFiles DEF Intact
      <4>4. CASE dir' = Reopened(Renamed(dir, plain, Zipping))
        <5> DEFINE e == Renamed(dir, plain, Zipping)
        <5>1. Zipping \in DOMAIN e /\ e[Zipping] = Whole(g)
          BY <2>1, <4>1 DEF Renamed
        <5>2. Zipping \in DOMAIN Reopened(e) /\ Reopened(e)[Zipping] = e[Zipping]
          BY <5>1, ReopenedFiles
        <5>3. Zipping \in DOMAIN dir' /\ dir'[Zipping] = Whole(g)
          BY <4>4, <5>1, <5>2
        <5> QED
          BY <5>3 DEF Intact
      <4> QED
        BY <4>2, <4>3, <4>4
    <3> QED
      BY <2>7, <3>2, <3>3, <3>4, <3>5, <3>6, NoNumberStep DEF RotatorStep
  <2>8. CASE GzipStep
    <3>1. CASE TakeJob \/ OpenSource
      BY <2>5, <3>1 DEF TakeJob, OpenSource
    <3>2. CASE CreateTarget
      <4>0. gzip = "create" /\ gzip \in Busy
        BY <3>2 DEF CreateTarget, Busy, Opened
      <4>1. /\ job.dst.tag = job.src.tag /\ job.dst.kind = "gz"
            /\ job.src.kind = "zipping"
        BY <1>0, <4>0, FileParts DEF GzipStates
      <4>2. CASE n = job.dst
        <5>1. job.src.tag = g
          BY <2>4, <4>1, <4>2, FileParts DEF Base
        <5>2. job.src \in DOMAIN dir
          BY <1>0, <1>3, <4>0, <5>1 DEF StampedJob
        <5>3. dir[job.src] = Whole(g)
          BY <1>0, <4>1, <5>1, <5>2, WholeParts DEF StampedFiles, Types
        <5>4. job.src \in DOMAIN dir' /\ dir'[job.src] = Whole(g)
          BY <3>2, <4>1, <5>2, <5>3 DEF CreateTarget, Created
        <5> QED
          BY <5>4 DEF Intact
      <4>3. CASE n # job.dst
        <5>1. n \in DOMAIN dir' /\ dir'[n] = Whole(g)
          BY <2>1, <3>2, <4>3 DEF CreateTarget, Created
        <5> QED
          BY <5>1 DEF Intact
      <4> QED
        BY <4>2, <4>3
    <3>3. CASE Compress
      <4>1. n \in DOMAIN dir' /\ dir'[n] = Whole(g)
        BY <1>0, <2>1, <2>2, <3>3, CompressedFiles
      <4> QED
        BY <4>1 DEF Intact
    <3>4. CASE RemoveSource
      <4>0. gzip = "remove" /\ gzip \in Busy
        BY <3>4 DEF RemoveSource, Busy, Opened
      <4>1. /\ job.dst.kind = "gz" /\ job.src.kind = "zipping"
        BY <1>0, <4>0, FileParts DEF GzipStates
      <4>2. CASE n = job.src
        <5>1. job.src.tag = g
          BY <2>4, <4>1, <4>2, FileParts DEF Base
        <5>2. job.dst \in DOMAIN dir /\ dir[job.dst] = Whole(g)
          BY <1>0, <1>3, <4>0, <5>1 DEF StampedJob
        <5>3. job.dst \in DOMAIN dir' /\ dir'[job.dst] = Whole(g)
          BY <3>4, <4>1, <5>2, RemovalFiles DEF RemoveSource
        <5> QED
          BY <5>3 DEF Intact
      <4>3. CASE n # job.src
        <5>1. n \in DOMAIN dir' /\ dir'[n] = Whole(g)
          BY <2>1, <3>4, <4>3, RemovalFiles DEF RemoveSource
        <5> QED
          BY <5>1 DEF Intact
      <4> QED
        BY <4>2, <4>3
    <3> QED
      BY <2>8, <3>1, <3>2, <3>3, <3>4 DEF GzipStep
  <2>9. StartRotation \/ Exit \/ UNCHANGED rotationVars => dir' = dir
    BY DEF StartRotation, Exit, rotationVars
  <2> QED
    BY <2>3, <2>5, <2>6, <2>7, <2>8, <2>9 DEF RotationNext
<1> QED
  BY <1>1, <1>2, <1>3

(* A timestamp that MaxFilesToKeep newer ones follow is at least as many    *)
(* generations old.                                                         *)
LEMMA TooOldIsLimited ==
    ASSUME FilesInv, RotationType = "Timestamp", Base \notin DOMAIN dir, NEW t \in Tags,
           TooOld(t)
    PROVE  t \in Nat /\ Limited(t)
<1>0. Types /\ StampedFiles
  BY DEF FilesInv, StampedInv
<1>1. now \in Nat \ {0}
  BY <1>0 DEF Types
<1>2. \A u \in Tags : u \in Nat \ {0} /\ u <= now
  <2> SUFFICES ASSUME NEW n \in Rotated PROVE n.tag \in Nat \ {0} /\ n.tag <= now
    BY DEF Tags
  <2> QED
    BY <1>0, FileParts DEF Rotated, Types, StampedFiles
<1>3. CASE MaxFileAge > 0 /\ t + MaxFileAge < now
  BY <1>2, <1>3 DEF Limited
<1>4. CASE Cardinality(Newer(t)) >= MaxFilesToKeep
  <2>1. t \in Nat /\ t <= now
    BY <1>2
  <2>2. Newer(t) \subseteq (t + 1) .. now
    <3> SUFFICES ASSUME NEW u \in Newer(t) PROVE u \in (t + 1) .. now
      OBVIOUS
    <3>1. u \in Tags /\ u > t
      BY DEF Newer
    <3>2. u \in Nat /\ u <= now
      BY <1>2, <3>1
    <3> QED
      BY <1>1, <2>1, <3>1, <3>2
  <2>3. IsFiniteSet((t + 1) .. now) /\ Cardinality((t + 1) .. now) = now - t
    <3>1. t + 1 \in Int /\ now \in Int
      BY <1>1, <2>1
    <3>2. /\ IsFiniteSet((t + 1) .. now)
          /\ Cardinality((t + 1) .. now) = IF t + 1 > now THEN 0 ELSE now - (t + 1) + 1
      BY <3>1, FS_Interval
    <3> QED
      BY <1>1, <2>1, <3>2
  <2>4. Cardinality(Newer(t)) <= Cardinality((t + 1) .. now) /\ IsFiniteSet(Newer(t))
    BY <2>2, <2>3, FS_Subset
  <2>5. Cardinality(Newer(t)) \in Nat
    BY <2>4, FS_CardinalityType
  <2> QED
    BY <1>1, <1>4, <2>1, <2>3, <2>4, <2>5, LogRotationAssumption
       DEF Limited, LogRotationAssumption
<1> QED
  BY <1>3, <1>4 DEF TooOld

LEMMA LimitedGrows ==
    ASSUME now \in Nat, now' \in {now, now + 1}, NEW g \in Nat, Limited(g)
    PROVE  Limited(g)'
BY LogRotationAssumption DEF Limited, LogRotationAssumption

LEMMA StampedLimitsNext ==
    ASSUME FilesInv, [RotationNext]_rotationVars, RotationType = "Timestamp"
    PROVE  (\A g \in expired : g \in Nat /\ Limited(g))'
<1>0. now \in Nat /\ \A g \in expired : g \in Nat /\ Limited(g)
  BY DEF FilesInv, StampedInv, Types
<1> SUFFICES ASSUME NEW g \in expired' PROVE g \in Nat /\ Limited(g)'
  OBVIOUS
<1>1. CASE g \in expired
  BY <1>0, <1>1, StampedClock, LimitedGrows
<1>2. CASE g \notin expired
  <2>1. ScanDirectory /\ Base \notin DOMAIN dir
    BY <1>2, StampedClock
  <2>2. g \in Tags /\ TooOld(g)
    BY <1>2, <2>1 DEF ScanDirectory
  <2> QED
    BY <1>0, <2>1, <2>2, TooOldIsLimited, StampedClock, LimitedGrows
<1> QED
  BY <1>1, <1>2

LEMMA SetupStays == [RotationNext]_rotationVars => setup' = setup
<1>1. StartRotation \/ Exit \/ UNCHANGED rotationVars => setup' = setup
  BY DEF StartRotation, Exit, rotatorVars, rotationVars
<1> QED
  BY <1>1, WriterKeepsGzip, GzipKeepsWriter DEF RotationNext

LEMMA StampedInvNext == FilesInv /\ [RotationNext]_rotationVars => StampedInv'
<1> SUFFICES ASSUME FilesInv, [RotationNext]_rotationVars, RotationType = "Timestamp"
             PROVE  (/\ StampedFiles
                     /\ StampedJob
                     /\ DoomedExpired
                     /\ Kept
                     /\ \A g \in expired : g \in Nat /\ Limited(g))'
  BY SetupStays DEF StampedInv, RotationType
<1> QED
  BY StampedFilesNext, StampedJobNext, DoomedExpiredNext, StampedKeptNext,
     StampedLimitsNext

-----------------------------------------------------------------------------
(* The numbered engine *)

LEMMA NumberedSteps ==
    ASSUME FilesInv, RotationType = "Numbered"
    PROVE  ~StampStep /\ ~ScanDirectory /\ ~Prune /\ ~PruneEnds
BY DEF FilesInv, WriterStates, StampStep, ScanDirectory, Prune, PruneEnds

(* A turn of the loop cannot fail when there is no fault. *)
LEMMA NumberStepWorks ==
    ASSUME Types, NumberStep, faults = 0, faults' = 0
    PROVE  \/ dir' = dir /\ Src(index) \notin DOMAIN dir
           \/ /\ Src(index) \in DOMAIN dir
              /\ index = MaxFilesToKeep
              /\ dir' = Removed(dir, {Src(index)})
           \/ /\ Src(index) \in DOMAIN dir
              /\ index # MaxFilesToKeep
              /\ dir' = Renamed(dir, Src(index), Dst(index))
BY DEF NumberStep, IsLastFile, MayFail

LEMMA NumberedClock ==
    ASSUME FilesInv, [RotationNext]_rotationVars, RotationType = "Numbered"
    PROVE  /\ now' \in {now, now + 1}
           /\ now' # now => Handover
           /\ expired' # expired => NumberStep
<1>1. CASE StartRotation
  BY <1>1 DEF StartRotation
<1>2. CASE RotatorStep
  BY <1>2, NumberedSteps DEF RotatorStep, NumberStep, RemoveClash, Handover
<1>3. CASE Exit
  BY <1>3 DEF Exit, rotatorVars
<1>4. CASE GzipStep
  BY <1>4, GzipKeepsWriter
<1>5. CASE UNCHANGED rotationVars
  BY <1>5 DEF rotationVars
<1> QED
  BY <1>1, <1>2, <1>3, <1>4, <1>5 DEF RotationNext

(* The bound on the generation of a file, given how far the rotation is.    *)
LEMMA NumberBound ==
    ASSUME Types, NumberedFiles, NEW n \in DOMAIN dir, n.kind # "base"
    PROVE  /\ dir[n].gen \in Nat /\ n.tag \in Nat /\ now \in Nat
           /\ dir[n].gen + n.tag <= now + 1
           /\ ~Moved(n) => dir[n].gen + n.tag <= now
<1>1. dir[n].gen \in Nat /\ n.tag \in Nat /\ now \in Nat
  BY FileParts, WholeParts DEF Types
<1>2. dir[n].gen + n.tag <= (IF Moved(n) THEN now + 1 ELSE now)
  BY DEF NumberedFiles
<1> QED
  BY <1>1, <1>2

LEMMA NumberedFilesNext ==
    ASSUME FilesInv, [RotationNext]_rotationVars, RotationType = "Numbered", faults = 0, faults' = 0
    PROVE  NumberedFiles'
<1>0. Types /\ NumberedFiles /\ GzipStates /\ index \in Nat
  BY LogRotationAssumption DEF FilesInv, NumberedInv, Types, LogRotationAssumption
<1>n. now \in Nat \ {0} /\ DOMAIN dir \subseteq Names
  BY <1>0 DEF Types
<1>b. Base.kind = "base" /\ Base.tag = 0
  BY FileParts DEF Base
<1>w. /\ Base \in DOMAIN dir => dir[Base].gen <= now
      /\ rotator \in {"clash", "handover"} => Base \notin DOMAIN dir
      /\ gzip \in Opened => job.gen + job.src.tag <= now
  BY <1>0 DEF NumberedFiles
<1>f. \A n \in DOMAIN dir : n.kind # "base" =>
          /\ dir[n].gen \in Nat /\ n.tag \in Nat
          /\ dir[n].gen + n.tag <= now + 1
          /\ ~Moved(n) => dir[n].gen + n.tag <= now
  BY <1>0, NumberBound
<1> USE <1>n DEF NumberedFiles
<1>1. CASE StartRotation
  <2>1. \A n \in DOMAIN dir : ~Moved(n)
    BY <1>1 DEF StartRotation, Moved
  <2>2. rotator' = "number" /\ UNCHANGED <<dir, now, gzip, job>>
    BY <1>1 DEF StartRotation, gzipVars, RotationType
  <2> QED
    BY <1>f, <1>w, <2>1, <2>2
<1>2. CASE NumberStep
  <2>1. rotator = "number" /\ now' = now /\ UNCHANGED <<gzip, job>>
    BY <1>2 DEF NumberStep, gzipVars
  <2>2. \/ index = 0 /\ rotator' = "clash"
        \/ index # 0 /\ rotator' = "number" /\ index' = index - 1
    BY <1>2 DEF NumberStep, IsLastTurn
  <2>3. index' \in Nat
    BY <1>0, <1>2, <2>2 DEF NumberStep, IsLastTurn
  <2>4. \A n : Moved(n) => Moved(n)' \/ n.tag \notin Nat
    BY <1>0, <2>1, <2>2, <2>3 DEF Moved
  <2>5. ASSUME NEW n \in DOMAIN dir, n.kind # "base"
        PROVE  dir[n].gen + n.tag <= (IF Moved(n)' THEN now + 1 ELSE now)
    BY <1>f, <2>4, <2>5
  <2>6. CASE dir' = dir /\ Src(index) \notin DOMAIN dir
    <3>1. index = 0 => Base \notin DOMAIN dir
      BY <2>6 DEF Src
    <3> QED
      BY <1>w, <2>1, <2>2, <2>5, <2>6, <3>1
  <2>7. CASE dir' = Removed(dir, {Src(index)})
    <3>1. /\ DOMAIN dir' = DOMAIN dir \ {Src(index)}
          /\ \A n \in DOMAIN dir' : dir'[n] = dir[n]
      BY <2>7 DEF Removed
    <3>2. index = 0 => Base \notin DOMAIN dir'
      BY <3>1 DEF Src
    <3> QED
      BY <1>w, <2>1, <2>2, <2>5, <3>1, <3>2
  <2>8. CASE /\ Src(index) \in DOMAIN dir
             /\ dir' = Renamed(dir, Src(index), Dst(index))
    <3> DEFINE s == Src(index)
               t == Dst(index)
    <3>1. /\ t.kind \in {"plain", "gz"}
          /\ t.tag = index + 1
      BY <1>0, FileParts DEF Dst
    <3>2. /\ index = 0 => s = Base
          /\ index # 0 => s.kind \in {"plain", "gz"} /\ s.tag = index
      BY FileParts DEF Src
    <3>3. /\ DOMAIN dir' = (DOMAIN dir \ {s}) \cup {t}
          /\ dir'[t] = dir[s]
          /\ \A n \in DOMAIN dir : n # s /\ n # t => dir'[n] = dir[n]
      BY <2>8 DEF Renamed
    <3> HIDE DEF s, t
    <3>4. dir[s].gen + index <= now /\ dir[s].gen \in Nat
      <4>1. CASE index = 0
        BY <1>0, <1>w, <2>8, <3>2, <4>1, WholeParts DEF Types, s
      <4>2. CASE index # 0
        <5>1. ~Moved(s) /\ s.kind # "base" /\ s \in DOMAIN dir
          BY <1>0, <2>1, <2>8, <3>2, <4>2 DEF Moved, s
        <5> QED
          BY <1>f, <3>2, <4>2, <5>1
      <4> QED
        BY <4>1, <4>2
    <3>5. \A n : n = t => Moved(n)'
      BY <1>0, <2>2, <3>1 DEF Moved
    <3>6. dir'[t].gen + t.tag <= now + 1
      BY <1>0, <3>1, <3>3, <3>4
    <3>7. t # Base
      BY <1>b, <3>1
    <3>8. ASSUME NEW n \in DOMAIN dir', n.kind # "base"
          PROVE  dir'[n].gen + n.tag <= (IF Moved(n)' THEN now + 1 ELSE now)
      <4>1. CASE n = t
        BY <3>5, <3>6, <4>1
      <4>2. CASE n # t
        BY <2>5, <3>3, <3>8, <4>2
      <4> QED
        BY <4>1, <4>2
    <3>9. Base \in DOMAIN dir' => Base \in DOMAIN dir /\ dir'[Base] = dir[Base]
      BY <3>3, <3>7
    <3>10. index = 0 => Base \notin DOMAIN dir'
      BY <3>2, <3>3, <3>7
    <3> QED
      BY <1>w, <2>1, <2>2, <3>8, <3>9, <3>10
  <2> QED
    BY <1>0, <1>2, <2>6, <2>7, <2>8, NumberStepWorks
<1>3. CASE RemoveClash
  <2>1. /\ DOMAIN dir' \subseteq DOMAIN dir
        /\ \A n \in DOMAIN dir' : dir'[n] = dir[n]
    BY <1>3, RemovalFiles DEF RemoveClash
  <2>2. \A n : Moved(n) => Moved(n)'
    BY <1>3 DEF RemoveClash, Moved
  <2>3. UNCHANGED <<now, gzip, job>> /\ rotator = "clash"
    BY <1>3 DEF RemoveClash, gzipVars
  <2> QED
    BY <1>f, <1>w, <2>1, <2>2, <2>3
<1>4. CASE Handover
  <2> DEFINE plain == File("plain", NewTag)
  <2>0. NewTag = 1
    BY DEF NewTag
  <2>1. Zipping.tag = 1 /\ Zipping.kind = "zipping" /\ plain.tag = 1
        /\ plain.kind = "plain"
    BY <2>0, FileParts DEF Zipping
  <2>2. Base \notin DOMAIN dir /\ now' = now + 1 /\ rotator' = "idle"
    BY <1>w, <1>4 DEF Handover
  <2>3. \/ dir' = Reopened(dir)
        \/ plain \in DOMAIN dir /\ dir' = Reopened(Renamed(dir, plain, Zipping))
    BY <1>4 DEF Handover
  <2>4. UNCHANGED <<gzip, job>>
    BY <1>4 DEF Handover, gzipVars
  <2> HIDE DEF plain
  <2>5. Base # Zipping
    BY <1>b, <2>1
  <2>6. gzip \in Opened => job.gen + job.src.tag <= now + 1
    BY <1>0, <1>w DEF GzipStates, Opened, Busy
  <2>7. dir'[Base].gen <= now + 1
    <3>1. dir'[Base] = Whole(now + 1)
      BY <2>2, <2>3, <2>5 DEF Reopened, Created, Renamed
    <3> QED
      BY <3>1, WholeParts
  <2>8. ASSUME NEW n \in DOMAIN dir', n.kind # "base"
        PROVE  dir'[n].gen + n.tag <= now + 1
    <3>1. CASE dir' = Reopened(dir)
      <4>1. n \in DOMAIN dir /\ dir'[n] = dir[n]
        BY <1>b, <2>8, <3>1, ReopenedFiles
      <4> QED
        BY <1>f, <2>8, <4>1
    <3>2. CASE plain \in DOMAIN dir /\ dir' = Reopened(Renamed(dir, plain, Zipping))
      <4>1. /\ DOMAIN dir' = (DOMAIN dir \ {plain}) \cup {Zipping, Base}
            /\ dir'[Zipping] = dir[plain]
            /\ \A m \in DOMAIN dir : m # plain /\ m # Zipping => dir'[m] = dir[m]
        BY <2>2, <2>5, <3>2 DEF Reopened, Created, Renamed
      <4>2. CASE n = Zipping
        BY <1>f, <2>1, <3>2, <4>1, <4>2
      <4>3. CASE n # Zipping
        <5>1. n \in DOMAIN dir /\ dir'[n] = dir[n]
          BY <1>b, <2>8, <4>1, <4>3
        <5> QED
          BY <1>f, <2>8, <5>1
      <4> QED
        BY <4>2, <4>3
    <3> QED
      BY <2>3, <3>1, <3>2
  <2>9. \A n : ~Moved(n)'
    BY <2>2 DEF Moved
  <2> QED
    BY <2>2, <2>4, <2>6, <2>7, <2>8, <2>9
<1>5. CASE Exit
  BY <1>0, <1>5 DEF Exit, rotatorVars, gzipVars, Moved
<1>6. CASE GzipStep
  <2>0. UNCHANGED <<now, rotator, index>> /\ \A n : Moved(n)' = Moved(n)
    BY <1>6, GzipKeepsWriter DEF Moved
  <2>f. \A n \in DOMAIN dir : n.kind # "base" =>
            dir[n].gen + n.tag <= (IF Moved(n)' THEN now + 1 ELSE now)
    BY <1>f, <2>0
  <2>1. CASE TakeJob
    BY <1>w, <2>0, <2>f, <2>1 DEF TakeJob, Opened
  <2>2. CASE OpenSource
    <3>1. job'.src = job.src /\ dir' = dir /\ gzip' \in {"create", "waiting"}
      BY <1>0, <2>2 DEF OpenSource, Types
    <3>2. gzip' = "create" => job.src \in DOMAIN dir /\ job'.gen = dir[job.src].gen
      BY <1>0, <2>2 DEF OpenSource, Types
    <3>3. job.src.kind = "zipping"
      BY <1>0, <2>2, FileParts DEF OpenSource, GzipStates, Busy
    <3>4. gzip' = "create" => job'.gen + job'.src.tag <= now
      BY <1>f, <3>1, <3>2, <3>3 DEF Moved
    <3> QED
      BY <1>w, <2>0, <2>f, <3>1, <3>4 DEF Opened
  <2>3. CASE CreateTarget
    <3>0. /\ gzip = "create" /\ gzip \in Busy /\ gzip \in Opened /\ job' = job
          /\ faults' = faults
      BY <2>3 DEF CreateTarget, Busy, Opened
    <3>1. /\ job.dst.kind = "gz" /\ job.dst.tag = job.src.tag
          /\ job.gen \in Nat /\ job.src.tag \in Nat
      BY <1>0, <3>0, FileParts DEF GzipStates
    <3>2. /\ DOMAIN dir' = DOMAIN dir \cup {job.dst}
          /\ dir'[job.dst].gen = job.gen
          /\ \A n \in DOMAIN dir : n # job.dst => dir'[n] = dir[n]
      BY <2>3, <3>0, WholeParts, <1>0 DEF CreateTarget, Created, Types
    <3>3. job.dst # Base
      BY <1>b, <3>1
    <3>4. ASSUME NEW n \in DOMAIN dir', n.kind # "base"
          PROVE  dir'[n].gen + n.tag <= (IF Moved(n)' THEN now + 1 ELSE now)
      <4>1. CASE n = job.dst
        BY <1>w, <3>0, <3>1, <3>2, <4>1
      <4>2. CASE n # job.dst
        BY <2>f, <3>2, <3>4, <4>2
      <4> QED
        BY <4>1, <4>2
    <3> QED
      BY <1>w, <2>0, <3>0, <3>2, <3>3, <3>4
  <2>4. CASE Compress
    <3>1. gzip \in Opened /\ job' = job
      BY <2>4 DEF Compress, Opened
    <3>2. /\ DOMAIN dir' = DOMAIN dir
          /\ \A n \in DOMAIN dir : dir'[n].gen = dir[n].gen
      BY <1>0, <2>4, CompressedFiles
    <3> QED
      BY <1>w, <2>0, <2>f, <3>1, <3>2
  <2>5. CASE RemoveSource
    <3>1. gzip \in Opened /\ job' = job
      BY <2>5 DEF RemoveSource, Opened
    <3>2. /\ DOMAIN dir' \subseteq DOMAIN dir
          /\ \A n \in DOMAIN dir' : dir'[n] = dir[n]
      BY <2>5, RemovalFiles DEF RemoveSource
    <3> QED
      BY <1>w, <2>0, <2>f, <3>1, <3>2
  <2> QED
    BY <1>6, <2>1, <2>2, <2>3, <2>4, <2>5 DEF GzipStep
<1>7. CASE UNCHANGED rotationVars
  BY <1>0, <1>7 DEF rotationVars, Moved
<1> QED
  BY <1>1, <1>2, <1>3, <1>4, <1>5, <1>6, <1>7, NumberedSteps DEF RotationNext, RotatorStep

LEMMA NumberedLimitsNext ==
    ASSUME FilesInv, [RotationNext]_rotationVars, RotationType = "Numbered", faults = 0
    PROVE  (\A g \in expired : g \in Nat /\ Limited(g))'
<1>0. /\ Types /\ NumberedFiles /\ WriterStates
      /\ \A g \in expired : g \in Nat /\ Limited(g)
  BY DEF FilesInv, NumberedInv
<1>n. now \in Nat /\ MaxFilesToKeep \in Nat
  BY <1>0, LogRotationAssumption DEF Types, LogRotationAssumption
<1>c. now' \in {now, now + 1} /\ (expired' # expired => NumberStep)
  BY NumberedClock
<1> SUFFICES ASSUME NEW g \in expired' PROVE g \in Nat /\ Limited(g)'
  OBVIOUS
<1>1. CASE g \in expired
  BY <1>0, <1>n, <1>c, <1>1, LimitedGrows
<1>2. CASE g \notin expired
  <2>1. NumberStep
    BY <1>c, <1>2
  <2>2. /\ Src(index) \in DOMAIN dir
        /\ index = MaxFilesToKeep
        /\ g = dir[Src(index)].gen
    BY <1>2, <2>1 DEF NumberStep, IsLastFile
  <2>3. CASE index = 0
    <3>1. Src(index) = Base
      BY <2>3 DEF Src
    <3>2. g \in Nat /\ g <= now
      BY <1>0, <2>2, <3>1, WholeParts DEF Types, NumberedFiles
    <3>3. Limited(g)
      BY <1>n, <2>2, <2>3, <3>2 DEF Limited
    <3> QED
      BY <1>n, <1>c, <3>2, <3>3, LimitedGrows
  <2>4. CASE index # 0
    <3>1. Src(index).kind # "base" /\ Src(index).tag = MaxFilesToKeep
      BY <2>2, <2>4, FileParts DEF Src
    <3>2. ~Moved(Src(index))
      BY <1>n, <2>1, <2>2, <3>1 DEF NumberStep, Moved
    <3>3. g \in Nat /\ g + MaxFilesToKeep <= now
      BY <1>0, <2>2, <3>1, <3>2, NumberBound
    <3>4. Limited(g)
      BY <3>3 DEF Limited
    <3> QED
      BY <1>n, <1>c, <3>3, <3>4, LimitedGrows
  <2> QED
    BY <2>3, <2>4
<1> QED
  BY <1>1, <1>2

(* Without compression only the writer touches the directory. *)
LEMMA UncompressedGzip ==
    ASSUME FilesInv, ~Compressed, GzipStep
    PROVE  dir' = dir
BY DEF FilesInv, GzipStates, GzipStep, TakeJob, OpenSource, CreateTarget, Compress,
       RemoveSource

LEMMA NumberIsFreeNext ==
    ASSUME FilesInv, [RotationNext]_rotationVars, RotationType = "Numbered", ~Compressed, faults = 0,
           faults' = 0
    PROVE  NumberIsFree'
<1>0. Types /\ NumberIsFree
  BY DEF FilesInv, NumberedInv
<1>1. CASE StartRotation
  BY <1>1, LogRotationAssumption DEF StartRotation, NumberIsFree, LogRotationAssumption
<1>2. CASE NumberStep
  <2>1. SUFFICES ASSUME rotator' = "number", index' < MaxFilesToKeep
                 PROVE  File("plain", index' + 1) \notin DOMAIN dir'
    BY DEF NumberIsFree
  <2>2. index \in Nat \ {0} /\ index' = index - 1 /\ MaxFilesToKeep \in Nat
    BY <1>0, <1>2, <2>1, LogRotationAssumption
       DEF NumberStep, IsLastTurn, Types, LogRotationAssumption
  <2>3. Src(index) = File("plain", index) /\ Dst(index) = File("plain", index + 1)
    BY <2>2 DEF Src, Dst
  <2>4. Src(index) # Dst(index)
    <3>1. Src(index).tag = index /\ Dst(index).tag = index + 1
      BY <2>3, FileParts
    <3> QED
      BY <2>2, <3>1
  <2>5. Src(index) \notin DOMAIN dir'
    BY <1>0, <1>2, <2>4, NumberStepWorks DEF Removed, Renamed
  <2>6. index' + 1 = index
    BY <2>2
  <2> QED
    BY <2>3, <2>5, <2>6
<1>3. CASE RemoveClash \/ Handover
  BY <1>3 DEF RemoveClash, Handover, NumberIsFree
<1>4. CASE Exit
  BY <1>0, <1>4 DEF Exit, rotatorVars, NumberIsFree
<1>5. CASE GzipStep
  BY <1>0, <1>5, GzipKeepsWriter, UncompressedGzip DEF NumberIsFree
<1>6. CASE UNCHANGED rotationVars
  BY <1>0, <1>6 DEF rotationVars, NumberIsFree
<1> QED
  BY <1>1, <1>2, <1>3, <1>4, <1>5, <1>6, NumberedSteps DEF RotationNext, RotatorStep

LEMMA NumberedKeptNext ==
    ASSUME FilesInv, [RotationNext]_rotationVars, RotationType = "Numbered", ~Compressed, faults = 0,
           faults' = 0
    PROVE  Kept'
<1>0. Types /\ NumberIsFree /\ Kept
  BY DEF FilesInv, NumberedInv
<1>n. now \in Nat \ {0} /\ now' \in {now, now + 1}
  BY <1>0, NumberedClock DEF Types
<1>t. truncated \subseteq truncated'
  BY TruncatedGrow
<1> SUFFICES ASSUME NEW g \in 1 .. now' PROVE Intact(g)' \/ g \in expired' \cup truncated'
  BY DEF Kept
<1>1. CASE Handover
  <2>1. dir' = Reopened(dir) /\ expired' = expired
    BY <1>1 DEF Handover
  <2>2. CASE Base \notin DOMAIN dir /\ g = now + 1
    <3>1. Base \in DOMAIN dir' /\ dir'[Base] = Whole(g)
      BY <2>1, <2>2, ReopenedFiles
    <3> QED
      BY <3>1 DEF Intact
  <2>3. CASE g \in 1 .. now
    <3>1. Intact(g) \/ g \in expired \cup truncated
      BY <1>0, <2>3 DEF Kept
    <3>2. Intact(g) => Intact(g)'
      BY <2>1, ReopenedFiles DEF Intact
    <3> QED
      BY <1>t, <2>1, <3>1, <3>2
  <2>4. now' # now => Base \notin DOMAIN dir
    BY <1>1 DEF Handover
  <2> QED
    BY <1>n, <2>2, <2>3, <2>4
<1>2. CASE ~Handover
  <2>0. g \in 1 .. now
    BY <1>n, <1>2, NumberedClock
  <2>1. CASE g \in expired \cup truncated
    BY <1>t, <2>1, NumberedClock DEF NumberStep
  <2>2. CASE g \notin expired \cup truncated
    <3>1. PICK n \in DOMAIN dir : dir[n] = Whole(g)
      BY <1>0, <2>0, <2>2 DEF Kept, Intact
    <3>2. CASE dir' = dir
      BY <3>1, <3>2 DEF Intact
    <3>3. CASE NumberStep
      <4>1. CASE /\ Src(index) \in DOMAIN dir
                 /\ index = MaxFilesToKeep
                 /\ dir' = Removed(dir, {Src(index)})
        <5>1. CASE n = Src(index)
          <6>1. expired' = expired \cup {dir[Src(index)].gen}
            BY <3>3, <4>1 DEF NumberStep, IsLastFile
          <6> QED
            BY <3>1, <5>1, <6>1, WholeParts
        <5>2. CASE n # Src(index)
          <6>1. n \in DOMAIN dir' /\ dir'[n] = Whole(g)
            BY <3>1, <4>1, <5>2 DEF Removed
          <6> QED
            BY <6>1 DEF Intact
        <5> QED
          BY <5>1, <5>2
      <4>2. CASE /\ Src(index) \in DOMAIN dir
                 /\ index # MaxFilesToKeep
                 /\ dir' = Renamed(dir, Src(index), Dst(index))
        <5>0. index \in Nat /\ MaxFilesToKeep \in Nat /\ index < MaxFilesToKeep
          BY <1>0, <4>2, LogRotationAssumption DEF Types, LogRotationAssumption
        <5>1. Dst(index) = File("plain", index + 1)
          BY <5>0 DEF Dst
        <5>2. Dst(index) \notin DOMAIN dir
          BY <1>0, <3>3, <5>0, <5>1 DEF NumberIsFree, NumberStep
        <5>3. /\ DOMAIN dir' = (DOMAIN dir \ {Src(index)}) \cup {Dst(index)}
              /\ dir'[Dst(index)] = dir[Src(index)]
              /\ \A m \in DOMAIN dir : m # Src(index) /\ m # Dst(index) =>
                    dir'[m] = dir[m]
          BY <4>2 DEF Renamed
        <5>4. CASE n = Src(index)
          BY <3>1, <5>3, <5>4 DEF Intact
        <5>5. CASE n # Src(index)
          <6>1. n \in DOMAIN dir' /\ dir'[n] = Whole(g)
            BY <3>1, <5>2, <5>3, <5>5
          <6> QED
            BY <6>1 DEF Intact
        <5> QED
          BY <5>4, <5>5
      <4> QED
        BY <1>0, <3>2, <3>3, <4>1, <4>2, NumberStepWorks
    <3>4. StartRotation \/ Exit \/ UNCHANGED rotationVars => dir' = dir
      BY DEF StartRotation, Exit, rotationVars
    <3>5. RemoveClash => dir' = dir
      BY DEF RemoveClash
    <3>6. GzipStep => dir' = dir
      BY UncompressedGzip
    <3> QED
      BY <1>2, <3>2, <3>3, <3>4, <3>5, <3>6, NumberedSteps DEF RotationNext, RotatorStep
  <2> QED
    BY <2>1, <2>2
<1> QED
  BY <1>1, <1>2

LEMMA NumberedInvNext == FilesInv /\ [RotationNext]_rotationVars => NumberedInv'
<1> SUFFICES ASSUME FilesInv, [RotationNext]_rotationVars, RotationType = "Numbered", faults' = 0
             PROVE  (/\ NumberedFiles
                     /\ ~Compressed => NumberIsFree /\ Kept
                     /\ \A g \in expired : g \in Nat /\ Limited(g))'
  BY SetupStays DEF NumberedInv, RotationType
<1>1. faults = 0
  BY FaultsGrow DEF FilesInv, Types
<1>2. ~Compressed' => ~Compressed
  BY SetupStays DEF Compressed
<1> QED
  BY <1>1, <1>2, NumberedFilesNext, NumberedLimitsNext, NumberIsFreeNext,
     NumberedKeptNext

-----------------------------------------------------------------------------
(* The theorems *)

LEMMA FilesInvNext == FilesInv /\ [RotationNext]_rotationVars => FilesInv'
<1> SUFFICES ASSUME FilesInv, [RotationNext]_rotationVars PROVE FilesInv'
  OBVIOUS
<1> QED
  BY TypesNext, WriterStatesNext, GzipStatesNext, ExitOrderNext, ZippingIsQueuedNext,
     StampedInvNext, NumberedInvNext DEF FilesInv

(* The inductive invariant holds throughout: which files there are, what    *)
(* each of them holds and what both threads are about to do with it         *)
(* (RotatingFileManager, NumberedRotationEngine, TimestampRotationEngine,   *)
(* GzipCompressionEngine).                                                  *)
THEOREM FilesInvHolds == RotationSpec => []FilesInv
BY FilesInvInit, FilesInvNext, PTL DEF RotationSpec

(* No generation of the log disappears from disk before the limits say so:  *)
(* with the timestamp engine always, whatever the compression thread does   *)
(* and whatever fails, but for a generation whose own compression failed    *)
(* without gzipFile noticing; with the numbered engine when it does not     *)
(* compress and no rename or removal has failed.                            *)
THEOREM NoGenerationLostHolds == RotationSpec => []NoGenerationLost
<1>1. FilesInv => NoGenerationLost
  BY SetupTypes DEF FilesInv, StampedInv, NumberedInv, Kept, NoGenerationLost
<1> QED
  BY <1>1, FilesInvHolds, PTL

(* What the engines remove is older than MaxFilesToKeep generations or      *)
(* older than MaxFileAge.                                                   *)
THEOREM ExpiredOnlyByLimitsHolds == RotationSpec => []ExpiredOnlyByLimits
<1>1. FilesInv => ExpiredOnlyByLimits
  BY SetupTypes DEF FilesInv, StampedInv, NumberedInv, Limited, ExpiredOnlyByLimits
<1> QED
  BY <1>1, FilesInvHolds, PTL

(* The compression thread exits only when no file waits for compression,    *)
(* unless a fault intervened (GzipCompressionEngine::mainLoop).             *)
THEOREM ExitCompressesAllHolds == RotationSpec => []ExitCompressesAll
<1>1. FilesInv => ExitCompressesAll
  <2> SUFFICES ASSUME FilesInv, gzip = "exited", faults = 0, NEW n \in DOMAIN dir,
                      n.kind = "zipping"
               PROVE  FALSE
    BY DEF ExitCompressesAll
  <2>1. queue = <<>> /\ gzip \notin Busy
    BY DEF FilesInv, ExitOrder, Busy, Opened
  <2>2. \E i \in 1 .. Len(queue) : queue[i] = n.tag
    BY <2>1 DEF FilesInv, ZippingIsQueued
  <2> QED
    BY <2>1, <2>2
<1> QED
  BY <1>1, FilesInvHolds, PTL

=============================================================================
