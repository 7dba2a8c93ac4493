------------------------------ MODULE LogChannel ------------------------------
(***************************************************************************)
(* What the rotating logger promises the threads that log through it: a     *)
(* FIFO channel.  Messages reach the log file in the order in which they    *)
(* were accepted, none twice; a message is only discarded when something    *)
(* has gone wrong before, and then the pending messages that are left are   *)
(* the last ones; once the channel is closed it accepts nothing, and it  *)
(* finishes only when nothing is pending.                                   *)
(***************************************************************************)
EXTENDS Naturals, Sequences

CONSTANTS
    Messages    \* what may be logged

VARIABLES
    accepted,   \* the messages that were handed over while it was open
    pending,    \* accepted, not in the file yet
    delivered,  \* in the file
    faulty,     \* the environment has misbehaved
    open,       \* messages are accepted
    finished    \* the channel has been torn down

vars == <<accepted, pending, delivered, faulty, open, finished>>

Init ==
    /\ accepted = {}
    /\ pending = <<>>
    /\ delivered = <<>>
    /\ faulty = FALSE
    /\ open = TRUE
    /\ finished = FALSE

Accept(m) ==
    /\ open
    /\ m \notin accepted
    /\ accepted' = accepted \cup {m}
    /\ pending' = Append(pending, m)
    /\ UNCHANGED <<delivered, faulty, open, finished>>

(* Some of the pending messages reach the file; those that follow them may  *)
(* be discarded.                                                            *)
Advance ==
    \E n \in 0 .. Len(pending) : \E k \in n .. Len(pending) :
        /\ k > n => faulty
        /\ delivered' = delivered \o SubSeq(pending, 1, n)
        /\ pending' = SubSeq(pending, k + 1, Len(pending))
        /\ UNCHANGED <<accepted, faulty, open, finished>>

(* A message that does not even get into memory, which is a fault. *)
Reject(m) ==
    /\ open
    /\ faulty'
    /\ m \notin accepted
    /\ accepted' = accepted \cup {m}
    /\ UNCHANGED <<pending, delivered, open, finished>>

Fault ==
    /\ faulty' = TRUE
    /\ UNCHANGED <<accepted, pending, delivered, open, finished>>

Close ==
    /\ open
    /\ open' = FALSE
    /\ UNCHANGED <<accepted, pending, delivered, faulty, finished>>

(* Tearing the channel down delivers what is left, or loses it. *)
Finish ==
    /\ ~open
    /\ ~finished
    /\ finished' = TRUE
    /\ \/ delivered' = delivered \o pending
       \/ faulty /\ \E n \in 0 .. Len(pending) :
                         delivered' = delivered \o SubSeq(pending, 1, n)
    /\ pending' = <<>>
    /\ UNCHANGED <<accepted, faulty, open>>

Next ==
    \/ \E m \in Messages : Accept(m) \/ Reject(m)
    \/ Fault
    \/ Advance
    \/ Close
    \/ Finish

Spec == Init /\ [][Next]_vars

=============================================================================
