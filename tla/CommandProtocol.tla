---------------------------- MODULE CommandProtocol ----------------------------
(***************************************************************************)
(* One command, from the client that sent it (executeCommand of the shell   *)
(* and of mega-exec) to the petition thread that executes it, over a local  *)
(* stream socket.  The stream carries codes, sizes, pieces of partial       *)
(* output and questions one after the other; nothing in it says where an    *)
(* item begins, so each side reads what it believes must come next.         *)
(*                                                                          *)
(* A partial output is sent by one send(), but arrives in pieces, and recv  *)
(* returns what has arrived.  A question or reply is small and arrives      *)
(* whole; what matters is whether it fills the reader's buffer exactly,     *)
(* since the reader goes on reading until a buffer is not full.             *)
(*                                                                          *)
(* The commands: cat streams a file, rm asks before it deletes a folder,    *)
(* deleteversions --all asks until it is told yes or no, and passwd asks    *)
(* for a code.  The client may be killed and the server may crash.          *)
(***************************************************************************)
EXTENDS Naturals, Sequences, FiniteSets

CONSTANTS
    Nodes,      \* remote files and folders
    Folders,    \* those that are folders
    Filling,    \* those whose name makes a question that fills the buffer
    Commands,   \* the commands that may be given
    MayDie,     \* whether the client may be killed
    MayCrash    \* whether the server may crash

(* chunks: sizes, in pieces, of the partial outputs of cat.                 *)
(* targets: the nodes that the arguments of rm stand for, in order; pattern *)
(* says whether the argument is a pattern.                                  *)
Command == [name : {"cat", "rm", "deleteversions", "passwd"},
            chunks : Seq(Nat \ {0}),
            targets : Seq([node : Nodes, pattern : BOOLEAN]),
            recursive : BOOLEAN,
            force : BOOLEAN]

ASSUME ProtocolAssumption ==
    /\ Folders \subseteq Nodes
    /\ Filling \subseteq Nodes
    /\ \A c \in Commands : c \in Command
    /\ {MayDie, MayCrash} \subseteq BOOLEAN

VARIABLES
    command,
    down,        \* what the server sent and the client has not read
    up,          \* what the client sent and the server has not read
    (* the client *)
    client,      \* control state
    outcode,     \* outcode
    remaining,   \* partialoutsize
    printed,     \* what it wrote to its output
    asked,       \* the node of the last question it read
    (* the petition thread *)
    petition,    \* control state
    at,          \* the chunk or target it is at
    sent,        \* pieces of the present chunk that it sent
    clientDisconnected,
    force,
    none,
    result,      \* the code of the command
    deleted,
    (* histories *)
    answers,     \* <<node, answer>> for each answer of the user
    inPieces     \* the client read part of a partial output

clientVars == <<client, outcode, remaining, printed, asked>>
serverVars == <<petition, at, sent, clientDisconnected, force, none, result, deleted>>
historyVars == <<answers, inPieces>>
vars == <<command, down, up, clientVars, serverVars, historyVars>>

NoNode == "no node"
(* A piece of what cat streams is told by its chunk and its place in it.    *)
Piece(chunk, place) == <<chunk, place>>
Junk == Piece(0, 0)

Init ==
    /\ command \in Commands
    /\ down = <<>> /\ up = <<>>
    /\ client = "code" /\ outcode = "-1" /\ remaining = 0
    /\ printed = <<>> /\ asked = NoNode
    /\ petition = "command" /\ at = 1 /\ sent = 0
    /\ clientDisconnected = FALSE
    /\ force = command.force /\ none = FALSE
    /\ result = "OK" /\ deleted = {}
    /\ answers = {} /\ inPieces = FALSE

Item(kind, value) == [kind |-> kind, value |-> value]
Questions == {"REQCONFIRM", "REQSTRING"}
Answers == {"YES", "NO", "ALL", "NONE"}

ClientEnds == {"done", "failed", "dead"}
ServerEnds == {"closed", "crashed"}
ClientGone == client \in ClientEnds
ServerGone == petition \in ServerEnds

(* What cat streams, in the order of Before. *)
Contents == UNION {{Piece(c, n) : n \in 1 .. command.chunks[c]} : c \in 1 .. Len(command.chunks)}
Before(p, q) == p[1] < q[1] \/ (p[1] = q[1] /\ p[2] < q[2])

-----------------------------------------------------------------------------
(* The client: executeCommand.  A recv at the end of the stream returns 0.  *)

StreamEnded == ServerGone /\ down = <<>>

(* Mutant of AfterCode: a request for a string is not recognised. *)
MutAfterCode(code) ==
    IF code = "PARTIALOUT" THEN "size"
    ELSE IF code = "REQCONFIRM" THEN "question" ELSE "rest"

(* Where the client goes once it has a code: the condition of the loop.     *)
AfterCode(code) ==
    IF code = "PARTIALOUT" THEN "size"
    ELSE IF code \in Questions THEN "question" ELSE "rest"

(* At the end of the stream the variable keeps the code that was read last. *)
RecvCode ==
    /\ client = "code"
    /\ \/ /\ down # <<>>
          /\ outcode' = Head(down).value
          /\ down' = Tail(down)
       \/ /\ StreamEnded
          /\ UNCHANGED <<outcode, down>>
    /\ client' = AfterCode(outcode')
    /\ UNCHANGED <<command, up, remaining, printed, asked, serverVars, historyVars>>

RecvSize ==
    /\ client = "size"
    /\ \/ /\ down # <<>>
          /\ remaining' = Head(down).value
          /\ client' = "data"
          /\ down' = Tail(down)
       \/ /\ StreamEnded
          /\ client' = "failed"
          /\ UNCHANGED <<down, remaining>>
    /\ UNCHANGED <<command, up, outcode, printed, asked, serverVars, historyVars>>

Arrived == IF Len(down) < remaining THEN Len(down) ELSE remaining

(* Mutant of Printed: only the last piece of a partial output is written.   *)
MutPrinted(n) == IF n < remaining THEN <<>>
                 ELSE [k \in 1 .. n |-> down[k].value]

(* It writes the whole buffer, also when only part of it was filled: the    *)
(* rest is what the new buffer happened to hold.                            *)
Printed(n) == [k \in 1 .. remaining |-> IF k <= n THEN down[k].value ELSE Junk]

RecvData ==
    /\ client = "data"
    /\ \/ /\ Arrived > 0
          /\ printed' = printed \o Printed(Arrived)
          /\ inPieces' = (inPieces \/ Arrived < remaining)
          /\ remaining' = remaining - Arrived
          /\ down' = SubSeq(down, Arrived + 1, Len(down))
          /\ client' = IF Arrived = remaining THEN "code" ELSE "data"
       \/ /\ StreamEnded
          /\ client' = "code"
          /\ UNCHANGED <<printed, inPieces, remaining, down>>
    /\ UNCHANGED <<command, up, outcode, asked, serverVars, answers>>

(* A question that fills the buffer makes it wait for more.                 *)
RecvQuestion ==
    /\ client = "question"
    /\ \/ /\ down # <<>>
          /\ asked' = Head(down).value
          /\ client' = IF asked' \in Filling THEN "question" ELSE "answer"
          /\ down' = Tail(down)
       \/ /\ StreamEnded
          /\ client' = "answer"
          /\ UNCHANGED <<asked, down>>
    /\ UNCHANGED <<command, up, outcode, remaining, printed, serverVars, historyVars>>

Replies == IF outcode = "REQCONFIRM" THEN Answers ELSE {"text", "text that fills"}

(* The user answers (readconfirmationloop accepts nothing else); the send   *)
(* fails when the server is gone.                                           *)
Answer(reply) ==
    /\ client = "answer"
    /\ reply \in Replies
    /\ IF ServerGone
       THEN client' = "failed" /\ UNCHANGED <<up, answers>>
       ELSE /\ up' = Append(up, reply)
            /\ answers' = answers \cup {<<asked, reply>>}
            /\ client' = "code"
    /\ UNCHANGED <<command, down, outcode, remaining, printed, asked, serverVars,
                   inPieces>>

(* The final output, which every command leaves empty, up to the end.       *)
RecvRest ==
    /\ client = "rest"
    /\ StreamEnded
    /\ client' = "done"
    /\ UNCHANGED <<command, down, up, outcode, remaining, printed, asked, serverVars,
                   historyVars>>

Die ==
    /\ MayDie
    /\ ~ClientGone
    /\ client' = "dead"
    /\ UNCHANGED <<command, down, up, outcode, remaining, printed, asked, serverVars,
                   historyVars>>

ClientStep == RecvCode \/ RecvSize \/ RecvData \/ RecvQuestion \/ RecvRest

-----------------------------------------------------------------------------
(* The petition thread: sending *)

(* What is sent to a client that is gone fails. *)
Send(item) == down' = IF ClientGone THEN down ELSE Append(down, item)

NextChunk == at' = at + 1 /\ petition' = "command" /\ sent' = 0

(* MegaCmdCatTransferListener::onTransferData, and the code of              *)
(* sendPartialOutputImpl: only this send notices that the client is gone.   *)
StreamChunk ==
    /\ petition = "command" /\ command.name = "cat"
    /\ at <= Len(command.chunks)
    /\ IF clientDisconnected
       THEN /\ petition' = "finish"
            /\ result' = "FAILED"
            /\ UNCHANGED <<down, at, sent, clientDisconnected>>
       ELSE /\ Send(Item("code", "PARTIALOUT"))
            /\ clientDisconnected' = ClientGone
            /\ IF ClientGone THEN NextChunk
                             ELSE petition' = "size" /\ UNCHANGED <<at, sent>>
            /\ UNCHANGED result
    /\ UNCHANGED <<command, up, clientVars, force, none, deleted, historyVars>>

SendSize ==
    /\ petition = "size"
    /\ Send(Item("size", command.chunks[at]))
    /\ IF ClientGone THEN NextChunk
                     ELSE petition' = "data" /\ UNCHANGED <<at, sent>>
    /\ UNCHANGED <<command, up, clientVars, clientDisconnected, force, none, result,
                   deleted, historyVars>>

(* One piece of the chunk reaches the client's socket. *)
SendData ==
    /\ petition = "data"
    /\ Send(Item("data", Piece(at, sent + 1)))
    /\ IF ClientGone \/ sent + 1 = command.chunks[at]
       THEN NextChunk
       ELSE sent' = sent + 1 /\ UNCHANGED <<at, petition>>
    /\ UNCHANGED <<command, up, clientVars, clientDisconnected, force, none, result,
                   deleted, historyVars>>

(* getConfirmation and getUserResponse send the code, then the question. *)
Ask(code) == Send(Item("code", code)) /\ petition' = "ask"

SendQuestion ==
    /\ petition = "ask"
    /\ Send(Item("text", IF command.name = "rm" THEN command.targets[at].node ELSE NoNode))
    /\ petition' = "wait"
    /\ UNCHANGED <<command, up, clientVars, at, sent, clientDisconnected, force, none,
                   result, deleted, historyVars>>

-----------------------------------------------------------------------------
(* The petition thread: commands *)

Target == command.targets[at]

NextTarget == at' = at + 1

(* Mutant of NeedsConfirmation: -r is taken for -f. *)
MutRecursiveForces == ~force /\ ~command.recursive /\ Target.node \in Folders

NeedsConfirmation == ~force /\ Target.node \in Folders

(* deleteNode, and the loop over the arguments around it.  A deletion that  *)
(* needs no confirmation returns MCMDCONFIRM_ALL, which turns force on.     *)
DeleteNode ==
    /\ petition = "command" /\ command.name = "rm"
    /\ at <= Len(command.targets)
    /\ \/ /\ none /\ ~Target.pattern
          /\ NextTarget
          /\ UNCHANGED <<down, petition, result, deleted, force>>
       \/ /\ ~none \/ Target.pattern
          /\ Target.node \in Folders /\ ~command.recursive
          /\ result' = "INVALIDTYPE"
          /\ NextTarget
          /\ UNCHANGED <<down, petition, deleted, force>>
       \/ /\ ~none \/ Target.pattern
          /\ Target.node \in Folders => command.recursive
          /\ IF NeedsConfirmation
             THEN Ask("REQCONFIRM") /\ UNCHANGED <<at, deleted, force>>
             ELSE /\ deleted' = deleted \cup {Target.node}
                  /\ force' = TRUE
                  /\ NextTarget
                  /\ UNCHANGED <<down, petition>>
          /\ UNCHANGED result
    /\ UNCHANGED <<command, up, clientVars, sent, clientDisconnected, none, historyVars>>

AskOther ==
    /\ petition = "command" /\ at = 1
    /\ \/ command.name = "deleteversions" /\ ~force /\ Ask("REQCONFIRM")
       \/ command.name = "passwd" /\ Ask("REQSTRING")
    /\ UNCHANGED <<command, up, clientVars, at, sent, clientDisconnected, force, none,
                   result, deleted, historyVars>>

(* The reply of a client that is gone was never written to the variable     *)
(* that is returned: any value.                                             *)
Unwritten == IF command.name = "passwd" THEN {"text"} ELSE Answers \cup {"other"}

MeansYes(reply) == reply \in {"YES", "ALL"}

Obey(reply) ==
    \/ /\ command.name = "rm"
       /\ deleted' = deleted \cup {n \in {Target.node} : MeansYes(reply)}
       /\ force' = (force \/ reply = "ALL")
       /\ none' = (none \/ reply = "NONE")
       /\ petition' = "command"
       /\ NextTarget
    \/ /\ command.name = "deleteversions"
       /\ petition' = IF reply \in {"YES", "NO"} THEN "finish" ELSE "command"
       /\ UNCHANGED <<deleted, force, none, at>>
    \/ /\ command.name = "passwd"
       /\ petition' = IF reply = "text that fills" THEN "wait" ELSE "finish"
       /\ UNCHANGED <<deleted, force, none, at>>

RecvReply ==
    /\ petition = "wait"
    /\ \/ /\ up # <<>>
          /\ Obey(Head(up))
          /\ up' = Tail(up)
       \/ /\ up = <<>> /\ ClientGone
          /\ \E reply \in Unwritten : Obey(reply)
          /\ UNCHANGED up
    /\ UNCHANGED <<command, down, clientVars, sent, clientDisconnected, result,
                   historyVars>>

CommandDone ==
    \/ petition = "finish"
    \/ /\ petition = "command"
       /\ \/ command.name = "cat" /\ at > Len(command.chunks)
          \/ command.name = "rm" /\ at > Len(command.targets)
          \/ command.name = "deleteversions" /\ force

(* Mutant of returnAndClosePetition: a code of success is not sent. *)
MutCloseSilently ==
    /\ CommandDone
    /\ petition' = "closed"
    /\ IF result = "OK" THEN UNCHANGED down ELSE Send(Item("code", result))
    /\ UNCHANGED <<command, up, clientVars, at, sent, clientDisconnected, force, none,
                   result, deleted, historyVars>>

(* The code of the command, and the end of the stream. *)
returnAndClosePetition ==
    /\ CommandDone
    /\ petition' = "closed"
    /\ Send(Item("code", result))
    /\ UNCHANGED <<command, up, clientVars, at, sent, clientDisconnected, force, none,
                   result, deleted, historyVars>>

Crash ==
    /\ MayCrash
    /\ ~ServerGone
    /\ petition' = "crashed"
    /\ UNCHANGED <<command, down, up, clientVars, at, sent, clientDisconnected, force,
                   none, result, deleted, historyVars>>

ServerStep ==
    \/ StreamChunk \/ SendSize \/ SendData \/ SendQuestion \/ DeleteNode \/ AskOther
    \/ RecvReply \/ returnAndClosePetition

Next ==
    \/ ClientStep
    \/ \E reply \in Answers \cup {"text", "text that fills"} : Answer(reply)
    \/ ServerStep
    \/ Die
    \/ Crash

Spec == Init /\ [][Next]_vars

(* Both threads run.  The user answers, and one who is asked again and      *)
(* again says yes some time.                                                *)
Fairness ==
    /\ WF_vars(ClientStep)
    /\ WF_vars(ServerStep)
    /\ WF_vars(\E reply \in Answers \cup {"text", "text that fills"} : Answer(reply))
    /\ SF_vars(Answer("YES"))

FairSpec == Spec /\ Fairness

-----------------------------------------------------------------------------
(* Properties *)

Written == {printed[i] : i \in 1 .. Len(printed)} \ {Junk}

WrittenInOrder ==
    \A i, j \in 1 .. Len(printed) :
        i < j /\ Junk \notin {printed[i], printed[j]} => Before(printed[i], printed[j])

(* What cat streams is written once and in order, with nothing left out     *)
(* before the end, however it is cut into pieces: what else the client      *)
(* writes is junk of its own buffer.                                        *)
OutputInOrder ==
    /\ WrittenInOrder
    /\ \A p \in Written : p \in Contents /\ \A q \in Contents : Before(q, p) => q \in Written
    /\ client = "done" /\ petition = "closed" /\ command.name = "cat" => Written = Contents
    /\ ~inPieces => \A i \in 1 .. Len(printed) : printed[i] # Junk

(* A client that ends normally has the code of the command, unless the      *)
(* server crashed before it sent one.                                       *)
ResultDelivered ==
    /\ client = "done" => outcode = result \/ petition = "crashed"
    /\ client = "failed" => petition = "crashed"

Confirmed(n) ==
    \/ command.force
    \/ \E reply \in {"YES", "ALL"} : <<n, reply>> \in answers
    \/ \E m \in Nodes : <<m, "ALL">> \in answers

(* "-f: Force (no asking)" (contrib/docs/commands/rm.md): without it, no    *)
(* folder is deleted that the user was not asked about.                     *)
FoldersAreConfirmed == \A n \in deleted \cap Folders : Confirmed(n)

(* The same, but for two ways around it that the code has: a file that was  *)
(* deleted before the folder, and a client that is gone before it answered. *)
UserDecides ==
    FoldersAreConfirmed \/ deleted \ Folders # {} \/ client = "dead"

(* No question or reply filled a buffer. *)
NothingFills ==
    /\ asked \notin Filling
    /\ up = <<>> \/ Head(up) # "text that fills"

(* A command ends, for the client and for the server, while the user goes   *)
(* on answering (and no question or reply fills a buffer).                  *)
CommandEnds == []NothingFills => <>(ClientGone /\ (ServerGone \/ client = "dead"))

=============================================================================
