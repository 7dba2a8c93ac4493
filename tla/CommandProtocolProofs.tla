------------------------- MODULE CommandProtocolProofs -------------------------
(***************************************************************************)
(* Proofs about CommandProtocol, for any commands, nodes and chunks.        *)
(*                                                                         *)
(* The stream says nowhere where an item begins, so the invariant has to    *)
(* say, for all that is under way, that the client will read it as what it  *)
(* was sent.  For cat this is Grammar: what must follow each item, up to    *)
(* the end of what was sent, where the petition thread must be about to     *)
(* send it.  The other commands take turns with the client, and Dialogue    *)
(* lists the turns.  A client whose server crashed reads a stream that ends *)
(* anywhere, so Grammar allows for a cut at the end of it, and of the other *)
(* commands only what keeps the client from printing is claimed (NoOutput). *)
(* What a server does whose client was killed is claimed of no stream.      *)
(*                                                                         *)
(* Since the client takes pieces of output for what they are, what it wrote *)
(* and what is under way are together what was sent (Streamed).             *)
(***************************************************************************)
EXTENDS CommandProtocol, SequenceTheorems, TLAPS

-----------------------------------------------------------------------------
(* The inductive invariant *)

Kinds == {"code", "size", "data", "text"}
Results == {"OK", "INVALIDTYPE", "FAILED"}
AllReplies == Answers \cup {"text", "text that fills"}

Values == Nat \cup Results \cup Questions \cup {"PARTIALOUT"}
          \cup Nodes \cup {NoNode} \cup (Nat \X Nat)
Items == [kind : Kinds, value : Values]

Typed ==
    /\ command \in Commands
    /\ client \in {"code", "size", "data", "question", "answer", "rest"} \cup ClientEnds
    /\ petition \in {"command", "size", "data", "ask", "wait", "finish"} \cup ServerEnds
    /\ at \in Nat \ {0}
    /\ sent \in Nat
    /\ result \in Results
    /\ deleted \subseteq Nodes
    /\ up \in Seq(AllReplies)

Alive == client # "dead"
Cut == petition = "crashed"
BothLive == Alive /\ ~Cut

StreamTyped == Alive => down \in Seq(Items)

(* A client that was not killed ends only after the server. *)
EndsAfterServer == client \in {"done", "failed"} => ServerGone

(* The chunk or target that the petition thread is at exists. *)
AtSomething ==
    /\ petition \in {"size", "data"} => command.name = "cat" /\ at <= Len(command.chunks)
    /\ petition = "data" => sent < command.chunks[at]
    /\ sent # 0 => petition \in {"data", "crashed"}
    /\ petition \in {"ask", "wait"} =>
          /\ command.name # "cat"
          /\ command.name = "rm" => at <= Len(command.targets)

(* -- cat ---------------------------------------------------------------- *)

IsCode(i) == down[i].kind = "code"
IsSize(i) == down[i].kind = "size" /\ down[i].value \in Nat \ {0}
AreData(i, j) == \A k \in i .. j : k <= Len(down) => down[k].kind = "data"

BetweenChunks == petition \in {"command", "finish"}

(* What the next item is, if it was sent, and where the petition thread is  *)
(* if not: i items of the stream come before it.                            *)
CodeFollows(i) == IF i < Len(down) THEN IsCode(i + 1) ELSE BetweenChunks \/ Cut
SizeFollows(i) == IF i < Len(down) THEN IsSize(i + 1) ELSE petition = "size" \/ Cut

(* n pieces follow item i, and then a code. *)
DataFollow(i, n) ==
    /\ AreData(i + 1, i + n)
    /\ IF i + n <= Len(down)
       THEN CodeFollows(i + n)
       ELSE \/ Cut
            \/ /\ petition = "data"
               /\ sent < command.chunks[at]
               /\ i + n - Len(down) = command.chunks[at] - sent

AfterItem(i) ==
    /\ down[i].kind \in {"code", "size", "data"}
    /\ IsCode(i) /\ down[i].value = "PARTIALOUT" => SizeFollows(i)
    /\ IsCode(i) /\ down[i].value # "PARTIALOUT" =>
          i = Len(down) /\ petition = "closed" /\ down[i].value = result
    /\ down[i].kind = "size" => IsSize(i) /\ DataFollow(i, down[i].value)

AtItem ==
    /\ client \notin {"question", "answer"}
    /\ client = "failed" => Cut
    /\ outcode \notin Questions
    /\ client = "code" => CodeFollows(0)
    /\ client = "size" => SizeFollows(0)
    /\ client = "data" => remaining \in Nat \ {0} /\ DataFollow(0, remaining)
    /\ client \in {"rest", "done"} =>
          down = <<>> /\ (Cut \/ (petition = "closed" /\ outcode = result))

Readable ==
    /\ \A i \in 1 .. Len(down) : AfterItem(i)
    /\ AtItem

Grammar ==
    Alive /\ command.name = "cat" => Readable

PrintedTyped == printed \in Seq(Nat \X Nat)

(* What was written and what is under way is what was sent, in its order.   *)
Pending == {down[i].value : i \in {k \in 1 .. Len(down) : down[k].kind = "data"}}

PendingInOrder ==
    \A i, j \in 1 .. Len(down) :
        i < j /\ down[i].kind = "data" /\ down[j].kind = "data" =>
            Before(down[i].value, down[j].value)

SentPieces == {p \in Contents : Before(p, Piece(at, sent + 1))}

Streamed ==
    Alive /\ command.name = "cat" =>
        /\ PendingInOrder
        /\ \A w \in Written, d \in Pending : Before(w, d)
        /\ Written \cup Pending = SentPieces

(* Only a client that is gone keeps cat from sending all.                   *)
SendsAll ==
    Alive /\ command.name = "cat" =>
        /\ petition # "finish" /\ clientDisconnected = FALSE
        /\ petition = "closed" => at > Len(command.chunks)

(* -- the others --------------------------------------------------------- *)

Subject == IF command.name = "rm" THEN Target.node ELSE NoNode

IsQuestionCode(i) == IsCode(i) /\ down[i].value \in Questions
IsQuestion(i) == down[i].kind = "text" /\ down[i].value = Subject

Asking ==
    /\ up = <<>>
    /\ \/ client = "code" /\ Len(down) = 1 /\ IsQuestionCode(1)
       \/ client = "question" /\ down = <<>>

Waiting ==
    \/ client = "code" /\ up = <<>> /\ Len(down) = 2 /\ IsQuestionCode(1) /\ IsQuestion(2)
    \/ client = "question" /\ up = <<>> /\ Len(down) = 1 /\ IsQuestion(1)
    \/ client \in {"question", "answer"} /\ up = <<>> /\ down = <<>> /\ asked = Subject
    \/ client = "code" /\ down = <<>> /\ Len(up) = 1 /\ <<Subject, up[1]>> \in answers
    \/ client = "code" /\ down = <<>> /\ up = <<>> /\ command.name = "passwd"

Closed ==
    /\ up = <<>>
    /\ \/ client = "code" /\ Len(down) = 1 /\ IsCode(1) /\ down[1].value = result
       \/ client \in {"rest", "done"} /\ down = <<>> /\ outcode = result

Dialogue ==
    BothLive /\ command.name # "cat" =>
        /\ petition \in {"command", "finish"} =>
              client = "code" /\ down = <<>> /\ up = <<>>
        /\ petition = "ask" => Asking
        /\ petition = "wait" => Waiting
        /\ petition = "closed" => Closed

(* They print nothing, also when the server crashed.                        *)
NoOutput ==
    command.name # "cat" =>
        /\ printed = <<>>
        /\ outcode # "PARTIALOUT" /\ client \notin {"size", "data"}
        /\ Alive /\ Cut /\ client = "code" => down = <<>> \/ IsQuestionCode(1)

(* Nothing turns force on but -f, the user, and the two ways around.        *)
ForceIsGiven ==
    force =>
        \/ command.force
        \/ \E m \in Nodes : <<m, "ALL">> \in answers
        \/ deleted \ Folders # {}
        \/ client = "dead"

IInv ==
    /\ Typed
    /\ StreamTyped
    /\ EndsAfterServer
    /\ AtSomething
    /\ Grammar
    /\ Dialogue
    /\ NoOutput
    /\ Streamed
    /\ SendsAll
    /\ PrintedTyped
    /\ OutputInOrder
    /\ ForceIsGiven
    /\ UserDecides

-----------------------------------------------------------------------------
(* The first item of a sequence taken, and an item appended to it. *)
LEMMA SequenceEnds ==
    ASSUME NEW S, NEW s \in Seq(S)
    PROVE  /\ s # <<>> => Tail(s) \in Seq(S) /\ Len(Tail(s)) = Len(s) - 1 /\ Len(s) >= 1
           /\ Len(s) = 1 => Tail(s) = <<>>
           /\ Len(s) = 2 => Tail(s)[1] = s[2]
           /\ \A x : /\ Len(Append(s, x)) = Len(s) + 1
                    /\ Append(s, x)[Len(s) + 1] = x
                    /\ \A i \in 1 .. Len(s) : Append(s, x)[i] = s[i]
           /\ \A k \in Nat : SubSeq(s, k + 1, Len(s)) \in Seq(S)
<1>1. Len(s) \in Nat /\ (s # <<>> <=> Len(s) >= 1)
  BY EmptySeq, LenProperties
<1>2. s # <<>> => Tail(s) \in Seq(S) /\ Len(Tail(s)) = Len(s) - 1
  BY HeadTailProperties
<1>3. Len(s) = 1 => Tail(s) = <<>>
  <2> SUFFICES ASSUME Len(s) = 1 PROVE Tail(s) = <<>>
    OBVIOUS
  <2>1. Tail(s) \in Seq(S) /\ Len(Tail(s)) = 0
    BY <1>1, <1>2
  <2>2. \A t \in Seq(S) : Len(t) = 0 => t = <<>>
    BY EmptySeq
  <2> QED
    BY <2>1, <2>2
<1>4. Len(s) = 2 => Tail(s)[1] = s[2]
  <2>1. Len(s) = 2 => \A i \in 1 .. Len(Tail(s)) : Tail(s)[i] = s[i + 1]
    BY <1>1, HeadTailProperties
  <2> QED
    BY <1>1, <1>2, <2>1
<1>5. \A x : /\ Len(Append(s, x)) = Len(s) + 1
             /\ Append(s, x)[Len(s) + 1] = x
             /\ \A i \in 1 .. Len(s) : Append(s, x)[i] = s[i]
  OBVIOUS
<1>6. \A k \in Nat : SubSeq(s, k + 1, Len(s)) \in Seq(S)
  OBVIOUS
<1> QED
  BY <1>1, <1>2, <1>3, <1>4, <1>5, <1>6

(* The fields of the command, and what it is at. *)
LEMMA Fields ==
    ASSUME Typed
    PROVE  /\ command.name \in {"cat", "rm", "deleteversions", "passwd"}
           /\ command.chunks \in Seq(Nat \ {0})
           /\ command.targets \in Seq([node : Nodes, pattern : BOOLEAN])
           /\ at <= Len(command.chunks) => command.chunks[at] \in Nat \ {0}
           /\ at <= Len(command.targets) => Target.node \in Nodes
<1>1. command \in Command
  BY ProtocolAssumption DEF Typed
<1>2. /\ command.name \in {"cat", "rm", "deleteversions", "passwd"}
      /\ command.chunks \in Seq(Nat \ {0})
      /\ command.targets \in Seq([node : Nodes, pattern : BOOLEAN])
  BY <1>1 DEF Command
<1>3. at <= Len(command.chunks) => command.chunks[at] \in Nat \ {0}
  BY <1>2 DEF Typed
<1>4. at <= Len(command.targets) => Target.node \in Nodes
  <2> SUFFICES ASSUME at <= Len(command.targets) PROVE command.targets[at].node \in Nodes
    BY DEF Target
  <2>1. at \in 1 .. Len(command.targets)
    BY <1>2 DEF Typed
  <2>2. \A S : \A s \in Seq(S) : \A i \in 1 .. Len(s) : s[i] \in S
    OBVIOUS
  <2>3. command.targets[at] \in [node : Nodes, pattern : BOOLEAN]
    BY <1>2, <2>1, <2>2
  <2> QED
    BY <2>3
<1> QED
  BY <1>2, <1>3, <1>4

(* What cat streams, and the order of its pieces. *)
LEMMA ContentsAre ==
    ASSUME Typed
    PROVE  /\ \A p : p \in Contents <=>
                 \E c \in 1 .. Len(command.chunks) : \E n \in 1 .. command.chunks[c] : p = Piece(c, n)
           /\ \A p \in Contents : \E c, n \in Nat \ {0} : p = Piece(c, n)
           /\ Contents \subseteq Nat \X Nat
           /\ Junk \notin Contents
<1>1. \A p : p \in Contents <=>
         \E c \in 1 .. Len(command.chunks) : \E n \in 1 .. command.chunks[c] : p = Piece(c, n)
  BY DEF Contents
<1>2. command.chunks \in Seq(Nat \ {0})
  BY Fields
<1>3. \A c \in 1 .. Len(command.chunks) : command.chunks[c] \in Nat \ {0}
  BY <1>2
<1>4. \A p \in Contents : \E c, n \in Nat \ {0} : p = Piece(c, n)
  BY <1>1, <1>2, <1>3
<1> QED
  BY <1>1, <1>4 DEF Piece, Junk

LEMMA BeforeIsAnOrder ==
    /\ \A p, q \in Nat \X Nat : Before(p, q) => ~Before(q, p)
    /\ \A p, q, r \in Nat \X Nat : Before(p, q) /\ Before(q, r) => Before(p, r)
    /\ \A p, q \in Nat \X Nat : Before(p, q) \/ Before(q, p) \/ p = q
BY DEF Before

(* A deleted node is a target of rm. *)
LEMMA ObeyTypes ==
    ASSUME Typed, AtSomething, petition = "wait", NEW reply, Obey(reply)
    PROVE  /\ petition' \in {"command", "finish", "wait"}
           /\ at' \in Nat \ {0}
           /\ deleted' \subseteq Nodes
<1>1. CASE command.name = "rm"
  <2>1. Target.node \in Nodes
    BY <1>1, Fields DEF AtSomething
  <2> QED
    BY <1>1, <2>1 DEF Obey, NextTarget, Typed
<1>2. CASE command.name # "rm"
  BY <1>2 DEF Obey, Typed
<1> QED
  BY <1>1, <1>2

(* The initial states satisfy the inductive invariant. *)
LEMMA InitIInv == Init => IInv
<1> SUFFICES ASSUME Init PROVE IInv
  OBVIOUS
<1> USE ProtocolAssumption DEF Init
<1>1. Typed /\ StreamTyped
  BY DEF Typed, StreamTyped, ClientEnds, ServerEnds, Results
<1>2. EndsAfterServer /\ AtSomething
  BY DEF EndsAfterServer, AtSomething
<1>3. Grammar
  BY DEF Grammar, Readable, AtItem, CodeFollows, BetweenChunks, Questions
<1>4. Dialogue
  BY DEF Dialogue
<1>5. ForceIsGiven
  <2>1. force <=> command.force
    BY Zenon
  <2> QED
    BY <2>1, Zenon DEF ForceIsGiven
<1>6. UserDecides
  <2>1. deleted \cap Folders = {}
    OBVIOUS
  <2> QED
    BY <2>1, Zenon DEF UserDecides, FoldersAreConfirmed
<1>7. NoOutput /\ SendsAll
  BY DEF NoOutput, SendsAll, Cut
<1>8. Written = {} /\ Pending = {}
  BY DEF Written, Pending
<1>9. Streamed
  <2>1. SentPieces = {}
    <3> SUFFICES ASSUME NEW p \in SentPieces PROVE FALSE
      OBVIOUS
    <3>1. PICK c \in Nat \ {0}, n \in Nat \ {0} : p = Piece(c, n)
      BY Fields, <1>1, ContentsAre DEF SentPieces
    <3> QED
      BY <3>1 DEF SentPieces, Before, Piece
  <2>2. PendingInOrder
    BY DEF PendingInOrder
  <2> QED
    BY <1>8, <2>1, <2>2 DEF Streamed
<1>10. OutputInOrder
  BY <1>8 DEF OutputInOrder, WrittenInOrder
<1>11. PrintedTyped
  BY DEF PrintedTyped
<1> QED
  BY <1>1, <1>2, <1>3, <1>4, <1>5, <1>6, <1>7, <1>9, <1>10, <1>11 DEF IInv

(* Every step preserves the types of all but the stream. *)
LEMMA TypedNext == Typed /\ AtSomething /\ [Next]_vars => Typed'
<1> SUFFICES ASSUME Typed, AtSomething, [Next]_vars PROVE Typed'
  OBVIOUS
<1> USE ProtocolAssumption
<1> USE DEF Typed, ClientEnds, ServerEnds, clientVars, serverVars, historyVars
<1>1. ASSUME ClientStep PROVE Typed'
  <2>1. /\ client' \in {"size", "question", "rest", "data", "code", "failed", "answer", "done"}
        /\ UNCHANGED <<command, up, serverVars>>
    <3>1. AfterCode(outcode') \in {"size", "question", "rest"}
      BY DEF AfterCode
    <3>2. CASE RecvCode
      BY <3>1, <3>2 DEF RecvCode
    <3>3. CASE RecvSize
      BY <3>3 DEF RecvSize
    <3>4. CASE RecvData
      BY <3>4 DEF RecvData
    <3>5. CASE RecvQuestion
      BY <3>5 DEF RecvQuestion
    <3>6. CASE RecvRest
      BY <3>6 DEF RecvRest
    <3> QED
      BY <1>1, <3>2, <3>3, <3>4, <3>5, <3>6 DEF ClientStep
  <2> QED
    BY <2>1
<1>2. ASSUME NEW reply \in AllReplies, Answer(reply) PROVE Typed'
  BY <1>2 DEF Answer
<1>3. ASSUME ServerStep PROVE Typed'
  <2>1. CASE StreamChunk
    BY <2>1 DEF StreamChunk, NextChunk, Results
  <2>2. CASE SendSize
    BY <2>2 DEF SendSize, NextChunk
  <2>3. CASE SendData
    BY <2>3 DEF SendData, NextChunk
  <2>4. CASE SendQuestion
    BY <2>4 DEF SendQuestion
  <2>5. CASE DeleteNode
    BY <2>5, Fields DEF DeleteNode, Ask, NextTarget, Results
  <2>6. CASE AskOther
    BY <2>6 DEF AskOther, Ask
  <2>7. CASE RecvReply
    <3>1. up' \in Seq(AllReplies)
      <4>1. (up' = Tail(up) /\ up # <<>>) \/ up' = up
        BY <2>7 DEF RecvReply
      <4> QED
        BY <4>1
    <3>2. /\ petition' \in {"command", "finish", "wait"}
          /\ at' \in Nat \ {0}
          /\ deleted' \subseteq Nodes
      BY <2>7, ObeyTypes DEF RecvReply
    <3> QED
      BY <2>7, <3>1, <3>2 DEF RecvReply
  <2>8. CASE returnAndClosePetition
    BY <2>8 DEF returnAndClosePetition
  <2> QED
    BY <1>3, <2>1, <2>2, <2>3, <2>4, <2>5, <2>6, <2>7, <2>8 DEF ServerStep
<1>4. CASE Die
  BY <1>4 DEF Die
<1>5. CASE Crash
  BY <1>5 DEF Crash
<1>6. CASE UNCHANGED vars
  BY <1>6 DEF vars
<1> QED
  BY <1>1, <1>2, <1>3, <1>4, <1>5, <1>6 DEF Next, AllReplies

-----------------------------------------------------------------------------
(* Sending *)

(* What a petition thread sends while both live is appended to the stream. *)
LEMMA SendAppends ==
    ASSUME Typed, StreamTyped, EndsAfterServer, BothLive, ~ServerGone,
           NEW item \in Items, Send(item)
    PROVE  /\ ~ClientGone
           /\ down' = Append(down, item)
           /\ down' \in Seq(Items)
           /\ Len(down') = Len(down) + 1
           /\ \A i \in 1 .. Len(down) : down'[i] = down[i]
           /\ down'[Len(down) + 1] = item
<1>1. ~ClientGone
  BY DEF ClientGone, ClientEnds, EndsAfterServer, BothLive, Alive
<1> QED
  BY <1>1 DEF Send, StreamTyped, BothLive

(* The items that are sent are items. *)
LEMMA ItemTypes ==
    ASSUME Typed, AtSomething
    PROVE  /\ \A code \in Questions \cup Results \cup {"PARTIALOUT"} :
                 Item("code", code) \in Items
           /\ petition = "size" => Item("size", command.chunks[at]) \in Items
           /\ petition = "data" =>
                 Item("data", Piece(at, sent + 1)) \in Items
           /\ petition = "ask" => Item("text", Subject) \in Items
<1> USE DEF Item, Items, Kinds, Values
<1>1. \A code \in Questions \cup Results \cup {"PARTIALOUT"} : Item("code", code) \in Items
  OBVIOUS
<1>2. petition = "size" => Item("size", command.chunks[at]) \in Items
  BY Fields DEF AtSomething
<1>3. petition = "data" => Item("data", Piece(at, sent + 1)) \in Items
  BY DEF Piece, Typed
<1>4. petition = "ask" => Item("text", Subject) \in Items
  BY Fields DEF AtSomething, Subject
<1> QED
  BY <1>1, <1>2, <1>3, <1>4

-----------------------------------------------------------------------------
(* The grammar of what cat sends *)

(* Who is gone stays gone, and the command does not change. *)
LEMMA LiveBefore ==
    ASSUME [Next]_vars
    PROVE  /\ command' = command
           /\ BothLive' => BothLive
           /\ Alive' => Alive
<1> USE DEF Alive, Cut, BothLive, clientVars, serverVars, historyVars, ClientGone, ServerGone,
            ClientEnds, ServerEnds
<1>1. CASE ClientStep
  BY <1>1 DEF ClientStep, RecvCode, RecvSize, RecvData, RecvQuestion, RecvRest
<1>2. ASSUME NEW reply, Answer(reply)
      PROVE  command' = command /\ (BothLive' => BothLive) /\ (Alive' => Alive)
  BY <1>2 DEF Answer
<1>3. CASE ServerStep
  <2>1. CASE DeleteNode \/ AskOther \/ SendQuestion \/ StreamChunk
    BY <2>1 DEF DeleteNode, AskOther, SendQuestion, StreamChunk
  <2>2. CASE SendSize \/ SendData \/ RecvReply \/ returnAndClosePetition
    BY <2>2 DEF SendSize, SendData, RecvReply, returnAndClosePetition, CommandDone
  <2> QED
    BY <1>3, <2>1, <2>2 DEF ServerStep
<1>4. CASE Die \/ Crash
  BY <1>4 DEF Die, Crash
<1>5. CASE UNCHANGED vars
  BY <1>5 DEF vars
<1> QED
  BY <1>1, <1>2, <1>3, <1>4, <1>5 DEF Next

(* The four ways the petition thread goes on with the stream. *)
Sends(item) ==
    \/ BetweenChunks /\ item.kind = "code" /\ item.value = "PARTIALOUT" /\ petition' = "size"
    \/ /\ petition = "size" /\ petition' = "data"
       /\ item.kind = "size" /\ item.value = command.chunks[at] /\ item.value \in Nat \ {0}
       /\ sent' = 0 /\ at' = at
    \/ /\ petition = "data" /\ item.kind = "data"
       /\ IF sent + 1 = command.chunks[at]
          THEN petition' = "command"
          ELSE petition' = "data" /\ sent' = sent + 1 /\ at' = at
    \/ /\ BetweenChunks /\ item.kind = "code"
       /\ item.value = result /\ item.value # "PARTIALOUT"
       /\ petition' = "closed" /\ result' = result

Appended(item) ==
    /\ down \in Seq(Items)
    /\ Len(down') = Len(down) + 1
    /\ \A i \in 1 .. Len(down) : down'[i] = down[i]
    /\ down'[Len(down) + 1] = item

(* An item that does not end its chunk leaves both counts one shorter. *)
LEMMA OneLessToSend ==
    ASSUME NEW i \in Nat, NEW n \in Nat, NEW l \in Nat, NEW m \in Nat,
           NEW s \in Nat, NEW c \in Nat,
           m = l + 1, s < c, i + n - l = c - s, s + 1 # c
    PROVE  i + n > m /\ s + 1 < c /\ i + n - m = c - (s + 1)
  OBVIOUS

(* What was sent of a chunk stays in order when more is sent. *)
LEMMA DataFollowsOn ==
    ASSUME Typed, NEW item, Sends(item), Appended(item), command' = command,
           petition = "data" => at <= Len(command.chunks),
           NEW i \in Nat, NEW n \in Nat \ {0}, i <= Len(down), DataFollow(i, n)
    PROVE  DataFollow(i, n)'
<1>1. petition = "data" => command.chunks[at] \in Nat \ {0} /\ sent \in Nat
  BY Fields DEF Typed
<1>2. Len(down) \in Nat /\ Len(down') = Len(down) + 1
  BY DEF Appended
<1>3. \A j \in 1 .. Len(down) : down'[j] = down[j]
  BY DEF Appended
<1>4. down'[Len(down) + 1] = item
  BY DEF Appended
<1>5. AreData(i + 1, i + n) /\ ~Cut
  BY DEF DataFollow, Sends, BetweenChunks, Cut
<1>6. CASE i + n < Len(down)
  <2>1. AreData(i + 1, i + n)'
    BY <1>2, <1>3, <1>5, <1>6 DEF AreData
  <2>2. CodeFollows(i + n)
    BY <1>2, <1>6 DEF DataFollow
  <2>3. CodeFollows(i + n)'
    BY <1>2, <1>3, <1>6, <2>2 DEF CodeFollows, IsCode
  <2> QED
    BY <1>2, <1>6, <2>1, <2>3 DEF DataFollow
<1>7. CASE i + n = Len(down)
  <2>1. AreData(i + 1, i + n)'
    BY <1>2, <1>3, <1>5, <1>7 DEF AreData
  <2>2. BetweenChunks
    BY <1>2, <1>5, <1>7 DEF DataFollow, CodeFollows
  <2>3. item.kind = "code"
    BY <2>2 DEF Sends, BetweenChunks
  <2>4. CodeFollows(i + n)'
    BY <1>2, <1>4, <1>7, <2>3 DEF CodeFollows, IsCode
  <2> QED
    BY <1>2, <1>7, <2>1, <2>4 DEF DataFollow
<1>8. CASE i + n > Len(down)
  <2>1. /\ petition = "data" /\ sent < command.chunks[at]
        /\ i + n - Len(down) = command.chunks[at] - sent
    BY <1>2, <1>5, <1>8 DEF DataFollow
  <2>2. item.kind = "data"
    BY <2>1 DEF Sends, BetweenChunks
  <2>3. AreData(i + 1, i + n)'
    <3> SUFFICES ASSUME NEW m \in i + 1 .. i + n, m <= Len(down')
                 PROVE  down'[m].kind = "data"
      BY DEF AreData
    <3>1. CASE m = Len(down) + 1
      BY <1>4, <2>2, <3>1
    <3>2. CASE m # Len(down) + 1
      <4>1. m \in 1 .. Len(down) /\ down'[m] = down[m]
        BY <1>2, <1>3, <3>2
      <4> QED
        BY <1>5, <4>1 DEF AreData
    <3> QED
      BY <3>1, <3>2
  <2>4. CASE sent + 1 = command.chunks[at]
    <3>1. petition' = "command"
      BY <2>1, <2>4 DEF Sends, BetweenChunks
    <3>2. i + n = Len(down')
      BY <1>1, <1>2, <2>1, <2>4
    <3>3. CodeFollows(i + n)'
      BY <1>2, <3>1, <3>2 DEF CodeFollows, BetweenChunks
    <3> QED
      BY <1>2, <2>3, <3>2, <3>3 DEF DataFollow
  <2>5. CASE sent + 1 # command.chunks[at]
    <3>1. petition' = "data" /\ sent' = sent + 1 /\ at' = at
      BY <2>1, <2>5 DEF Sends, BetweenChunks
    <3>2. command.chunks[at] \in Nat /\ sent \in Nat
      BY <1>1, <2>1
    <3>3. /\ i + n > Len(down') /\ sent + 1 < command.chunks[at]
          /\ i + n - Len(down') = command.chunks[at] - (sent + 1)
      <4>1. PICK l \in Nat, m \in Nat : l = Len(down) /\ m = Len(down')
        BY <1>2
      <4>2. m = l + 1 /\ i + n - l = command.chunks[at] - sent
        BY <1>2, <2>1, <4>1
      <4> QED
        BY <2>1, <2>5, <3>2, <4>1, <4>2, OneLessToSend
    <3> QED
      BY <1>2, <2>3, <3>1, <3>3 DEF DataFollow
  <2> QED
    BY <2>4, <2>5
<1> QED
  BY <1>2, <1>6, <1>7, <1>8

(* What is sent is what the grammar asks for. *)
LEMMA GrammarExtends ==
    ASSUME IInv, BothLive, command.name = "cat", command' = command,
           NEW item, Sends(item), Appended(item), UNCHANGED <<client, remaining, outcode>>
    PROVE  Readable'
<1>1. /\ \A i \in 1 .. Len(down) : AfterItem(i)
      /\ AtItem
      /\ Len(down) \in Nat
      /\ Typed
      /\ petition = "data" => at <= Len(command.chunks)
      /\ ~Cut
  BY DEF IInv, Grammar, Readable, AtSomething, Appended, BothLive
<1>2. \A i \in 0 .. Len(down), n \in Nat \ {0} : DataFollow(i, n) => DataFollow(i, n)'
  BY <1>1, DataFollowsOn
<1>3. CodeFollows(0) => CodeFollows(0)'
  BY <1>1 DEF CodeFollows, IsCode, Sends, Appended, BetweenChunks
<1>4. \A i \in 0 .. Len(down) : SizeFollows(i) => SizeFollows(i)'
  BY <1>1 DEF SizeFollows, IsSize, Sends, Appended, BetweenChunks
<1>5. AtItem'
  BY <1>1, <1>2, <1>3, <1>4 DEF AtItem, Sends, BetweenChunks
<1>6. ASSUME NEW i \in 1 .. Len(down') PROVE AfterItem(i)'
  <2>1. CASE i = Len(down) + 1
    <3>1. down'[i] = item /\ i = Len(down')
      BY <2>1 DEF Appended
    <3>2. CASE item.kind = "code"
      BY <1>1, <3>1, <3>2 DEF Sends, AfterItem, SizeFollows, IsCode
    <3>3. CASE item.kind = "size"
      <4>1. /\ petition' = "data" /\ sent' = 0 /\ at' = at
            /\ item.value = command.chunks[at] /\ item.value \in Nat \ {0}
        BY <3>3 DEF Sends
      <4>2. DataFollow(i, item.value)'
        BY <1>1, <2>1, <3>1, <4>1 DEF DataFollow, AreData
      <4> QED
        BY <3>1, <3>3, <4>1, <4>2 DEF AfterItem, IsCode, IsSize
    <3>4. CASE item.kind = "data"
      BY <3>1, <3>4 DEF AfterItem, IsCode
    <3> QED
      BY <3>2, <3>3, <3>4 DEF Sends
  <2>2. CASE i # Len(down) + 1
    <3>1. i \in 1 .. Len(down) /\ down'[i] = down[i] /\ AfterItem(i)
      BY <1>1, <2>2 DEF Appended
    <3>2. CASE down[i].kind = "code"
      BY <1>4, <3>1, <3>2 DEF AfterItem, IsCode, Sends, BetweenChunks
    <3>3. CASE down[i].kind = "size"
      BY <1>2, <3>1, <3>3 DEF AfterItem, IsCode, IsSize
    <3>4. CASE down[i].kind = "data"
      BY <3>1, <3>4 DEF AfterItem, IsCode
    <3> QED
      BY <3>1, <3>2, <3>3, <3>4 DEF AfterItem
  <2> QED
    BY <2>1, <2>2
<1> QED
  BY <1>5, <1>6 DEF Readable

(* The client takes the first k items of the stream. *)
Taken(k) ==
    /\ Len(down) \in Nat /\ k <= Len(down)
    /\ Len(down') = Len(down) - k
    /\ \A j \in 1 .. Len(down') : down'[j] = down[j + k]

LEMMA DataFollowsTaken ==
    ASSUME NEW k \in Nat, Taken(k), UNCHANGED <<command, petition, at, sent>>,
           NEW i \in Nat, NEW n \in Nat, i >= k, DataFollow(i, n)
    PROVE  DataFollow(i - k, n)'
<1>1. /\ Len(down) \in Nat /\ k <= Len(down) /\ Len(down') = Len(down) - k
      /\ \A j \in 1 .. Len(down') : down'[j] = down[j + k]
  BY DEF Taken
<1>2. Len(down) \in Nat /\ k <= Len(down) /\ Len(down') = Len(down) - k
  BY <1>1
<1>3. AreData(i - k + 1, i - k + n)'
  <2> SUFFICES ASSUME NEW j \in i - k + 1 .. i - k + n, j <= Len(down')
               PROVE  down'[j].kind = "data"
    BY DEF AreData
  <2>1. j + k \in i + 1 .. i + n /\ j + k <= Len(down) /\ down'[j] = down[j + k]
    BY <1>1
  <2> QED
    BY <2>1 DEF DataFollow, AreData
<1>4. CASE i + n < Len(down)
  <2>1. down'[i - k + n + 1] = down[i + n + 1]
    BY <1>1, <1>4
  <2>2. CodeFollows(i + n)
    BY <1>2, <1>4 DEF DataFollow
  <2>3. IsCode(i + n + 1)
    BY <1>4, <2>2 DEF CodeFollows
  <2>4. CodeFollows(i - k + n)'
    BY <1>2, <1>4, <2>1, <2>3 DEF CodeFollows, IsCode
  <2> QED
    BY <1>2, <1>3, <1>4, <2>4 DEF DataFollow
<1>5. CASE i + n = Len(down)
  <2>1. BetweenChunks \/ Cut
    BY <1>2, <1>5 DEF DataFollow, CodeFollows
  <2>2. i - k + n = Len(down')
    BY <1>2, <1>5
  <2>3. CodeFollows(i - k + n)'
    BY <1>2, <2>1, <2>2 DEF CodeFollows, BetweenChunks, Cut
  <2> QED
    BY <1>2, <1>3, <2>2, <2>3 DEF DataFollow
<1>6. CASE i + n > Len(down)
  <2>1. \/ Cut
        \/ /\ petition = "data" /\ sent < command.chunks[at]
           /\ i + n - Len(down) = command.chunks[at] - sent
    BY <1>2, <1>6 DEF DataFollow
  <2>2. i - k + n > Len(down') /\ i - k + n - Len(down') = i + n - Len(down)
    BY <1>2, <1>6
  <2> QED
    BY <1>2, <1>3, <2>1, <2>2 DEF DataFollow, Cut
<1> QED
  BY <1>2, <1>4, <1>5, <1>6

LEMMA GrammarTaken ==
    ASSUME Grammar, Alive, command.name = "cat",
           NEW k \in Nat, Taken(k), UNCHANGED <<command, petition, at, sent, result>>
    PROVE  \A i \in 1 .. Len(down') : AfterItem(i)'
<1> SUFFICES ASSUME NEW i \in 1 .. Len(down') PROVE AfterItem(i)'
  OBVIOUS
<1>1. /\ i + k \in 1 .. Len(down) /\ AfterItem(i + k) /\ down'[i] = down[i + k]
      /\ i \in Nat /\ i <= Len(down') /\ Len(down') \in Nat
      /\ Len(down') = Len(down) - k
  BY DEF Grammar, Readable, Taken
<1>2. CASE down[i + k].kind = "code"
  <2>1. SizeFollows(i + k) => SizeFollows(i)'
    <3>1. CASE i = Len(down')
      <4>1. ~(i + k < Len(down)) /\ ~(i < Len(down'))
        BY <1>1, <3>1
      <4> QED
        BY <4>1 DEF SizeFollows, Cut
    <3>2. CASE i < Len(down')
      <4>1. down'[i + 1] = down[i + k + 1]
        BY <1>1, <3>2 DEF Taken
      <4>2. i + k < Len(down)
        BY <1>1, <3>2
      <4> QED
        BY <3>2, <4>1, <4>2 DEF SizeFollows, IsSize
    <3> QED
      BY <1>1, <3>1, <3>2
  <2>2. i + k = Len(down) => i = Len(down')
    BY <1>1
  <2> QED
    BY <1>1, <1>2, <2>1, <2>2 DEF AfterItem, IsCode
<1>3. CASE down[i + k].kind = "size"
  <2>1. PICK n \in Nat \ {0} : n = down[i + k].value /\ DataFollow(i + k, n)
    BY <1>1, <1>3 DEF AfterItem, IsSize
  <2>2. DataFollow(i + k - k, n)'
    BY <1>1, <2>1, DataFollowsTaken
  <2>3. i + k - k = i
    BY <1>1
  <2>4. DataFollow(i, n)' /\ down'[i].value = n
    BY <1>1, <2>1, <2>2, <2>3
  <2>5. DataFollow(i, down[i].value)'
    BY <2>4
  <2> QED
    BY <1>1, <1>3, <2>1, <2>4, <2>5 DEF AfterItem, IsCode, IsSize
<1>4. CASE down[i + k].kind = "data"
  BY <1>1, <1>4 DEF AfterItem, IsCode
<1> QED
  BY <1>1, <1>2, <1>3, <1>4 DEF AfterItem

(* Where the client goes on after each code. *)
LEMMA AfterCodeIs ==
    /\ AfterCode("PARTIALOUT") = "size"
    /\ \A code \in Questions : AfterCode(code) = "question"
    /\ \A code \in Results \cup {"-1"} : AfterCode(code) = "rest"
  BY DEF AfterCode, Questions, Results

LEMMA GrammarNext == IInv /\ [Next]_vars => Grammar'
<1> SUFFICES ASSUME IInv, [Next]_vars, Alive', command'.name = "cat"
             PROVE  Readable'
  BY DEF Grammar
<1>1. /\ command' = command /\ command.name = "cat" /\ Alive
      /\ down \in Seq(Items) /\ Len(down) \in Nat
      /\ Typed /\ Grammar /\ Readable
      /\ petition \notin {"ask", "wait"}
      /\ client \notin {"question", "answer", "dead"}
  BY LiveBefore DEF IInv, Grammar, Readable, StreamTyped, AtSomething, AtItem, Alive
<1>2. ASSUME UNCHANGED <<down, client, remaining, outcode, command, at, sent>>,
             \/ UNCHANGED <<petition, result>>
             \/ BetweenChunks /\ BetweenChunks' /\ ~Cut
             \/ petition # "closed" /\ Cut'
      PROVE  Readable'
  <2>1. \A i \in 0 .. Len(down) : CodeFollows(i) => CodeFollows(i)'
    BY <1>2 DEF CodeFollows, IsCode, BetweenChunks, Cut
  <2>2. \A i \in 0 .. Len(down) : SizeFollows(i) => SizeFollows(i)'
    BY <1>2 DEF SizeFollows, IsSize, BetweenChunks, Cut
  <2>3. \A i \in 0 .. Len(down), n \in Nat : DataFollow(i, n) => DataFollow(i, n)'
    BY <1>1, <1>2, <2>1 DEF DataFollow, AreData, BetweenChunks, Cut
  <2>4. AtItem'
    BY <1>1, <1>2, <2>1, <2>2, <2>3 DEF Readable, AtItem, BetweenChunks, Cut
  <2>5. \A i \in 1 .. Len(down) : AfterItem(i)'
    BY <1>1, <1>2, <2>2, <2>3 DEF Readable, AfterItem, IsCode, IsSize, BetweenChunks, Cut
  <2> QED
    BY <1>2, <2>4, <2>5 DEF Readable
<1>3. ASSUME NEW item \in Items, Send(item), ~ServerGone, Sends(item),
             UNCHANGED <<client, remaining, outcode>>
      PROVE  Readable'
  <2>1. BothLive
    BY <1>1, <1>3 DEF BothLive, Cut, ServerGone, ServerEnds
  <2>2. Appended(item)
    BY <1>1, <1>3, <2>1, SendAppends DEF Appended, IInv
  <2> QED
    BY <1>1, <1>3, <2>1, <2>2, GrammarExtends
<1> USE DEF clientVars, serverVars, historyVars
<1>4. ~ClientGone \/ ServerGone
  BY <1>1 DEF IInv, EndsAfterServer, ClientGone, ClientEnds, Alive
<1>5. CASE StreamChunk
  <2>1. CASE clientDisconnected
    <3>1. /\ UNCHANGED <<down, client, remaining, outcode, command, at, sent>>
          /\ petition = "command" /\ petition' = "finish" /\ result' = "FAILED"
      BY <1>5, <2>1 DEF StreamChunk
    <3> QED
      BY <1>1, <1>2, <3>1 DEF BetweenChunks, Cut
  <2>2. CASE ~clientDisconnected
    <3>1. ~ServerGone /\ BetweenChunks
      BY <1>5 DEF StreamChunk, ServerGone, ServerEnds, BetweenChunks
    <3>2. Send(Item("code", "PARTIALOUT")) /\ UNCHANGED <<client, remaining, outcode>>
      BY <1>5, <2>2 DEF StreamChunk
    <3>3. petition' = "size"
      BY <1>4, <1>5, <2>2, <3>1 DEF StreamChunk
    <3>4. Sends(Item("code", "PARTIALOUT"))
      BY <3>1, <3>3 DEF Sends, Item
    <3>5. Item("code", "PARTIALOUT") \in Items
      BY <1>1, ItemTypes DEF IInv
    <3> QED
      BY <1>3, <3>1, <3>2, <3>4, <3>5
  <2> QED
    BY <2>1, <2>2
<1>6. CASE SendSize
  <2>1. PICK item : item = Item("size", command.chunks[at])
    OBVIOUS
  <2>2. ~ServerGone
    BY <1>6 DEF SendSize, ServerGone, ServerEnds
  <2>3. /\ Send(item) /\ petition = "size" /\ petition' = "data"
        /\ sent' = 0 /\ at' = at
        /\ UNCHANGED <<client, remaining, outcode>>
    BY <1>4, <1>6, <2>1, <2>2 DEF SendSize, IInv, AtSomething
  <2>4. Sends(item)
    BY <1>1, <2>1, <2>3, Fields DEF Sends, Item, IInv, AtSomething
  <2>5. item \in Items
    BY <2>1, <2>3, ItemTypes DEF IInv, Typed
  <2> QED
    BY <1>3, <2>2, <2>3, <2>4, <2>5
<1>7. CASE SendData
  <2>1. PICK item : item = Item("data", Piece(at, sent + 1))
    OBVIOUS
  <2>2. ~ServerGone
    BY <1>7 DEF SendData, ServerGone, ServerEnds
  <2>3. Send(item) /\ petition = "data" /\ UNCHANGED <<client, remaining, outcode>>
    BY <1>7, <2>1 DEF SendData
  <2>4. IF sent + 1 = command.chunks[at]
        THEN petition' = "command"
        ELSE petition' = "data" /\ sent' = sent + 1 /\ at' = at
    BY <1>4, <1>7, <2>2, <2>3 DEF SendData, NextChunk
  <2>5. Sends(item)
    BY <2>1, <2>3, <2>4 DEF Sends, Item
  <2>6. item \in Items
    BY <2>1, <2>3, ItemTypes DEF IInv, Typed
  <2> QED
    BY <1>3, <2>2, <2>3, <2>5, <2>6
<1>8. CASE returnAndClosePetition
  <2>1. PICK item : item = Item("code", result)
    OBVIOUS
  <2>2. ~ServerGone /\ BetweenChunks
    BY <1>8 DEF returnAndClosePetition, CommandDone, BetweenChunks, ServerGone, ServerEnds
  <2>3. Send(item) /\ petition' = "closed" /\ UNCHANGED <<client, remaining, outcode, result>>
    BY <1>8, <2>1 DEF returnAndClosePetition
  <2>4. Sends(item)
    BY <1>1, <2>1, <2>2, <2>3 DEF Sends, Item, Typed, Results
  <2>5. item \in Items
    BY <2>1, <2>3, ItemTypes DEF IInv, Typed
  <2> QED
    BY <1>3, <2>2, <2>3, <2>4, <2>5
<1>9. ASSUME NEW k \in Nat, k <= Len(down), down' = SubSeq(down, k + 1, Len(down)),
             UNCHANGED <<petition, at, sent, result>>
      PROVE  Taken(k) /\ \A i \in 1 .. Len(down') : AfterItem(i)'
  <2>1. Taken(k)
    BY <1>1, <1>9 DEF Taken
  <2> QED
    BY <1>1, <1>9, <2>1, GrammarTaken
<1>10. ASSUME down # <<>>, down' = Tail(down), UNCHANGED <<petition, at, sent, result>>
       PROVE  Taken(1) /\ Len(down) >= 1 /\ \A i \in 1 .. Len(down') : AfterItem(i)'
  <2>1. Taken(1) /\ Len(down) >= 1
    BY <1>1, <1>10 DEF Taken
  <2> QED
    BY <1>1, <1>10, <2>1, GrammarTaken
<1>11. ServerGone => petition = "closed" \/ Cut
  BY <1>1 DEF ServerGone, ServerEnds, Cut
<1>12. StreamEnded => Cut \/ client \in {"rest", "done"}
  <2> SUFFICES ASSUME StreamEnded, client \notin {"rest", "done"}, ~Cut PROVE FALSE
    OBVIOUS
  <2>1. petition = "closed" /\ down = <<>>
    BY <1>11 DEF StreamEnded
  <2>2. client \in {"code", "size", "data"}
    BY <1>1 DEF Typed, ClientEnds, Readable, AtItem
  <2> QED
    BY <1>1, <2>1, <2>2
    DEF Readable, AtItem, CodeFollows, SizeFollows, DataFollow, BetweenChunks
<1>20. ASSUME StreamEnded, client \in {"code", "size", "data"},
              UNCHANGED <<down, outcode, petition>>,
              client' \in {"code", "size", "rest", "failed"}
       PROVE  Readable'
  <2>1. Cut' /\ down' = <<>> /\ Len(down') = 0
    BY <1>12, <1>20 DEF Cut, StreamEnded
  <2>2. AtItem'
    BY <1>1, <1>20, <2>1 DEF Readable, AtItem, CodeFollows, SizeFollows
  <2> QED
    BY <2>1, <2>2 DEF Readable
<1>21. CASE RecvCode /\ StreamEnded
  <2>1. client = "code" /\ UNCHANGED <<down, outcode, petition>> /\ client' = AfterCode(outcode)
    BY <1>21 DEF RecvCode, StreamEnded
  <2>2. client' \in {"size", "rest"}
    BY <1>1, <2>1 DEF AfterCode, Readable, AtItem
  <2> QED
    BY <1>20, <1>21, <2>1, <2>2
<1>13. CASE RecvCode /\ ~StreamEnded
  <2>1. /\ client = "code" /\ down # <<>> /\ down' = Tail(down)
        /\ outcode' = down[1].value /\ client' = AfterCode(outcode')
        /\ UNCHANGED <<petition, at, sent, result>>
    BY <1>1, <1>13 DEF RecvCode
  <2>2. Len(down) >= 1 /\ IsCode(1) /\ AfterItem(1)
    BY <1>1, <1>10, <2>1 DEF Readable, AtItem, CodeFollows
  <2>3. CASE outcode' = "PARTIALOUT"
    <3>1. client' = "size"
      BY <2>1, <2>3, AfterCodeIs
    <3>2. SizeFollows(0)'
      BY <1>1, <1>10, <2>1, <2>2, <2>3 DEF AfterItem, SizeFollows, IsCode, IsSize, Taken, Cut
    <3> QED
      BY <1>10, <2>1, <2>3, <3>1, <3>2 DEF Readable, AtItem, Questions
  <2>4. CASE outcode' # "PARTIALOUT"
    <3>1. Len(down) = 1 /\ petition = "closed" /\ outcode' = result
      BY <2>1, <2>2, <2>4 DEF AfterItem
    <3>2. client' = "rest"
      BY <1>1, <2>1, <3>1, AfterCodeIs DEF Typed
    <3>3. down' = <<>>
      BY <1>1, <2>1, <3>1
    <3>4. outcode' \notin Questions
      BY <1>1, <2>1, <3>1 DEF Typed, Results, Questions
    <3> QED
      BY <1>10, <2>1, <3>1, <3>2, <3>3, <3>4 DEF Readable, AtItem
  <2> QED
    BY <2>3, <2>4
<1>22. CASE (RecvSize \/ RecvData) /\ StreamEnded
  <2>1. /\ client \in {"size", "data"} /\ UNCHANGED <<down, outcode, petition>>
        /\ client' \in {"failed", "code"}
    <3>1. CASE RecvSize
      BY <1>22, <3>1 DEF RecvSize, StreamEnded
    <3>2. CASE RecvData
      <4>1. client = "data" /\ remaining \in Nat /\ down = <<>>
        BY <1>1, <1>22, <3>2 DEF RecvData, Readable, AtItem, StreamEnded
      <4>2. ~(Arrived > 0)
        BY <4>1 DEF Arrived
      <4> QED
        BY <3>2, <4>1, <4>2 DEF RecvData
    <3> QED
      BY <1>22, <3>1, <3>2
  <2> QED
    BY <1>20, <1>22, <2>1
<1>14. CASE RecvSize /\ ~StreamEnded
  <2>1. /\ client = "size" /\ down # <<>> /\ down' = Tail(down)
        /\ remaining' = down[1].value /\ client' = "data"
        /\ UNCHANGED <<command, petition, at, sent, result, outcode>>
    BY <1>1, <1>14 DEF RecvSize
  <2>2. Len(down) >= 1 /\ IsSize(1) /\ AfterItem(1)
    BY <1>1, <1>10, <2>1 DEF Readable, AtItem, SizeFollows
  <2>3. PICK n \in Nat \ {0} : n = down[1].value /\ DataFollow(1, n)
    BY <2>2 DEF AfterItem, IsSize
  <2>4. DataFollow(1 - 1, n)'
    BY <1>10, <2>1, <2>3, DataFollowsTaken
  <2>5. DataFollow(0, n)' /\ remaining' = n
    BY <2>1, <2>3, <2>4
  <2>6. DataFollow(0, remaining)'
    BY <2>5
  <2> QED
    BY <1>1, <1>10, <2>1, <2>3, <2>5, <2>6 DEF Readable, AtItem
<1>15. CASE RecvData /\ ~StreamEnded
  <2>1. /\ client = "data" /\ ~StreamEnded
        /\ remaining \in Nat \ {0} /\ DataFollow(0, remaining)
    BY <1>1, <1>15 DEF RecvData, Readable, AtItem
  <2>2. PICK k \in Nat \ {0} : k = Arrived /\ k <= Len(down) /\ k <= remaining
    <3>1. Arrived > 0
      BY <1>15, <2>1 DEF RecvData
    <3> QED
      BY <1>1, <2>1, <3>1 DEF Arrived
  <2>3. /\ remaining' = remaining - k
        /\ down' = SubSeq(down, k + 1, Len(down))
        /\ client' = IF k = remaining THEN "code" ELSE "data"
        /\ UNCHANGED <<command, petition, at, sent, result, outcode>>
    BY <1>15, <2>1, <2>2 DEF RecvData
  <2>4. Taken(k) /\ \A i \in 1 .. Len(down') : AfterItem(i)'
    BY <1>9, <2>2, <2>3
  <2>5. CASE k = remaining
    <3>1. CodeFollows(k)
      BY <1>1, <2>1, <2>2, <2>5 DEF DataFollow
    <3>2. CodeFollows(0)'
      BY <2>3, <2>4, <3>1 DEF CodeFollows, IsCode, Taken, BetweenChunks, Cut
    <3> QED
      BY <1>1, <2>3, <2>4, <2>5, <3>2 DEF Readable, AtItem
  <2>6. CASE k # remaining
    <3>1. PICK n \in Nat \ {0} : n = remaining - k
      BY <2>1, <2>2, <2>6
    <3>2. DataFollow(k, n)
      <4>1. AreData(k + 1, k + n)
        BY <2>1, <2>2, <3>1 DEF DataFollow, AreData
      <4>2. k + n = 0 + remaining
        BY <2>1, <3>1
      <4> QED
        BY <2>1, <4>1, <4>2 DEF DataFollow
    <3>3. DataFollow(k - k, n)'
      BY <2>3, <2>4, <3>2, DataFollowsTaken
    <3>4. DataFollow(0, n)' /\ remaining' = n /\ client' = "data"
      BY <2>3, <2>6, <3>1, <3>3
    <3>5. DataFollow(0, remaining)'
      BY <3>4
    <3> QED
      BY <1>1, <2>3, <2>4, <3>1, <3>4, <3>5 DEF Readable, AtItem
  <2> QED
    BY <2>5, <2>6
<1>16. CASE RecvRest
  <2>1. /\ StreamEnded /\ client = "rest" /\ client' = "done"
        /\ UNCHANGED <<down, petition, outcode, result>>
    BY <1>16 DEF RecvRest
  <2> QED
    BY <1>1, <2>1 DEF Readable, AtItem, StreamEnded, Cut
<1>17. CASE UNCHANGED vars
  BY <1>1, <1>2, <1>17 DEF vars
<1>23. CASE Crash
  <2>1. /\ UNCHANGED <<down, client, remaining, outcode, command, at, sent>>
        /\ petition # "closed" /\ Cut'
    BY <1>23 DEF Crash, ServerGone, ServerEnds, Cut
  <2> QED
    BY <1>2, <2>1
<1>18. ~(RecvQuestion \/ Die \/ SendQuestion \/ DeleteNode \/ AskOther \/ RecvReply)
  BY <1>1 DEF RecvQuestion, Die, SendQuestion, DeleteNode, AskOther, RecvReply, Alive
<1>19. \A reply : ~Answer(reply)
  BY <1>1 DEF Answer
<1> QED
  BY <1>5, <1>6, <1>7, <1>8, <1>13, <1>14, <1>15, <1>16, <1>17, <1>18, <1>19, <1>21, <1>22,
     <1>23
  DEF Next, ClientStep, ServerStep

-----------------------------------------------------------------------------
(* The turns of the other commands *)

(* While both live, every item of the stream is one that was sent. *)
LEMMA StreamTypedNext == IInv /\ [Next]_vars => StreamTyped'
<1> SUFFICES ASSUME IInv, [Next]_vars, Alive' PROVE down' \in Seq(Items)
  BY DEF StreamTyped
<1>1. Alive /\ Typed /\ AtSomething /\ down \in Seq(Items)
  BY LiveBefore DEF IInv, StreamTyped
<1>2. ASSUME NEW item \in Items, Send(item) PROVE down' \in Seq(Items)
  BY <1>1, <1>2 DEF Send
<1>3. /\ \A code \in Questions \cup Results \cup {"PARTIALOUT"} :
            Item("code", code) \in Items
      /\ petition = "size" => Item("size", command.chunks[at]) \in Items
      /\ petition = "data" => Item("data", Piece(at, sent + 1)) \in Items
      /\ petition = "ask" => Item("text", Subject) \in Items
  BY <1>1, ItemTypes
<1>4. CASE RecvCode \/ RecvSize \/ RecvQuestion \/ RecvRest
  <2>1. down' = down \/ (down # <<>> /\ down' = Tail(down))
    BY <1>4 DEF RecvCode, RecvSize, RecvQuestion, RecvRest
  <2> QED
    BY <1>1, <2>1
<1>5. CASE RecvData
  <2>1. command.name = "cat"
    BY <1>5 DEF RecvData, IInv, NoOutput
  <2>2. remaining \in Nat
    BY <1>1, <1>5, <2>1 DEF RecvData, IInv, Grammar, Readable, AtItem
  <2>3. Arrived \in Nat
    BY <1>1, <2>2 DEF Arrived
  <2>4. down' = SubSeq(down, Arrived + 1, Len(down)) \/ down' = down
    BY <1>5 DEF RecvData
  <2> QED
    BY <1>1, <2>3, <2>4, SequenceEnds
<1>6. CASE StreamChunk
  BY <1>1, <1>2, <1>3, <1>6 DEF StreamChunk
<1>7. CASE SendSize \/ SendData \/ SendQuestion
  BY <1>1, <1>2, <1>3, <1>7 DEF SendSize, SendData, SendQuestion, Subject, Target
<1>8. CASE DeleteNode \/ AskOther
  <2>1. down' = down \/ Send(Item("code", "REQCONFIRM")) \/ Send(Item("code", "REQSTRING"))
    BY <1>8 DEF DeleteNode, AskOther, Ask
  <2> QED
    BY <1>1, <1>2, <1>3, <2>1 DEF Questions
<1>9. CASE returnAndClosePetition
  BY <1>1, <1>2, <1>3, <1>9 DEF returnAndClosePetition, Typed
<1>10. ASSUME UNCHANGED down PROVE down' \in Seq(Items)
  BY <1>1, <1>10
<1> QED
  BY <1>4, <1>5, <1>6, <1>7, <1>8, <1>9, <1>10
  DEF Next, ClientStep, ServerStep, Answer, Die, Crash, RecvReply, vars

(* Who ends before whom, and what the petition thread is at. *)
LEMMA PlacesNext == IInv /\ [Next]_vars => EndsAfterServer' /\ AtSomething'
<1> SUFFICES ASSUME IInv, [Next]_vars PROVE EndsAfterServer' /\ AtSomething'
  OBVIOUS
<1> USE DEF EndsAfterServer, AtSomething, IInv, clientVars, serverVars, historyVars,
            ServerGone, ServerEnds
<1>1. CASE ClientStep
  <2>1. UNCHANGED <<command, petition, at, sent>>
    BY <1>1 DEF ClientStep, RecvCode, RecvSize, RecvData, RecvQuestion, RecvRest
  <2>2. client' \in {"done", "failed"} => ServerGone
    BY <1>1 DEF ClientStep, RecvCode, RecvSize, RecvData, RecvQuestion, RecvRest,
                AfterCode, StreamEnded
  <2> QED
    BY <2>1, <2>2
<1>2. ASSUME NEW reply, Answer(reply) PROVE EndsAfterServer' /\ AtSomething'
  BY <1>2 DEF Answer
<1>3. CASE ServerStep
  <2>1. CASE StreamChunk
    BY <2>1 DEF StreamChunk, NextChunk
  <2>2. CASE SendSize
    BY <2>2, Fields DEF SendSize, NextChunk
  <2>3. CASE SendData
    <3>1. sent \in Nat /\ command.chunks[at] \in Nat /\ sent < command.chunks[at]
      BY <2>3, Fields DEF SendData, Typed
    <3> QED
      BY <2>3, <3>1 DEF SendData, NextChunk
  <2>4. CASE SendQuestion
    BY <2>4 DEF SendQuestion
  <2>5. CASE DeleteNode
    BY <2>5 DEF DeleteNode, Ask
  <2>6. CASE AskOther
    BY <2>6 DEF AskOther, Ask
  <2>7. CASE RecvReply
    <3>1. /\ UNCHANGED <<client, command, sent>> /\ petition = "wait"
          /\ \/ petition' \in {"command", "finish"}
             \/ petition' = "wait" /\ command.name # "rm"
      <4>1. PICK reply : Obey(reply)
        BY <2>7 DEF RecvReply
      <4>2. \/ petition' \in {"command", "finish"}
            \/ petition' = "wait" /\ command.name # "rm"
        BY <4>1 DEF Obey
      <4> QED
        BY <2>7, <4>2 DEF RecvReply
    <3> QED
      BY <3>1
  <2>8. CASE returnAndClosePetition
    BY <2>8 DEF returnAndClosePetition, CommandDone
  <2> QED
    BY <1>3, <2>1, <2>2, <2>3, <2>4, <2>5, <2>6, <2>7, <2>8 DEF ServerStep
<1>4. CASE Die \/ Crash
  BY <1>4 DEF Die, Crash
<1>5. CASE UNCHANGED vars
  BY <1>5 DEF vars
<1> QED
  BY <1>1, <1>2, <1>3, <1>4, <1>5 DEF Next

(* The client and the petition thread take turns. *)
LEMMA DialogueNext == IInv /\ [Next]_vars => Dialogue'
<1> DEFINE Turns ==
      /\ petition \in {"command", "finish"} =>
            client = "code" /\ down = <<>> /\ up = <<>>
      /\ petition = "ask" => Asking
      /\ petition = "wait" => Waiting
      /\ petition = "closed" => Closed
<1> SUFFICES ASSUME IInv, [Next]_vars, BothLive', command'.name # "cat"
             PROVE  Turns'
  BY DEF Dialogue
<1> USE DEF clientVars, serverVars, historyVars
<1>1. /\ command' = command /\ command.name # "cat" /\ BothLive
      /\ down \in Seq(Items) /\ up \in Seq(AllReplies)
      /\ Typed /\ AtSomething /\ EndsAfterServer /\ Turns
      /\ petition \notin {"size", "data"}
      /\ command.name \in {"rm", "deleteversions", "passwd"}
  BY LiveBefore, Fields DEF IInv, Dialogue, StreamTyped, BothLive, Typed, AtSomething
<1>2. petition \in {"command", "finish", "ask", "wait", "closed"}
  BY <1>1 DEF Typed, ServerEnds, BothLive, Alive, Cut
<1>3. CASE RecvCode
  <2>1. ~StreamEnded
    BY <1>1, <1>3 DEF RecvCode, StreamEnded, ServerGone, ServerEnds, BothLive, Alive, Cut, Closed
  <2>2. /\ client = "code" /\ down # <<>> /\ down' = Tail(down)
        /\ outcode' = down[1].value /\ client' = AfterCode(outcode')
        /\ UNCHANGED <<up, petition, answers, result, at, asked>>
    BY <1>1, <1>3, <2>1 DEF RecvCode
  <2>3. CASE petition = "ask"
    <3>1. client' = "question" /\ down' = <<>> /\ up = <<>>
      BY <1>1, <2>2, <2>3, AfterCodeIs DEF Asking, IsQuestionCode
    <3> QED
      BY <2>2, <2>3, <3>1 DEF Asking
  <2>4. CASE petition = "wait"
    <3>1. up = <<>> /\ Len(down) = 2 /\ IsQuestionCode(1) /\ IsQuestion(2)
      BY <1>1, <2>2, <2>4 DEF Waiting
    <3>2. client' = "question" /\ Len(down') = 1 /\ down'[1] = down[2]
      BY <1>1, <2>2, <3>1, AfterCodeIs, SequenceEnds DEF IsQuestionCode
    <3> QED
      BY <1>1, <2>2, <2>4, <3>1, <3>2 DEF Waiting, IsQuestion, Subject, Target
  <2>5. CASE petition = "closed"
    <3>1. client' = "rest" /\ down' = <<>> /\ outcode' = result /\ up = <<>>
      BY <1>1, <2>2, <2>5, AfterCodeIs DEF Closed, Typed
    <3> QED
      BY <2>2, <2>5, <3>1 DEF Closed
  <2> QED
    BY <1>1, <1>2, <2>2, <2>3, <2>4, <2>5
<1>4. CASE RecvQuestion
  <2>1. ~StreamEnded
    BY <1>1, <1>4 DEF RecvQuestion, StreamEnded, ServerGone, ServerEnds, BothLive, Alive, Cut, Closed
  <2>2. /\ client = "question" /\ down # <<>> /\ down' = Tail(down)
        /\ asked' = down[1].value /\ client' \in {"question", "answer"}
        /\ UNCHANGED <<up, petition, at>>
    BY <1>1, <1>4, <2>1 DEF RecvQuestion
  <2>3. petition = "wait" /\ up = <<>> /\ Len(down) = 1 /\ IsQuestion(1)
    BY <1>1, <1>2, <2>2 DEF Asking, Waiting, Closed
  <2>4. down' = <<>> /\ asked' = Subject
    BY <1>1, <2>2, <2>3 DEF IsQuestion
  <2> QED
    BY <1>1, <2>2, <2>3, <2>4 DEF Waiting, Subject, Target
<1>5. ASSUME NEW reply, Answer(reply) PROVE Turns'
  <2>1. client = "answer" /\ UNCHANGED <<down, petition, at>>
    BY <1>5 DEF Answer
  <2>2. petition = "wait" /\ up = <<>> /\ down = <<>> /\ asked = Subject
    BY <1>1, <1>2, <2>1 DEF Asking, Waiting, Closed
  <2>3. /\ up' = <<reply>> /\ client' = "code"
        /\ answers' = answers \cup {<<asked, reply>>}
    BY <1>1, <1>5, <2>2 DEF Answer, ServerGone, ServerEnds
  <2> QED
    BY <1>1, <2>1, <2>2, <2>3 DEF Waiting, Subject, Target
<1>6. CASE RecvRest
  BY <1>1, <1>2, <1>6 DEF RecvRest, Asking, Waiting, Closed
<1>7. ~RecvSize /\ ~RecvData /\ ~StreamChunk /\ ~SendSize /\ ~SendData /\ ~Die /\ ~Crash
  BY <1>1, <1>2 DEF RecvSize, RecvData, StreamChunk, SendSize, SendData, Die, Crash,
     Asking, Waiting, Closed, BothLive, Alive, Cut
<1>8. ASSUME petition = "command", NEW code \in Questions, Ask(code), UNCHANGED <<up, client>>
      PROVE  Turns'
  <2>1. down' = <<Item("code", code)>>
    BY <1>1, <1>8 DEF Ask, Send, ClientGone, ClientEnds
  <2> QED
    BY <1>1, <1>8, <2>1 DEF Ask, Asking, IsQuestionCode, IsCode, Item
<1>9. CASE DeleteNode
  <2>1. CASE Ask("REQCONFIRM")
    BY <1>8, <1>9, <2>1 DEF DeleteNode, Questions
  <2>2. CASE ~Ask("REQCONFIRM")
    BY <1>1, <1>9, <2>2 DEF DeleteNode
  <2> QED
    BY <2>1, <2>2
<1>10. CASE AskOther
  BY <1>8, <1>10 DEF AskOther, Questions
<1>11. CASE SendQuestion
  <2>1. /\ petition = "ask" /\ petition' = "wait" /\ UNCHANGED <<client, up, at>>
        /\ Send(Item("text", Subject))
    BY <1>11 DEF SendQuestion, Subject, Target
  <2>2. down' = Append(down, Item("text", Subject)) /\ Asking
    BY <1>1, <2>1 DEF Send, ClientGone, ClientEnds, Asking
  <2>3. CASE client = "code"
    <3>1. Len(down') = 2 /\ down'[1] = down[1] /\ down'[2] = Item("text", Subject)
      <4>1. Len(down) = 1
        BY <2>2, <2>3 DEF Asking
      <4> QED
        BY <1>1, <2>2, <4>1, SequenceEnds
    <3> QED
      BY <1>1, <2>1, <2>2, <2>3, <3>1
      DEF Asking, Waiting, IsQuestionCode, IsCode, IsQuestion, Item, Subject, Target
  <2>4. CASE client = "question"
    <3>1. Len(down') = 1 /\ down'[1] = Item("text", Subject)
      BY <1>1, <2>2, <2>4 DEF Asking
    <3> QED
      BY <1>1, <2>1, <2>2, <2>4, <3>1 DEF Asking, Waiting, IsQuestion, Item, Subject, Target
  <2> QED
    BY <2>2, <2>3, <2>4 DEF Asking
<1>12. CASE RecvReply
  <2>1. /\ client = "code" /\ down = <<>> /\ Len(up) = 1 /\ petition = "wait"
        /\ UNCHANGED <<client, down>> /\ up' = Tail(up)
        /\ Obey(up[1])
    <3>1. petition = "wait" /\ Waiting /\ ~ClientGone
      BY <1>1, <1>12 DEF RecvReply, Waiting, ClientGone, ClientEnds, BothLive, Alive, Cut
    <3> QED
      BY <1>1, <1>12, <3>1 DEF RecvReply, Waiting
  <2>2. up' = <<>>
    <3>1. Len(up) = 1 => Tail(up) = <<>>
      BY <1>1, SequenceEnds
    <3> QED
      BY <2>1, <3>1
  <2>3. \/ petition' \in {"command", "finish"}
        \/ petition' = "wait" /\ command.name = "passwd"
    BY <2>1 DEF Obey
  <2> QED
    BY <1>1, <2>1, <2>2, <2>3 DEF Waiting
<1>13. CASE returnAndClosePetition
  <2>1. client = "code" /\ down = <<>> /\ up = <<>> /\ petition' = "closed"
    BY <1>1, <1>13 DEF returnAndClosePetition, CommandDone
  <2>2. down' = <<Item("code", result)>> /\ UNCHANGED <<client, up, result>>
    BY <1>13, <2>1 DEF returnAndClosePetition, Send, ClientGone, ClientEnds
  <2> QED
    BY <2>1, <2>2 DEF Closed, IsCode, Item
<1>14. CASE UNCHANGED vars
  BY <1>1, <1>14 DEF vars, Asking, Waiting, Closed, IsQuestionCode, IsQuestion, IsCode,
     Subject, Target
<1> QED
  BY <1>3, <1>4, <1>5, <1>6, <1>7, <1>9, <1>10, <1>11, <1>12, <1>13, <1>14
  DEF Next, ClientStep, ServerStep

-----------------------------------------------------------------------------
(* What is written *)

(* A command that does not stream writes nothing: the client never takes an *)
(* item for the code of a partial output, not even after a crash.           *)
LEMMA NoOutputNext == IInv /\ [Next]_vars => NoOutput'
<1> SUFFICES ASSUME IInv, [Next]_vars, command'.name # "cat"
             PROVE  /\ printed' = <<>>
                    /\ outcode' # "PARTIALOUT" /\ client' \notin {"size", "data"}
                    /\ Alive' /\ Cut' /\ client' = "code" => down' = <<>> \/ IsQuestionCode(1)'
  BY DEF NoOutput
<1> USE DEF clientVars, serverVars, historyVars
<1>1. /\ command' = command /\ command.name # "cat" /\ printed = <<>>
      /\ outcode # "PARTIALOUT" /\ client \notin {"size", "data"}
      /\ Alive /\ Cut /\ client = "code" => down = <<>> \/ IsQuestionCode(1)
      /\ petition \notin {"size", "data"} /\ Typed
  BY LiveBefore DEF IInv, NoOutput, AtSomething
<1>2. Alive /\ client = "code" /\ down # <<>> =>
         IsQuestionCode(1) \/ (petition = "closed" /\ down[1].value = result)
  <2>1. CASE Cut
    BY <1>1, <2>1
  <2>2. CASE ~Cut
    <3> SUFFICES ASSUME Alive, client = "code", down # <<>>
                 PROVE  IsQuestionCode(1) \/ (petition = "closed" /\ down[1].value = result)
      OBVIOUS
    <3>1. petition \in {"command", "finish", "ask", "wait", "closed"}
      BY <1>1, <2>2 DEF Typed, ServerEnds, Cut
    <3> QED
      BY <1>1, <2>2, <3>1 DEF IInv, Dialogue, BothLive, Asking, Waiting, Closed
  <2> QED
    BY <2>1, <2>2
<1>3. CASE RecvCode
  <2>1. client = "code" /\ client' = AfterCode(outcode') /\ Alive /\ printed' = printed
    BY <1>3 DEF RecvCode, Alive
  <2>2. outcode' # "PARTIALOUT"
    <3>1. CASE down # <<>> /\ outcode' = Head(down).value
      <4>1. outcode' = down[1].value
        BY <3>1
      <4> QED
        BY <1>1, <1>2, <2>1, <3>1, <4>1 DEF IsQuestionCode, Questions, Typed, Results
    <3>2. CASE outcode' = outcode
      BY <1>1, <3>2
    <3> QED
      BY <1>3, <3>1, <3>2 DEF RecvCode
  <2> QED
    BY <1>1, <2>1, <2>2 DEF AfterCode
<1>4. CASE RecvQuestion \/ RecvRest
  BY <1>1, <1>4 DEF RecvQuestion, RecvRest
<1>5. ASSUME NEW reply, Answer(reply)
      PROVE  /\ UNCHANGED <<printed, outcode>> /\ client' \in {"failed", "code"}
             /\ client' = "code" => ~Cut'
  BY <1>5 DEF Answer, ServerGone, ServerEnds, Cut
<1>6. CASE ServerStep
  <2>1. UNCHANGED <<printed, outcode, client>>
    BY <1>6 DEF ServerStep, StreamChunk, SendSize, SendData, SendQuestion, DeleteNode, AskOther,
       RecvReply, returnAndClosePetition
  <2>2. ~Cut'
    <3>1. CASE RecvReply
      <4>1. PICK reply : Obey(reply)
        BY <3>1 DEF RecvReply
      <4> QED
        BY <3>1, <4>1 DEF RecvReply, Obey, Cut
    <3>2. CASE DeleteNode
      BY <3>2 DEF DeleteNode, Ask, Cut
    <3> QED
      BY <1>1, <1>6, <3>1, <3>2
      DEF ServerStep, StreamChunk, SendSize, SendData, SendQuestion, AskOther, Ask,
          returnAndClosePetition, Cut, NextChunk
  <2> QED
    BY <1>1, <2>1, <2>2
<1>7. CASE Crash
  <2>1. UNCHANGED <<printed, outcode, client, down>> /\ petition # "closed"
    BY <1>7 DEF Crash, ServerGone, ServerEnds
  <2> QED
    BY <1>1, <1>2, <2>1 DEF Alive, IsQuestionCode, IsCode
<1>8. CASE Die
  BY <1>1, <1>8 DEF Die, Alive
<1>9. CASE UNCHANGED vars
  BY <1>1, <1>9 DEF vars, Alive, Cut, IsQuestionCode, IsCode
<1>10. ~RecvSize /\ ~RecvData
  BY <1>1 DEF RecvSize, RecvData
<1>11. ASSUME NEW reply, Answer(reply)
       PROVE  /\ printed' = <<>>
              /\ outcode' # "PARTIALOUT" /\ client' \notin {"size", "data"}
              /\ Alive' /\ Cut' /\ client' = "code" => down' = <<>> \/ IsQuestionCode(1)'
  BY <1>1, <1>5, <1>11
<1> QED
  BY <1>3, <1>4, <1>6, <1>7, <1>8, <1>9, <1>10, <1>11 DEF Next, ClientStep

(* cat gives up only when it has seen that the client is gone. *)
LEMMA SendsAllNext == IInv /\ [Next]_vars => SendsAll'
<1> SUFFICES ASSUME IInv, [Next]_vars, Alive', command'.name = "cat"
             PROVE  /\ petition' # "finish" /\ clientDisconnected' = FALSE
                    /\ petition' = "closed" => at' > Len(command'.chunks)
  BY DEF SendsAll
<1> USE DEF clientVars, serverVars, historyVars
<1>1. /\ command' = command /\ command.name = "cat" /\ Alive
      /\ petition # "finish" /\ clientDisconnected = FALSE
      /\ petition = "closed" => at > Len(command.chunks)
      /\ petition \notin {"ask", "wait"}
  BY LiveBefore DEF IInv, SendsAll, AtSomething
<1>2. CASE StreamChunk
  <2>1. /\ petition = "command" /\ clientDisconnected' = ClientGone
        /\ petition' \in {"command", "size"}
    BY <1>1, <1>2 DEF StreamChunk, NextChunk
  <2>2. ClientGone = FALSE
    BY <1>1, <2>1 DEF IInv, EndsAfterServer, ClientGone, ClientEnds, Alive, ServerGone, ServerEnds
  <2> QED
    BY <2>1, <2>2
<1>3. CASE SendSize \/ SendData
  BY <1>1, <1>3 DEF SendSize, SendData, NextChunk
<1>4. CASE returnAndClosePetition
  BY <1>1, <1>4 DEF returnAndClosePetition, CommandDone
<1>5. ~SendQuestion /\ ~DeleteNode /\ ~AskOther /\ ~RecvReply
  BY <1>1 DEF SendQuestion, DeleteNode, AskOther, RecvReply
<1>6. CASE Crash
  BY <1>1, <1>6 DEF Crash
<1>7. ASSUME UNCHANGED <<petition, at, clientDisconnected>>
      PROVE  /\ petition' # "finish" /\ clientDisconnected' = FALSE
             /\ petition' = "closed" => at' > Len(command'.chunks)
  BY <1>1, <1>7
<1>8. CASE ClientStep \/ Die \/ UNCHANGED vars
  BY <1>7, <1>8 DEF ClientStep, RecvCode, RecvSize, RecvData, RecvQuestion, RecvRest, Die, vars
<1>9. ASSUME NEW reply, Answer(reply) PROVE UNCHANGED <<petition, at, clientDisconnected>>
  BY <1>9 DEF Answer
<1> QED
  BY <1>2, <1>3, <1>4, <1>5, <1>6, <1>7, <1>8, <1>9 DEF Next, ServerStep

(* Taking items off the stream leaves what is pending in order. *)
LEMMA PendingTaken ==
    ASSUME NEW k \in Nat, Taken(k), PendingInOrder
    PROVE  /\ PendingInOrder'
           /\ \A d : d \in Pending' <=>
                 \E i \in k + 1 .. Len(down) : down[i].kind = "data" /\ d = down[i].value
<1>1. /\ Len(down) \in Nat /\ k <= Len(down) /\ Len(down') = Len(down) - k
      /\ \A j \in 1 .. Len(down') : down'[j] = down[j + k]
  BY DEF Taken
<1>2. PendingInOrder'
  <2> SUFFICES ASSUME NEW i \in 1 .. Len(down'), NEW j \in 1 .. Len(down'), i < j,
                      down'[i].kind = "data", down'[j].kind = "data"
               PROVE  Before(down'[i].value, down'[j].value)
    BY DEF PendingInOrder, Before
  <2>1. /\ i + k \in 1 .. Len(down) /\ j + k \in 1 .. Len(down) /\ i + k < j + k
        /\ down'[i] = down[i + k] /\ down'[j] = down[j + k]
    BY <1>1
  <2> QED
    BY <2>1 DEF PendingInOrder
<1>3. ASSUME NEW d, d \in Pending'
      PROVE  \E i \in k + 1 .. Len(down) : down[i].kind = "data" /\ d = down[i].value
  <2>1. PICK j \in 1 .. Len(down') : down'[j].kind = "data" /\ d = down'[j].value
    BY <1>3 DEF Pending
  <2>2. j + k \in k + 1 .. Len(down) /\ down'[j] = down[j + k]
    BY <1>1
  <2> QED
    BY <2>1, <2>2
<1>4. ASSUME NEW i \in k + 1 .. Len(down), down[i].kind = "data"
      PROVE  down[i].value \in Pending'
  <2>1. i - k \in 1 .. Len(down') /\ down'[i - k] = down[i]
    BY <1>1
  <2> QED
    BY <1>4, <2>1 DEF Pending
<1> QED
  BY <1>2, <1>3, <1>4

(* What an item that is sent adds to what is pending. *)
LEMMA PendingAppended ==
    ASSUME NEW item, Appended(item)
    PROVE  \A d : d \in Pending' <=> d \in Pending \/ (item.kind = "data" /\ d = item.value)
<1>1. /\ Len(down) \in Nat /\ Len(down') = Len(down) + 1
      /\ \A i \in 1 .. Len(down) : down'[i] = down[i]
      /\ down'[Len(down) + 1] = item
  BY DEF Appended
<1>2. ASSUME NEW d, d \in Pending' PROVE d \in Pending \/ (item.kind = "data" /\ d = item.value)
  <2>1. PICK i \in 1 .. Len(down') : down'[i].kind = "data" /\ d = down'[i].value
    BY <1>2 DEF Pending
  <2>2. CASE i = Len(down) + 1
    BY <1>1, <2>1, <2>2
  <2>3. CASE i # Len(down) + 1
    <3>1. i \in 1 .. Len(down) /\ down'[i] = down[i]
      BY <1>1, <2>3
    <3> QED
      BY <2>1, <3>1 DEF Pending
  <2> QED
    BY <2>2, <2>3
<1>3. ASSUME NEW d, d \in Pending PROVE d \in Pending'
  <2>1. PICK i \in 1 .. Len(down) : down[i].kind = "data" /\ d = down[i].value
    BY <1>3 DEF Pending
  <2>2. i \in 1 .. Len(down') /\ down'[i] = down[i]
    BY <1>1
  <2> QED
    BY <2>1, <2>2 DEF Pending
<1>4. item.kind = "data" => item.value \in Pending'
  <2>1. Len(down) + 1 \in 1 .. Len(down')
    BY <1>1
  <2> QED
    BY <1>1, <2>1 DEF Pending
<1> QED
  BY <1>2, <1>3, <1>4

(* Appending keeps it in order, if the item comes after what is pending.    *)
LEMMA OrderAppended ==
    ASSUME NEW item, Appended(item), PendingInOrder,
           item.kind = "data" => \A d \in Pending : Before(d, item.value)
    PROVE  PendingInOrder'
<1>1. /\ Len(down) \in Nat /\ Len(down') = Len(down) + 1
      /\ \A i \in 1 .. Len(down) : down'[i] = down[i]
      /\ down'[Len(down) + 1] = item
  BY DEF Appended
<1> SUFFICES ASSUME NEW i \in 1 .. Len(down'), NEW j \in 1 .. Len(down'), i < j,
                    down'[i].kind = "data", down'[j].kind = "data"
             PROVE  Before(down'[i].value, down'[j].value)
  BY DEF PendingInOrder, Before
<1>2. i \in 1 .. Len(down) /\ down'[i] = down[i] /\ down[i].value \in Pending
  <2>1. i \in 1 .. Len(down) /\ down'[i] = down[i]
    BY <1>1
  <2> QED
    BY <2>1 DEF Pending
<1>3. CASE j = Len(down) + 1
  BY <1>1, <1>2, <1>3
<1>4. CASE j # Len(down) + 1
  <2>1. j \in 1 .. Len(down) /\ down'[j] = down[j]
    BY <1>1, <1>4
  <2> QED
    BY <1>2, <2>1 DEF PendingInOrder
<1> QED
  BY <1>3, <1>4

(* The next piece is the one after all that were sent. *)
LEMMA SentOneMore ==
    ASSUME Typed, AtSomething, petition = "data", command' = command,
           IF sent + 1 = command.chunks[at] THEN at' = at + 1 /\ sent' = 0
                                            ELSE at' = at /\ sent' = sent + 1
    PROVE  /\ SentPieces' = SentPieces \cup {Piece(at, sent + 1)}
           /\ \A p \in SentPieces : Before(p, Piece(at, sent + 1))
<1>1. /\ at \in 1 .. Len(command.chunks) /\ sent + 1 \in 1 .. command.chunks[at]
      /\ command.chunks[at] \in Nat /\ sent \in Nat
  BY Fields DEF AtSomething, Typed
<1>2. Piece(at, sent + 1) \in Contents /\ Contents' = Contents
  BY <1>1, ContentsAre DEF Contents
<1>3. ASSUME NEW p \in Contents
      PROVE  Before(p, Piece(at', sent' + 1))
             <=> Before(p, Piece(at, sent + 1)) \/ p = Piece(at, sent + 1)
  <2>1. PICK c \in 1 .. Len(command.chunks) : \E n \in 1 .. command.chunks[c] : p = Piece(c, n)
    BY <1>3, ContentsAre
  <2>2. PICK n \in 1 .. command.chunks[c] : p = Piece(c, n)
    BY <2>1
  <2>3. n \in Nat \ {0} /\ c \in Nat /\ (c = at => n <= command.chunks[at])
    BY <1>1, <2>1, <2>2
  <2>4. \A a, m \in Nat : Before(p, Piece(a, m)) <=> c < a \/ (c = a /\ n < m)
    BY <2>2 DEF Before, Piece
  <2>5. p = Piece(at, sent + 1) <=> c = at /\ n = sent + 1
    BY <2>2 DEF Piece
  <2>6. CASE sent + 1 = command.chunks[at]
    <3>1. Before(p, Piece(at', sent' + 1)) <=> c < at + 1
      BY <1>1, <2>3, <2>4, <2>6
    <3>2. Before(p, Piece(at, sent + 1)) <=> c < at \/ (c = at /\ n < sent + 1)
      BY <1>1, <2>4
    <3> QED
      BY <1>1, <2>3, <2>5, <2>6, <3>1, <3>2
  <2>7. CASE sent + 1 # command.chunks[at]
    <3>1. Before(p, Piece(at', sent' + 1)) <=> c < at \/ (c = at /\ n < sent + 1 + 1)
      BY <1>1, <2>4, <2>7
    <3>2. Before(p, Piece(at, sent + 1)) <=> c < at \/ (c = at /\ n < sent + 1)
      BY <1>1, <2>4
    <3> QED
      BY <1>1, <2>3, <2>5, <3>1, <3>2
  <2> QED
    BY <2>6, <2>7
<1>4. SentPieces' = {p \in Contents : Before(p, Piece(at', sent' + 1))}
  BY <1>2 DEF SentPieces, Before, Piece
<1> QED
  BY <1>2, <1>3, <1>4 DEF SentPieces

(* One read of output: k pieces, and junk for the others of the buffer. *)
LEMMA TakesPieces ==
    ASSUME IInv, RecvData, Arrived > 0
    PROVE  /\ command.name = "cat" /\ Alive
           /\ UNCHANGED <<command, at, sent>>
           /\ \E k \in Nat \ {0} :
                /\ remaining \in Nat /\ k <= remaining /\ Taken(k)
                /\ \A i \in 1 .. k : down[i].kind = "data"
                /\ Len(printed') = Len(printed) + remaining
                /\ \A i \in 1 .. Len(printed) : printed'[i] = printed[i]
                /\ \A i \in 1 .. remaining :
                      printed'[Len(printed) + i] = IF i <= k THEN down[i].value ELSE Junk
                /\ printed' \in Seq(Nat \X Nat)
                /\ k # remaining => inPieces'
                /\ inPieces => inPieces'
<1> USE DEF clientVars, serverVars, historyVars
<1>1. /\ client = "data" /\ down # <<>> /\ command.name = "cat" /\ Alive
      /\ UNCHANGED <<command, at, sent>>
      /\ printed \in Seq(Nat \X Nat) /\ down \in Seq(Items)
  <2>1. client = "data" /\ command.name = "cat" /\ Alive /\ UNCHANGED <<command, at, sent>>
    BY DEF RecvData, IInv, NoOutput, Alive
  <2>2. remaining \in Nat
    BY <2>1 DEF IInv, Grammar, Readable, AtItem
  <2>3. down # <<>>
    BY <2>2 DEF Arrived
  <2> QED
    BY <2>1, <2>3 DEF IInv, StreamTyped, PrintedTyped
<1>2. remaining \in Nat \ {0} /\ AreData(1, remaining)
  <2>1. remaining \in Nat \ {0} /\ DataFollow(0, remaining)
    BY <1>1 DEF IInv, Grammar, Readable, AtItem
  <2> QED
    BY <2>1 DEF DataFollow
<1>3. PICK k \in Nat \ {0} : k = Arrived /\ k <= Len(down) /\ k <= remaining
  BY <1>1, <1>2 DEF Arrived
<1>4. /\ printed' = printed \o Printed(k)
      /\ down' = SubSeq(down, k + 1, Len(down))
  BY <1>1, <1>3 DEF RecvData, StreamEnded
<1>5. (k # remaining => inPieces') /\ (inPieces => inPieces')
  <2>1. inPieces' = (inPieces \/ k < remaining)
    BY <1>1, <1>3 DEF RecvData, StreamEnded
  <2>2. k # remaining => k < remaining
    BY <1>2, <1>3
  <2> QED
    BY <2>1, <2>2, Zenon
<1>6. Taken(k)
  BY <1>1, <1>3, <1>4 DEF Taken
<1>7. \A i \in 1 .. k : down[i].kind = "data"
  BY <1>2, <1>3 DEF AreData
<1>8. \A i \in 1 .. k : down[i].value \in Nat \X Nat
  <2> SUFFICES ASSUME NEW i \in 1 .. k PROVE down[i].value \in Nat \X Nat
    OBVIOUS
  <2>1. down[i].value \in Pending
    BY <1>1, <1>3, <1>7 DEF Pending
  <2>2. down[i].value \in Contents
    BY <1>1, <2>1 DEF IInv, Streamed, SentPieces
  <2> QED
    BY <2>2, ContentsAre DEF IInv
<1>9. Printed(k) \in Seq(Nat \X Nat) /\ Len(Printed(k)) = remaining
  <2>1. \A i \in 1 .. remaining :
           (IF i <= k THEN down[i].value ELSE Junk) \in Nat \X Nat
    BY <1>8 DEF Junk, Piece
  <2> QED
    BY <1>2, <2>1 DEF Printed
<1>10. \A i \in 1 .. remaining : Printed(k)[i] = IF i <= k THEN down[i].value ELSE Junk
  BY DEF Printed
<1>11. \A s, t \in Seq(Nat \X Nat) :
          /\ s \o t \in Seq(Nat \X Nat) /\ Len(s \o t) = Len(s) + Len(t)
          /\ \A i \in 1 .. Len(s) : (s \o t)[i] = s[i]
          /\ \A i \in 1 .. Len(t) : (s \o t)[Len(s) + i] = t[i]
  OBVIOUS
<1>12. /\ printed' \in Seq(Nat \X Nat) /\ Len(printed') = Len(printed) + remaining
       /\ \A i \in 1 .. Len(printed) : printed'[i] = printed[i]
       /\ \A i \in 1 .. remaining : printed'[Len(printed) + i] = Printed(k)[i]
  BY <1>1, <1>4, <1>9, <1>11
<1> QED
  BY <1>1, <1>2, <1>3, <1>5, <1>6, <1>7, <1>10, <1>12

(* What one read of output writes was pending until then. *)
LEMMA WrittenGrows ==
    ASSUME IInv, RecvData, Arrived > 0
    PROVE  /\ \A p : p \in Written' \/ p \in Pending' <=> p \in Written \/ p \in Pending
           /\ \A w \in Written', d \in Pending' : Before(w, d)
           /\ WrittenInOrder'
           /\ printed' \in Seq(Nat \X Nat)
           /\ (~inPieces => \A i \in 1 .. Len(printed) : printed[i] # Junk)
                 => (~inPieces' => \A i \in 1 .. Len(printed') : printed'[i] # Junk)
<1>1. command.name = "cat" /\ Alive /\ UNCHANGED <<command, at, sent>>
  BY TakesPieces
<1>2. PICK k \in Nat \ {0} :
          /\ remaining \in Nat /\ k <= remaining /\ Taken(k)
          /\ \A i \in 1 .. k : down[i].kind = "data"
          /\ Len(printed') = Len(printed) + remaining
          /\ \A i \in 1 .. Len(printed) : printed'[i] = printed[i]
          /\ \A i \in 1 .. remaining :
                printed'[Len(printed) + i] = IF i <= k THEN down[i].value ELSE Junk
          /\ printed' \in Seq(Nat \X Nat)
          /\ k # remaining => inPieces'
          /\ inPieces => inPieces'
  BY TakesPieces
<1>3. /\ PendingInOrder
      /\ \A w \in Written, d \in Pending : Before(w, d)
      /\ Written \cup Pending = SentPieces
      /\ WrittenInOrder
  BY <1>1 DEF IInv, Streamed, OutputInOrder
<1>14. /\ Len(printed) \in Nat /\ Len(down) \in Nat /\ k <= Len(down)
       /\ remaining \in Nat /\ k <= remaining /\ Len(printed') = Len(printed) + remaining
  <2>1. Len(printed) \in Nat
    BY DEF IInv, PrintedTyped
  <2> QED
    BY <1>2, <2>1 DEF Taken
<1>4. \A d : d \in Pending' <=>
         \E i \in k + 1 .. Len(down) : down[i].kind = "data" /\ d = down[i].value
  BY <1>2, <1>3, PendingTaken
<1>5. \A i \in 1 .. k : down[i].value \in Pending /\ down[i].value # Junk
  <2> SUFFICES ASSUME NEW i \in 1 .. k PROVE down[i].value \in Pending /\ down[i].value # Junk
    OBVIOUS
  <2>1. down[i].value \in Pending
    <3>1. i \in 1 .. Len(down) /\ down[i].kind = "data"
      BY <1>2, <1>14
    <3> QED
      BY <3>1 DEF Pending
  <2>2. down[i].value \in Contents
    BY <1>3, <2>1 DEF SentPieces
  <2> QED
    BY <2>1, <2>2, ContentsAre DEF IInv
<1>6. \A i \in 1 .. Len(printed') :
         \/ i \in 1 .. Len(printed) /\ printed'[i] = printed[i]
         \/ i - Len(printed) \in 1 .. k /\ printed'[i] = down[i - Len(printed)].value
         \/ i - Len(printed) \in k + 1 .. remaining /\ printed'[i] = Junk
  <2> SUFFICES ASSUME NEW i \in 1 .. Len(printed')
               PROVE  \/ i \in 1 .. Len(printed) /\ printed'[i] = printed[i]
                      \/ i - Len(printed) \in 1 .. k /\ printed'[i] = down[i - Len(printed)].value
                      \/ i - Len(printed) \in k + 1 .. remaining /\ printed'[i] = Junk
    OBVIOUS
  <2>1. CASE i \in 1 .. Len(printed)
    BY <1>2, <2>1
  <2>2. CASE i \notin 1 .. Len(printed)
    <3>1. i - Len(printed) \in 1 .. remaining
      BY <1>14, <2>2
    <3>2. PICK j \in 1 .. remaining : j = i - Len(printed)
      BY <3>1
    <3>3. Len(printed) + j = i
      BY <1>14, <3>2
    <3>4. printed'[i] = IF j <= k THEN down[j].value ELSE Junk
      BY <1>2, <3>3
    <3>5. j \in 1 .. k \/ (~(j <= k) /\ j \in k + 1 .. remaining)
      BY <1>14, <3>2
    <3> QED
      BY <3>2, <3>4, <3>5
  <2> QED
    BY <2>1, <2>2
<1>7. \A p : p \in Written' <=> p \in Written \/ \E i \in 1 .. k : p = down[i].value
  <2>1. ASSUME NEW p, p \in Written' PROVE p \in Written \/ \E i \in 1 .. k : p = down[i].value
    BY <1>6, <2>1 DEF Written
  <2>2. ASSUME NEW p \in Written PROVE p \in Written'
    <3>1. PICK i \in 1 .. Len(printed) : p = printed[i] /\ p # Junk
      BY <2>2 DEF Written
    <3>2. i \in 1 .. Len(printed') /\ printed'[i] = p
      BY <1>2, <1>14, <3>1
    <3> QED
      BY <3>1, <3>2 DEF Written, Junk, Piece
  <2>3. ASSUME NEW i \in 1 .. k PROVE down[i].value \in Written'
    <3>1. i \in 1 .. remaining /\ Len(printed) + i \in 1 .. Len(printed')
      BY <1>14
    <3>2. \A m \in 1 .. remaining :
             printed'[Len(printed) + m] = IF m <= k THEN down[m].value ELSE Junk
      BY <1>2
    <3>3. printed'[Len(printed) + i] = down[i].value
      BY <3>1, <3>2
    <3> QED
      BY <1>5, <3>1, <3>3 DEF Written, Junk, Piece
  <2> QED
    BY <2>1, <2>2, <2>3
<1>8. \A p : p \in Pending <=> p \in Pending' \/ \E i \in 1 .. k : p = down[i].value
  <2>1. ASSUME NEW p \in Pending PROVE p \in Pending' \/ \E i \in 1 .. k : p = down[i].value
    <3>1. PICK i \in 1 .. Len(down) : down[i].kind = "data" /\ p = down[i].value
      BY <2>1 DEF Pending
    <3>2. i \in 1 .. k \/ i \in k + 1 .. Len(down)
      BY <1>14
    <3> QED
      BY <1>4, <3>1, <3>2
  <2>2. ASSUME NEW p \in Pending' PROVE p \in Pending
    <3>1. PICK i \in k + 1 .. Len(down) : down[i].kind = "data" /\ p = down[i].value
      BY <1>4, <2>2
    <3>2. i \in 1 .. Len(down)
      BY <1>14
    <3> QED
      BY <3>1, <3>2 DEF Pending
  <2> QED
    BY <1>5, <2>1, <2>2
<1>9. ASSUME NEW w \in Written', NEW d \in Pending' PROVE Before(w, d)
  <2>1. PICK j \in k + 1 .. Len(down) : down[j].kind = "data" /\ d = down[j].value
    BY <1>4, <1>9
  <2>2. CASE w \in Written
    BY <1>3, <1>8, <2>2
  <2>3. ASSUME NEW i \in 1 .. k, w = down[i].value PROVE Before(w, d)
    <3>1. i \in 1 .. Len(down) /\ j \in 1 .. Len(down) /\ i < j
      BY <1>14
    <3> QED
      BY <1>2, <1>3, <2>1, <2>3, <3>1 DEF PendingInOrder
  <2> QED
    BY <1>7, <1>9, <2>2, <2>3
<1>10. WrittenInOrder'
  <2> SUFFICES ASSUME NEW i \in 1 .. Len(printed'), NEW j \in 1 .. Len(printed'), i < j,
                      printed'[i] # Junk, printed'[j] # Junk
               PROVE  Before(printed'[i], printed'[j])
    BY DEF WrittenInOrder, Before, Junk, Piece
  <2>1. CASE j \in 1 .. Len(printed)
    <3>1. i \in 1 .. Len(printed) /\ printed'[i] = printed[i] /\ printed'[j] = printed[j]
      <4>1. i \in 1 .. Len(printed)
        BY <1>14, <2>1
      <4> QED
        BY <1>2, <2>1, <4>1
    <3> QED
      BY <1>3, <2>1, <3>1 DEF WrittenInOrder
  <2>2. CASE j \notin 1 .. Len(printed)
    <3>1. j - Len(printed) \in 1 .. k /\ printed'[j] = down[j - Len(printed)].value
      BY <1>6, <2>2
    <3>2. CASE i \in 1 .. Len(printed)
      <4>1. printed'[i] \in Written
        BY <1>2, <3>2 DEF Written
      <4> QED
        BY <1>3, <1>5, <3>1, <4>1
    <3>3. CASE i \notin 1 .. Len(printed)
      <4>1. i - Len(printed) \in 1 .. k /\ printed'[i] = down[i - Len(printed)].value
        BY <1>6, <3>3
      <4>2. PICK l \in 1 .. Len(down), m \in 1 .. Len(down) :
               l = i - Len(printed) /\ m = j - Len(printed) /\ l < m
        BY <1>14, <3>1, <4>1
      <4> QED
        BY <1>2, <1>3, <3>1, <4>1, <4>2 DEF PendingInOrder
    <3> QED
      BY <3>2, <3>3
  <2> QED
    BY <2>1, <2>2
<1>11. ASSUME ~inPieces => \A i \in 1 .. Len(printed) : printed[i] # Junk, ~inPieces',
              NEW i \in 1 .. Len(printed')
       PROVE  printed'[i] # Junk
  <2>1. k = remaining /\ ~inPieces
    BY <1>2, <1>11, Zenon
  <2>2. \A j \in 1 .. Len(printed) : printed[j] # Junk
    BY <1>11, <2>1
  <2>3. k + 1 .. remaining = {}
    BY <1>14, <2>1
  <2> QED
    BY <1>5, <1>6, <2>2, <2>3
<1>12. \A p : p \in Written' \/ p \in Pending' <=> p \in Written \/ p \in Pending
  BY <1>7, <1>8
<1>13. (~inPieces => \A i \in 1 .. Len(printed) : printed[i] # Junk)
          => (~inPieces' => \A i \in 1 .. Len(printed') : printed'[i] # Junk)
  BY <1>11
<1> QED
  BY <1>2, <1>9, <1>10, <1>12, <1>13

(* Only RecvData writes. *)
LEMMA OnlyRecvDataWrites ==
    ASSUME [Next]_vars
    PROVE  UNCHANGED <<printed, inPieces>> \/ (RecvData /\ Arrived > 0)
<1> USE DEF clientVars, serverVars, historyVars
<1>1. CASE ClientStep
  BY <1>1 DEF ClientStep, RecvCode, RecvSize, RecvData, RecvQuestion, RecvRest
<1>2. ASSUME NEW reply, Answer(reply) PROVE UNCHANGED <<printed, inPieces>>
  BY <1>2 DEF Answer
<1>3. CASE ServerStep
  BY <1>3 DEF ServerStep, StreamChunk, SendSize, SendData, SendQuestion, DeleteNode, AskOther,
     RecvReply, returnAndClosePetition
<1>4. CASE Die \/ Crash \/ UNCHANGED vars
  BY <1>4 DEF Die, Crash, vars
<1> QED
  BY <1>1, <1>2, <1>3, <1>4 DEF Next

(* What cat sent is written or under way, in order. *)
LEMMA StreamedNext == IInv /\ [Next]_vars => Streamed'
<1> DEFINE Goal == /\ PendingInOrder'
                   /\ \A w \in Written', d \in Pending' : Before(w, d)
                   /\ Written' \cup Pending' = SentPieces'
<1> SUFFICES ASSUME IInv, [Next]_vars, Alive', command'.name = "cat" PROVE Goal
  BY DEF Streamed, Before
<1> USE DEF clientVars, serverVars, historyVars
<1>1. /\ command' = command /\ command.name = "cat" /\ Alive
      /\ PendingInOrder
      /\ \A w \in Written, d \in Pending : Before(w, d)
      /\ Written \cup Pending = SentPieces
      /\ petition \notin {"ask", "wait", "finish"} /\ clientDisconnected = FALSE
      /\ down \in Seq(Items) /\ Len(down) \in Nat
      /\ Typed /\ AtSomething
  BY LiveBefore DEF IInv, Streamed, AtSomething, SendsAll, StreamTyped
<1>2. UNCHANGED <<at, sent>> => SentPieces' = SentPieces
  BY <1>1 DEF SentPieces, Contents, Before, Piece
<1>3. UNCHANGED printed => Written' = Written
  BY DEF Written, Junk, Piece
<1>4. ASSUME UNCHANGED <<printed, down, at, sent>> PROVE Goal
  <2>1. Pending' = Pending /\ PendingInOrder'
    BY <1>1, <1>4 DEF Pending, PendingInOrder, Before
  <2> QED
    BY <1>1, <1>2, <1>3, <1>4, <2>1
<1>5. ASSUME UNCHANGED <<printed, at, sent>>, down # <<>>, down' = Tail(down),
             down[1].kind # "data"
      PROVE  Goal
  <2>1. Taken(1)
    BY <1>1, <1>5 DEF Taken
  <2>2. /\ PendingInOrder'
        /\ \A d : d \in Pending' <=>
              \E i \in 1 + 1 .. Len(down) : down[i].kind = "data" /\ d = down[i].value
    BY <1>1, <2>1, PendingTaken
  <2>3. \A d : d \in Pending <=>
           \E i \in 1 .. Len(down) : down[i].kind = "data" /\ d = down[i].value
    BY DEF Pending
  <2>4. \A i : down[i].kind = "data" => (i \in 1 .. Len(down) <=> i \in 1 + 1 .. Len(down))
    BY <1>1, <1>5
  <2>5. Pending' = Pending
    <3>1. \A d : d \in Pending' <=> d \in Pending
      BY <2>2, <2>3, <2>4
    <3> QED
      BY <3>1
  <2> QED
    BY <1>1, <1>2, <1>3, <1>5, <2>2, <2>5
<1>6. ASSUME NEW item \in Items, Send(item), ~ServerGone, UNCHANGED printed,
             IF item.kind = "data"
             THEN /\ SentPieces' = SentPieces \cup {item.value}
                  /\ \A p \in SentPieces : Before(p, item.value)
             ELSE UNCHANGED <<at, sent>>
      PROVE  Goal
  <2>1. BothLive
    BY <1>1, <1>6 DEF BothLive, Cut, ServerGone, ServerEnds
  <2>2. Appended(item)
    BY <1>1, <1>6, <2>1, SendAppends DEF Appended, IInv
  <2>3. \A d : d \in Pending' <=> d \in Pending \/ (item.kind = "data" /\ d = item.value)
    BY <2>2, PendingAppended
  <2>4. PendingInOrder'
    BY <1>1, <1>6, <2>2, OrderAppended
  <2>5. CASE item.kind = "data"
    <3>1. \A w \in Written', d \in Pending' : Before(w, d)
      BY <1>1, <1>3, <1>6, <2>3, <2>5
    <3>2. Written' \cup Pending' = SentPieces'
      BY <1>1, <1>3, <1>6, <2>3, <2>5
    <3> QED
      BY <2>4, <3>1, <3>2
  <2>6. CASE item.kind # "data"
    <3>1. Pending' = Pending
      <4>1. \A d : d \in Pending' <=> d \in Pending
        BY <2>3, <2>6
      <4> QED
        BY <4>1
    <3> QED
      BY <1>1, <1>2, <1>3, <1>6, <2>4, <2>6, <3>1
  <2> QED
    BY <2>5, <2>6
<1>7. ~ClientGone \/ ServerGone
  BY <1>1 DEF IInv, EndsAfterServer, ClientGone, ClientEnds, Alive
<1>8. CASE RecvCode \/ RecvSize
  <2>1. UNCHANGED <<printed, at, sent>> /\ (down' = down \/ (down # <<>> /\ down' = Tail(down)))
    BY <1>8 DEF RecvCode, RecvSize
  <2>2. down # <<>> => down[1].kind # "data"
    <3> SUFFICES ASSUME down # <<>> PROVE down[1].kind # "data"
      OBVIOUS
    <3>1. 0 < Len(down)
      BY <1>1
    <3>2. client = "code" => CodeFollows(0)
      BY <1>1 DEF IInv, Grammar, Readable, AtItem
    <3>3. client = "size" => SizeFollows(0)
      BY <1>1 DEF IInv, Grammar, Readable, AtItem
    <3>4. client = "code" \/ client = "size"
      BY <1>8 DEF RecvCode, RecvSize
    <3> QED
      BY <3>1, <3>2, <3>3, <3>4 DEF CodeFollows, SizeFollows, IsCode, IsSize
  <2> QED
    BY <1>4, <1>5, <2>1, <2>2
<1>9. CASE RecvData /\ Arrived > 0
  <2>1. /\ \A p : p \in Written' \/ p \in Pending' <=> p \in Written \/ p \in Pending
        /\ \A w \in Written', d \in Pending' : Before(w, d)
        /\ UNCHANGED <<at, sent>>
    BY <1>9, WrittenGrows, TakesPieces
  <2>2. PendingInOrder'
    BY <1>1, <1>9, TakesPieces, PendingTaken
  <2>3. Written' \cup Pending' = Written \cup Pending
    BY <2>1
  <2> QED
    BY <1>1, <1>2, <2>1, <2>2, <2>3
<1>10. CASE RecvData /\ ~(Arrived > 0)
  BY <1>4, <1>10 DEF RecvData
<1>11. CASE RecvQuestion
  BY <1>1, <1>11 DEF RecvQuestion, IInv, Grammar, Readable, AtItem
<1>12. CASE RecvRest \/ Crash \/ UNCHANGED vars
  BY <1>4, <1>12 DEF RecvRest, Crash, vars
<1>13. ASSUME NEW reply, Answer(reply) PROVE UNCHANGED <<printed, down, at, sent>>
  BY <1>13 DEF Answer
<1>14. ASSUME NEW reply, Answer(reply) PROVE Goal
  BY <1>4, <1>13, <1>14
<1>15. /\ Item("code", "PARTIALOUT") \in Items
       /\ Item("code", result) \in Items
       /\ petition = "size" => Item("size", command.chunks[at]) \in Items
       /\ petition = "data" => Item("data", Piece(at, sent + 1)) \in Items
  BY <1>1, ItemTypes DEF Typed
<1>16. CASE StreamChunk
  <2>1. /\ Send(Item("code", "PARTIALOUT")) /\ ~ServerGone
        /\ UNCHANGED <<printed, at, sent>>
    BY <1>1, <1>7, <1>16 DEF StreamChunk, ServerGone, ServerEnds
  <2>2. Item("code", "PARTIALOUT").kind # "data"
    BY DEF Item
  <2> QED
    BY <1>6, <1>15, <2>1, <2>2
<1>17. CASE SendSize
  <2>1. /\ Send(Item("size", command.chunks[at])) /\ ~ServerGone /\ petition = "size"
        /\ UNCHANGED <<printed, at, sent>>
    BY <1>1, <1>7, <1>17 DEF SendSize, ServerGone, ServerEnds
  <2>2. Item("size", command.chunks[at]).kind # "data"
    BY DEF Item
  <2> QED
    BY <1>6, <1>15, <2>1, <2>2
<1>18. CASE SendData
  <2>1. PICK item \in Items : item = Item("data", Piece(at, sent + 1))
    BY <1>15, <1>18 DEF SendData
  <2>2. /\ Send(item) /\ ~ServerGone /\ petition = "data" /\ UNCHANGED printed
        /\ IF sent + 1 = command.chunks[at] THEN at' = at + 1 /\ sent' = 0
                                            ELSE at' = at /\ sent' = sent + 1
    BY <1>1, <1>7, <1>18, <2>1 DEF SendData, ServerGone, ServerEnds, NextChunk
  <2>3. /\ SentPieces' = SentPieces \cup {Piece(at, sent + 1)}
        /\ \A p \in SentPieces : Before(p, Piece(at, sent + 1))
    BY <1>1, <2>2, SentOneMore
  <2>4. item.kind = "data" /\ item.value = Piece(at, sent + 1)
    BY <2>1 DEF Item
  <2> QED
    BY <1>6, <2>2, <2>3, <2>4
<1>19. CASE returnAndClosePetition
  <2>1. /\ Send(Item("code", result)) /\ ~ServerGone /\ UNCHANGED <<printed, at, sent>>
    BY <1>19 DEF returnAndClosePetition, CommandDone, ServerGone, ServerEnds
  <2>2. Item("code", result).kind # "data"
    BY DEF Item
  <2> QED
    BY <1>6, <1>15, <2>1, <2>2
<1>20. ~SendQuestion /\ ~DeleteNode /\ ~AskOther /\ ~RecvReply /\ ~Die
  BY <1>1 DEF SendQuestion, DeleteNode, AskOther, RecvReply, Die, Alive
<1> QED
  BY <1>8, <1>9, <1>10, <1>11, <1>12, <1>14, <1>16, <1>17, <1>18, <1>19, <1>20
  DEF Next, ClientStep, ServerStep

(* What is written is a beginning of what is streamed.                      *)
WrittenIsPrefix ==
    \A p \in Written : p \in Contents /\ \A q \in Contents : Before(q, p) => q \in Written

LEMMA StreamedIsPrefix == Typed /\ Alive /\ command.name = "cat" /\ Streamed => WrittenIsPrefix
<1> SUFFICES ASSUME Typed, Alive, command.name = "cat", Streamed PROVE WrittenIsPrefix
  OBVIOUS
<1>1. /\ \A w \in Written, d \in Pending : Before(w, d)
      /\ Written \cup Pending = SentPieces
  BY DEF Streamed
<1>2. Contents \subseteq Nat \X Nat /\ Piece(at, sent + 1) \in Nat \X Nat
  BY ContentsAre DEF Piece, Typed
<1> SUFFICES ASSUME NEW p \in Written
             PROVE  p \in Contents /\ \A q \in Contents : Before(q, p) => q \in Written
  BY DEF WrittenIsPrefix
<1>3. p \in Contents /\ Before(p, Piece(at, sent + 1))
  BY <1>1 DEF SentPieces
<1>4. ASSUME NEW q \in Contents, Before(q, p) PROVE q \in Written
  <2>1. Before(q, Piece(at, sent + 1))
    BY <1>2, <1>3, <1>4, BeforeIsAnOrder
  <2>2. q \in Written \/ q \in Pending
    BY <1>1, <2>1 DEF SentPieces
  <2>3. q \notin Pending
    BY <1>1, <1>2, <1>3, <1>4, BeforeIsAnOrder
  <2> QED
    BY <2>2, <2>3
<1> QED
  BY <1>3, <1>4

LEMMA StreamedIsPrefixNext ==
    (Typed /\ Alive /\ command.name = "cat" /\ Streamed)' => WrittenIsPrefix'
BY StreamedIsPrefix, PTL

LEMMA OutputNext == IInv /\ [Next]_vars => OutputInOrder' /\ PrintedTyped'
<1> SUFFICES ASSUME IInv, [Next]_vars PROVE OutputInOrder' /\ PrintedTyped'
  OBVIOUS
<1>1. /\ command' = command
      /\ Typed' /\ Streamed' /\ SendsAll' /\ Grammar' /\ NoOutput'
  BY LiveBefore, TypedNext, StreamedNext, SendsAllNext, GrammarNext, NoOutputNext DEF IInv
<1>2. /\ WrittenInOrder
      /\ \A p \in Written : p \in Contents /\ \A q \in Contents : Before(q, p) => q \in Written
      /\ ~inPieces => \A i \in 1 .. Len(printed) : printed[i] # Junk
      /\ printed \in Seq(Nat \X Nat)
  BY DEF IInv, OutputInOrder, PrintedTyped
<1>3. UNCHANGED <<printed, inPieces>> \/ (RecvData /\ Arrived > 0)
  BY OnlyRecvDataWrites
<1>4. /\ WrittenInOrder' /\ PrintedTyped'
      /\ ~inPieces' => \A i \in 1 .. Len(printed') : printed'[i] # Junk
  <2>1. CASE UNCHANGED <<printed, inPieces>>
    BY <1>2, <2>1 DEF WrittenInOrder, PrintedTyped, Junk, Piece, Before
  <2>2. CASE RecvData /\ Arrived > 0
    BY <1>2, <2>2, WrittenGrows DEF PrintedTyped
  <2> QED
    BY <1>3, <2>1, <2>2
<1>5. Contents' = Contents
  BY <1>1 DEF Contents, Piece
<1>6. \A p \in Written' :
         p \in Contents' /\ \A q \in Contents' : Before(q, p) => q \in Written'
  <2>1. CASE command.name # "cat"
    <3>1. printed' = <<>>
      BY <1>1, <2>1 DEF NoOutput
    <3> QED
      BY <3>1 DEF Written
  <2>2. CASE command.name = "cat" /\ Alive'
    <3>1. WrittenIsPrefix'
      BY <1>1, <2>2, StreamedIsPrefixNext
    <3> QED
      BY <3>1 DEF WrittenIsPrefix, Before
  <2>3. CASE ~Alive'
    <3>1. UNCHANGED printed
      <4>1. CASE RecvData /\ Arrived > 0
        BY <2>3, <4>1 DEF RecvData, Alive
      <4> QED
        BY <1>3, <4>1
    <3>2. Written' = Written
      BY <3>1 DEF Written, Junk, Piece
    <3> QED
      BY <1>2, <1>5, <3>2
  <2> QED
    BY <2>1, <2>2, <2>3
<1>7. ASSUME client' = "done", petition' = "closed", command'.name = "cat"
      PROVE  Written' = Contents'
  <2>1. Alive' /\ ~Cut'
    BY <1>7 DEF Alive, Cut
  <2>2. down' = <<>> /\ at' > Len(command'.chunks)
    BY <1>1, <1>7, <2>1 DEF Grammar, Readable, AtItem, SendsAll
  <2>3. Pending' = {}
    BY <2>2 DEF Pending
  <2>4. Written' = SentPieces'
    BY <1>1, <1>7, <2>1, <2>3 DEF Streamed
  <2>5. \A p \in Contents' : Before(p, Piece(at', sent' + 1))
    <3> SUFFICES ASSUME NEW p \in Contents' PROVE Before(p, Piece(at', sent' + 1))
      OBVIOUS
    <3>1. PICK c \in 1 .. Len(command'.chunks) : \E n \in 1 .. command'.chunks[c] : p = Piece(c, n)
      BY DEF Contents
    <3>2. PICK n \in 1 .. command'.chunks[c] : p = Piece(c, n)
      BY <3>1
    <3>3. at' \in Nat /\ Len(command'.chunks) \in Nat /\ c < at'
      <4>1. at' \in Nat
        BY <1>1 DEF Typed
      <4>2. command.chunks \in Seq(Nat \ {0})
        BY Fields DEF IInv
      <4> QED
        BY <1>1, <2>2, <4>1, <4>2
    <3> QED
      BY <3>2, <3>3 DEF Before, Piece
  <2>6. SentPieces' = {p \in Contents' : Before(p, Piece(at', sent' + 1))}
    BY DEF SentPieces, Before, Piece
  <2> QED
    BY <2>4, <2>5, <2>6
<1> QED
  BY <1>4, <1>6, <1>7 DEF OutputInOrder, Before

-----------------------------------------------------------------------------
(* Who decides what rm deletes *)

(* A folder is deleted after the user said so, or -f, or force, was given.  *)
LEMMA DecisionNext == IInv /\ [Next]_vars => ForceIsGiven' /\ UserDecides'
<1> SUFFICES ASSUME IInv, [Next]_vars PROVE ForceIsGiven' /\ UserDecides'
  OBVIOUS
<1> USE DEF IInv, clientVars, serverVars, historyVars
<1>1. /\ command' = command
      /\ answers \subseteq answers'
      /\ client = "dead" => client' = "dead"
  BY LiveBefore
  DEF Next, ClientStep, RecvCode, RecvSize, RecvData, RecvQuestion, RecvRest, Answer,
      ServerStep, StreamChunk, SendSize, SendData, SendQuestion, DeleteNode, AskOther,
      RecvReply, returnAndClosePetition, Die, Crash, vars
<1>2. \A n : Confirmed(n) => Confirmed(n)'
  BY <1>1 DEF Confirmed
<1>3. ASSUME NEW S \in SUBSET Nodes, deleted' = deleted \cup S,
             \A n \in S \cap Folders : Confirmed(n) \/ force \/ client = "dead"
      PROVE  UserDecides'
  <2>1. CASE deleted \ Folders # {} \/ client = "dead"
    BY <1>1, <1>3, <2>1 DEF UserDecides
  <2>2. CASE ~(deleted \ Folders # {} \/ client = "dead")
    <3>1. \A n \in deleted \cap Folders : Confirmed(n)
      BY <2>2 DEF UserDecides, FoldersAreConfirmed
    <3>2. force => \A n : Confirmed(n)
      BY <2>2 DEF ForceIsGiven, Confirmed
    <3>3. \A n \in deleted' \cap Folders : Confirmed(n)'
      BY <1>2, <1>3, <2>2, <3>1, <3>2
    <3> QED
      BY <3>3 DEF UserDecides, FoldersAreConfirmed
  <2> QED
    BY <2>1, <2>2
<1>4. ASSUME deleted \subseteq deleted',
             force' => \/ force
                       \/ \E m \in Nodes : <<m, "ALL">> \in answers
                       \/ deleted' \ Folders # {}
                       \/ client = "dead"
      PROVE  ForceIsGiven'
  BY <1>1, <1>4 DEF ForceIsGiven
<1>5. CASE UNCHANGED <<deleted, force>>
  <2>1. PICK S \in SUBSET Nodes : S = {}
    OBVIOUS
  <2>2. UserDecides'
    <3>1. deleted \cup S = deleted
      BY <2>1
    <3> QED
      BY <1>3, <1>5, <2>1, <3>1
  <2>3. deleted \subseteq deleted' /\ (force' => force)
    BY <1>5
  <2> QED
    BY <1>4, <2>2, <2>3
<1>6. CASE DeleteNode
  <2> SUFFICES ASSUME ~(UNCHANGED <<deleted, force>>) PROVE ForceIsGiven' /\ UserDecides'
    BY <1>5
  <2>1. /\ deleted' = deleted \cup {Target.node} /\ ~NeedsConfirmation
        /\ at <= Len(command.targets)
    BY <1>6 DEF DeleteNode
  <2>2. Target.node \in Nodes
    BY <2>1, Fields
  <2>3. force \/ Target.node \notin Folders
    BY <2>1 DEF NeedsConfirmation
  <2>4. UserDecides'
    <3>1. PICK S \in SUBSET Nodes : S = {Target.node}
      BY <2>2
    <3>2. \A n \in S \cap Folders : force
      BY <2>3, <3>1
    <3> QED
      BY <1>3, <2>1, <3>1, <3>2
  <2>5. force \/ deleted' \ Folders # {}
    BY <2>1, <2>3
  <2> QED
    BY <1>4, <2>1, <2>4, <2>5
<1>7. CASE RecvReply
  <2> SUFFICES ASSUME ~(UNCHANGED <<deleted, force>>) PROVE ForceIsGiven' /\ UserDecides'
    BY <1>5
  <2>1. PICK reply :
          /\ Obey(reply)
          /\ (up # <<>> /\ reply = Head(up)) \/ (up = <<>> /\ ClientGone)
    BY <1>7 DEF RecvReply
  <2>2. /\ command.name = "rm" /\ petition = "wait" /\ Target.node \in Nodes
        /\ deleted' = deleted \cup {n \in {Target.node} : MeansYes(reply)}
        /\ force' = (force \/ reply = "ALL")
    BY <1>7, <2>1, Fields DEF RecvReply, Obey, AtSomething
  <2>3. petition # "crashed" /\ ~ServerGone
    BY <2>2 DEF ServerGone, ServerEnds
  <2>4. client = "dead" \/ <<Target.node, reply>> \in answers
    <3> SUFFICES ASSUME client # "dead" PROVE <<Target.node, reply>> \in answers
      OBVIOUS
    <3>1. Waiting /\ ~ClientGone
      BY <2>2, <2>3 DEF Dialogue, BothLive, Alive, Cut, EndsAfterServer, ClientGone, ClientEnds
    <3>2. up # <<>> /\ reply = Head(up)
      BY <2>1, <3>1
    <3>3. Len(up) = 1 /\ <<Subject, up[1]>> \in answers
      BY <2>2, <3>1, <3>2 DEF Waiting
    <3> QED
      BY <2>2, <3>2, <3>3 DEF Subject, Typed
  <2>5. \A n \in {m \in {Target.node} : MeansYes(reply)} : Confirmed(n) \/ client = "dead"
    BY <2>4 DEF MeansYes, Confirmed
  <2>6. UserDecides'
    BY <1>3, <2>2, <2>5
  <2>7. force' => force \/ (\E m \in Nodes : <<m, "ALL">> \in answers) \/ client = "dead"
    BY <2>2, <2>4
  <2> QED
    BY <1>4, <2>2, <2>6, <2>7
<1> QED
  BY <1>5, <1>6, <1>7
  DEF Next, ClientStep, RecvCode, RecvSize, RecvData, RecvQuestion, RecvRest, Answer,
      ServerStep, StreamChunk, SendSize, SendData, SendQuestion, AskOther,
      returnAndClosePetition, Die, Crash, vars

-----------------------------------------------------------------------------
(* The theorems *)

(* The inductive invariant holds in every reachable state. *)
THEOREM IInvHolds == Spec => []IInv
<1>1. IInv /\ [Next]_vars => IInv'
  BY TypedNext, StreamTypedNext, PlacesNext, GrammarNext, DialogueNext, NoOutputNext,
     SendsAllNext, StreamedNext, OutputNext, DecisionNext
  DEF IInv
<1> QED
  BY InitIInv, <1>1, PTL DEF Spec

(* A client that ends normally has the code of the command, unless the      *)
(* server crashed: executeCommand reads codes, sizes, output and questions  *)
(* from one stream without ever taking one for another, for any chunks cut  *)
(* into any pieces.                                                         *)
THEOREM ResultDeliveredHolds == Spec => []ResultDelivered
<1>1. IInv => ResultDelivered
  <2> SUFFICES ASSUME IInv, client \in {"done", "failed"}, petition # "crashed"
               PROVE  client = "done" /\ outcode = result
    BY DEF ResultDelivered
  <2>1. petition = "closed" /\ BothLive
    BY DEF IInv, EndsAfterServer, ServerGone, ServerEnds, BothLive, Alive, Cut
  <2>2. CASE command.name = "cat"
    BY <2>1, <2>2 DEF IInv, Grammar, Readable, AtItem, BothLive, Cut
  <2>3. CASE command.name # "cat"
    BY <2>1, <2>3 DEF IInv, Dialogue, Closed
  <2> QED
    BY <2>2, <2>3
<1> QED
  BY <1>1, IInvHolds, PTL

(* What cat streams is written once and in order, whole if both ends lived, *)
(* however the socket cuts it into pieces: executeCommand takes no code or  *)
(* size for output, and none of the output for one.                         *)
THEOREM OutputInOrderHolds == Spec => []OutputInOrder
<1>1. IInv => OutputInOrder
  BY DEF IInv
<1> QED
  BY <1>1, IInvHolds, PTL

(* rm deletes no folder that the user did not agree to, but for the two     *)
(* ways around it that deleteNode has.                                      *)
THEOREM UserDecidesHolds == Spec => []UserDecides
<1>1. IInv => UserDecides
  BY DEF IInv
<1> QED
  BY <1>1, IInvHolds, PTL

=============================================================================
