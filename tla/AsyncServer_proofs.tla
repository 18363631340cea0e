------------------------- MODULE AsyncServer_proofs -------------------------
(***************************************************************************)
(* Proofs about AsyncServer, for every set of sessions, numbers of rounds,  *)
(* body lengths and limit of the send queue: each client gets the answers   *)
(* to its own requests, in their order; no reply is refused; and a request  *)
(* whose body is split from its head leaves the session waiting for bytes   *)
(* that never come.                                                         *)
(*                                                                          *)
(* The invariant is Parts /\ Flow.  Parts are the invariants proved of the  *)
(* receiving half, the logic queue and the sending half, each of which is   *)
(* kept because a step of the composition is a step of the part or leaves   *)
(* its variables alone.  Flow is what only the composition knows: a client  *)
(* writes its next request when it has read the reply to the last, so it is *)
(* at most one request ahead of the replies sent to it; hence at most one   *)
(* message of its session is in the logic queue, the replies are sent in    *)
(* the order of the requests, the send queue holds at most the reply before *)
(* when the next one comes, and nothing is written behind a split body.     *)
(***************************************************************************)
EXTENDS AsyncServer, TLAPS

FP == INSTANCE RecvFraming_proofs WITH MaxFrames <- Rounds, posted <- received
LP == INSTANCE LogicSystem_proofs WITH LogicNode <- Message, Registered <- Message
SP == INSTANCE SendQueue_proofs WITH Node <- Message, broken <- gone

-----------------------------------------------------------------------------
(* The steps of the parts are those their proofs are about.                 *)

LEMMA FramingInit == RF!Init <=> FP!Init
BY Zenon DEF RF!Init, FP!Init

LEMMA FramingReads ==
  ASSUME NEW s
  PROVE  /\ RF!PeerLeaves(s) <=> FP!PeerLeaves(s)
         /\ RF!Receive(s) <=> FP!Receive(s)
         /\ RF!ReadFails(s) <=> FP!ReadFails(s)
         /\ \A len : RF!PeerWrites(s, len) <=> FP!PeerWrites(s, len)
<1>1. RF!PeerLeaves(s) <=> FP!PeerLeaves(s)
  BY Zenon DEF RF!PeerLeaves, FP!PeerLeaves
<1>2. RF!Receive(s) <=> FP!Receive(s)
  BY Zenon DEF RF!Receive, FP!Receive, RF!ReadCompletes, FP!ReadCompletes, RF!peer, FP!peer
<1>3. RF!ReadFails(s) <=> FP!ReadFails(s)
  BY Zenon DEF RF!ReadFails, FP!ReadFails, RF!peer, FP!peer
<1>4. \A len : RF!PeerWrites(s, len) <=> FP!PeerWrites(s, len)
  BY Zenon DEF RF!PeerWrites, FP!PeerWrites, RF!FrameBytes, FP!FrameBytes
<1> QED
  BY <1>1, <1>2, <1>3, <1>4

LEMMA FramingHead ==
  ASSUME NEW s
  PROVE  /\ RF!HeadComplete(s) <=> FP!HeadComplete(s)
         /\ RF!Head4(s) = FP!Head4(s) /\ RF!AfterHead(s) = FP!AfterHead(s)
         /\ RF!Decode(s, RF!Head4(s)) = FP!Decode(s, FP!Head4(s))
         /\ RF!RemainMsg(s) = FP!RemainMsg(s)
<1>1. RF!HeadComplete(s) <=> FP!HeadComplete(s)
  BY Zenon DEF RF!HeadComplete, FP!HeadComplete, RF!Parsing, FP!Parsing, RF!HeadShort, FP!HeadShort
<1>2. RF!Head4(s) = FP!Head4(s) /\ RF!AfterHead(s) = FP!AfterHead(s)
  BY Zenon DEF RF!Head4, FP!Head4, RF!AfterHead, FP!AfterHead, RF!HeadRemain, FP!HeadRemain
<1>3. \A h : RF!Decode(s, h) = FP!Decode(s, h)
  <2>1. \A k : RF!FrameHead(k) = FP!FrameHead(k)
    BY Zenon DEF RF!FrameHead, FP!FrameHead, RF!FrameBytes, FP!FrameBytes
  <2> QED
    BY <2>1 DEF RF!Decode, FP!Decode
<1>4. RF!RemainMsg(s) = FP!RemainMsg(s)
  BY Zenon DEF RF!RemainMsg, FP!RemainMsg
<1> QED
  BY <1>1, <1>2, <1>3, <1>4

LEMMA FramingCompares == \A n, m : RF!SizeLess(n, m) <=> FP!SizeLess(n, m)
BY Zenon DEF RF!SizeLess, FP!SizeLess

LEMMA FramingTurns ==
  ASSUME NEW s
  PROVE  /\ RF!HeadPartial(s) <=> FP!HeadPartial(s)
         /\ RF!MoreBody(s) <=> FP!MoreBody(s)
         /\ \A len : RF!BodyPartial(s, len) <=> FP!BodyPartial(s, len)
         /\ \A len : RF!BodyComplete(s, len) <=> FP!BodyComplete(s, len)
<1>1. RF!HeadPartial(s) <=> FP!HeadPartial(s)
  BY Zenon DEF RF!HeadPartial, FP!HeadPartial, RF!Parsing, FP!Parsing, RF!HeadShort, FP!HeadShort,
     RF!ReadAgain, FP!ReadAgain, RF!peer, FP!peer
<1>2. RF!MoreBody(s) <=> FP!MoreBody(s)
  BY FramingHead, FramingCompares, Zenon DEF RF!MoreBody, FP!MoreBody, RF!Parsing, FP!Parsing,
     RF!ReadAgain, FP!ReadAgain, RF!peer, FP!peer
<1>3. \A len : RF!BodyPartial(s, len) <=> FP!BodyPartial(s, len)
  BY FramingHead, FramingCompares DEF RF!BodyPartial, FP!BodyPartial, RF!NodeSize, FP!NodeSize,
     RF!ReadAgain, FP!ReadAgain, RF!peer, FP!peer
<1>4. \A len : RF!BodyComplete(s, len) <=> FP!BodyComplete(s, len)
  BY FramingHead, FramingCompares DEF RF!BodyComplete, FP!BodyComplete, RF!Post, FP!Post,
     RF!ReadAgain, FP!ReadAgain, RF!peer, FP!peer
<1> QED
  BY <1>1, <1>2, <1>3, <1>4

LEMMA LogicSteps ==
  /\ LS!Init <=> LP!Init
  /\ \A m : LS!PostMsgToQue(m) <=> LP!PostMsgToQue(m)
  /\ LS!Lock <=> LP!Lock
  /\ LS!CheckCondition <=> LP!CheckCondition
  /\ LS!Wait <=> LP!Wait
  /\ LS!Reacquire <=> LP!Reacquire
  /\ LS!TestStop <=> LP!TestStop
  /\ LS!SpuriousWakeup <=> LP!SpuriousWakeup
  /\ LS!Deal <=> LP!Deal
  /\ LS!Pop <=> LP!Pop
  /\ LS!Owed = LP!Owed
<1>1. LS!Init <=> LP!Init
  BY Zenon DEF LS!Init, LP!Init
<1>2. \A m : LS!PostMsgToQue(m) <=> LP!PostMsgToQue(m)
  BY Zenon DEF LS!PostMsgToQue, LP!PostMsgToQue, LS!Notifies, LP!Notifies, LS!AfterNotify,
     LP!AfterNotify,
    LS!ToSet, LP!ToSet
<1>3. /\ LS!Lock <=> LP!Lock
      /\ LS!Wait <=> LP!Wait
      /\ LS!Reacquire <=> LP!Reacquire
      /\ LS!TestStop <=> LP!TestStop
      /\ LS!SpuriousWakeup <=> LP!SpuriousWakeup
      /\ LS!Pop <=> LP!Pop
  BY Zenon DEF LS!Lock, LP!Lock, LS!Wait, LP!Wait, LS!Reacquire, LP!Reacquire, LS!TestStop,
     LP!TestStop,
     LS!SpuriousWakeup, LP!SpuriousWakeup, LS!Pop, LP!Pop, LS!history, LP!history
<1>4. LS!CheckCondition <=> LP!CheckCondition
  BY Zenon DEF LS!CheckCondition, LP!CheckCondition, LS!MustWait, LP!MustWait, LS!history,
     LP!history
<1>5. LS!Deal <=> LP!Deal
  BY Zenon DEF LS!Deal, LP!Deal, LS!CallBack, LP!CallBack, LS!Found, LP!Found
<1>6. LS!Owed = LP!Owed
  BY Zenon DEF LS!Owed, LP!Owed
<1> QED
  BY <1>1, <1>2, <1>3, <1>4, <1>5, <1>6

LEMMA SendingSteps ==
  ASSUME NEW s
  PROVE  /\ SQ!Init <=> SP!Init
         /\ SQ!HandleReadError(s) <=> SP!HandleReadError(s)
         /\ \A n : SQ!Send(s, n) <=> SP!Send(s, n)
         /\ \A i : SQ!Transfer(s, i) <=> SP!Transfer(s, i)
         /\ \A i : SQ!WriteFails(s, i) <=> SP!WriteFails(s, i)
         /\ \A i : SQ!HandleWrite(s, i) <=> SP!HandleWrite(s, i)
         /\ \A i : SQ!HandleWriteError(s, i) <=> SP!HandleWriteError(s, i)
<1>1. SQ!Init <=> SP!Init
  BY Zenon DEF SQ!Init, SP!Init
<1>2. SQ!HandleReadError(s) <=> SP!HandleReadError(s)
  BY Zenon DEF SQ!HandleReadError, SP!HandleReadError, SQ!CloseAndClear, SP!CloseAndClear
<1>3. \A n : SQ!Send(s, n) <=> SP!Send(s, n)
  <2>1. \A n : SQ!SendRefused(s, n) <=> SP!SendRefused(s, n)
    BY Zenon DEF SQ!SendRefused, SP!SendRefused, SQ!Full, SP!Full
  <2>2. \A n : SQ!SendQueued(s, n) <=> SP!SendQueued(s, n)
    BY Zenon DEF SQ!SendQueued, SP!SendQueued, SQ!Full, SP!Full, SQ!Starts, SP!Starts
  <2>3. \A n : SQ!SendWritten(s, n) <=> SP!SendWritten(s, n)
    BY Zenon DEF SQ!SendWritten, SP!SendWritten, SQ!Full, SP!Full, SQ!Starts, SP!Starts,
       SQ!WriteFront, SP!WriteFront
  <2> QED
    BY <2>1, <2>2, <2>3 DEF SQ!Send, SP!Send
<1>4. \A i : SQ!Transfer(s, i) <=> SP!Transfer(s, i)
  BY Zenon DEF SQ!Transfer, SP!Transfer
<1>5. \A i : SQ!WriteFails(s, i) <=> SP!WriteFails(s, i)
  BY Zenon DEF SQ!WriteFails, SP!WriteFails
<1>6. \A i : SQ!HandleWrite(s, i) <=> SP!HandleWrite(s, i)
  BY Zenon DEF SQ!HandleWrite, SP!HandleWrite, SQ!NextWrite, SP!NextWrite, SQ!WriteFront,
     SP!WriteFront, SQ!RemoveAt, SP!RemoveAt
<1>7. \A i : SQ!HandleWriteError(s, i) <=> SP!HandleWriteError(s, i)
  BY Zenon DEF SQ!HandleWriteError, SP!HandleWriteError, SQ!CloseAndClear, SP!CloseAndClear,
     SQ!RemoveAt, SP!RemoveAt
<1> QED
  BY <1>1, <1>2, <1>3, <1>4, <1>5, <1>6, <1>7

-----------------------------------------------------------------------------
(* The invariants of the parts hold in the composition.                     *)

LEMMA Assumptions ==
  /\ HEAD_TOTAL_LEN \in Nat \ {0} /\ MAX_LENGTH \in Nat \ {0}
  /\ BodyLen \subseteq 0..MAX_LENGTH /\ Rounds \in Nat
  /\ Short \subseteq Int /\ BodyLen \subseteq Short
  /\ MAX_SENDQUE \in Nat /\ Pieces \in Nat \ {0} /\ Pieces = 2
BY RoundsAssumption, LengthAssumption, LimitAssumption

Framing == FP!IInv /\ FP!AllExact
Logic == LP!IInv
Sending == SP!IInv /\ \A s \in Session : SP!WireInv(s)

LEMMA FramingStep ==
  ASSUME Framing, [FP!Steps]_(FP!vars)
  PROVE  Framing'
<1>1. FP!IInv'
  BY Assumptions, FP!StepsInv DEF Framing
<1>2. FP!AllExact'
  BY Assumptions, FP!StepsExact DEF Framing
<1> QED
  BY <1>1, <1>2 DEF Framing

\* Closing a session from the sending half is nothing to the receiving half.
LEMMA FramingClosed ==
  ASSUME Framing, NEW s \in Session, UNCHANGED framingVars,
         UNCHANGED closeVars \/ SP!CloseAndClear(s)
  PROVE  Framing'
<1>1. /\ UNCHANGED <<lens, net, gone, handler, data, recv_head, recv_msg, b_head_parse,
                     received, split>>
      /\ b_close' = b_close \/ b_close' = [b_close EXCEPT ![s] = TRUE]
      /\ sessions' \subseteq sessions
  BY DEF framingVars, closeVars, SP!CloseAndClear
<1>2. FP!TypeOK'
  BY <1>1 DEF Framing, FP!IInv, FP!TypeOK
<1>3. \A r \in Session : FP!Fits(r)' /\ (FP!Parsing(r)' => data'[r] # << >>)
  BY <1>1 DEF Framing, FP!IInv, FP!Fits, FP!Parsing
<1>4. ASSUME NEW r \in Session PROVE FP!EInv(r)'
  <2>1. FP!EInv(r)
    BY DEF Framing, FP!AllExact
  <2>2. b_close[r] => b_close'[r]
    BY <1>1 DEF Framing, FP!IInv, FP!TypeOK
  <2>3. FP!Rest(r)' = FP!Rest(r)
    BY <1>1, Zenon DEF FP!Rest
  <2>4. handler'[r] = "reading" => data'[r] = << >>
    BY <1>1, <2>1 DEF FP!EInv
  <2>5. handler'[r] = handler[r] /\ lens'[r] = lens[r] /\ received'[r] = received[r]
        /\ b_head_parse'[r] = b_head_parse[r] /\ split'[r] = split[r]
        /\ recv_msg'[r] = recv_msg[r]
    BY <1>1
  <2> QED
    BY Assumptions, <2>1, <2>2, <2>3, <2>4, <2>5, FP!ExactKept
<1> QED
  BY <1>2, <1>3, <1>4 DEF Framing, FP!IInv, FP!AllExact

LEMMA FramingKept ==
  ASSUME Framing, UNCHANGED <<framingVars, closeVars>>
  PROVE  Framing'
BY FramingStep DEF framingVars, closeVars, FP!vars

LEMMA LogicKept ==
  ASSUME Logic, UNCHANGED logicVars
  PROVE  Logic'
BY LP!StutterInv DEF Logic, logicVars, LP!vars

LEMMA SendingStep ==
  ASSUME Sending, NEW s \in Session, SP!StepOf(s)
  PROVE  Sending'
<1>1. SP!IInv'
  BY Assumptions, SP!StepInv DEF Sending
<1>2. \A r \in Session : SP!WireInv(r)'
  BY Assumptions, SP!StepWire DEF Sending
<1> QED
  BY <1>1, <1>2 DEF Sending

LEMMA SendingKept ==
  ASSUME Sending, UNCHANGED <<sendVars, gone, closeVars>>
  PROVE  Sending'
BY Assumptions, SP!StutterInv DEF Sending, sendVars, closeVars, SP!vars

\* The invariants of the three parts.
Parts == Framing /\ Logic /\ Sending

LEMMA PartsInit == Init => Parts
<1> SUFFICES ASSUME Init PROVE Parts
  OBVIOUS
<1>1. FP!Init /\ LP!Init /\ SP!Init
  BY FramingInit, LogicSteps, SendingSteps DEF Init
<1>2. Framing
  BY <1>1, Assumptions, FP!InitInv, FP!InitExact DEF Framing
<1>3. Logic
  BY <1>1, LP!InitInv DEF Logic
<1>4. SP!IInv
  BY <1>1, Assumptions, SP!InitInv
<1>5. \A s \in Session : SP!WireInv(s)
  BY <1>1, Assumptions, SP!InitWire
<1> QED
  BY <1>2, <1>3, <1>4, <1>5 DEF Parts, Sending

\* A turn of HandleRead, or any step of the sockets and their peers.
LEMMA FramingMoves ==
  ASSUME NEW s \in Session,
         \/ \E len \in BodyLen : RF!PeerWrites(s, len)
         \/ RF!PeerLeaves(s)
         \/ RF!Receive(s)
         \/ RF!ReadFails(s)
         \/ RF!HeadPartial(s)
         \/ RF!MoreBody(s)
         \/ \E len \in BodyLen : RF!BodyPartial(s, len) \/ RF!BodyComplete(s, len)
  PROVE  [FP!Steps]_(FP!vars)
<1>1. CASE \E len \in BodyLen : RF!PeerWrites(s, len)
  BY <1>1, FramingReads DEF FP!Steps, FP!StepOf
<1>2. CASE RF!PeerLeaves(s) \/ RF!Receive(s) \/ RF!ReadFails(s)
  BY <1>2, FramingReads DEF FP!Steps, FP!StepOf
<1>3. CASE RF!HeadPartial(s) \/ RF!MoreBody(s)
  BY <1>3, FramingTurns DEF FP!Steps, FP!StepOf, FP!Turn
<1>4. CASE \E len \in BodyLen : RF!BodyPartial(s, len) \/ RF!BodyComplete(s, len)
  BY <1>4, Assumptions, FramingTurns DEF FP!Steps, FP!StepOf, FP!Turn
<1> QED
  BY <1>1, <1>2, <1>3, <1>4

LEMMA FrontIsMessage ==
  ASSUME Logic, LS!Deal
  PROVE  /\ msg_que \in Seq(Message) /\ msg_que # << >>
         /\ Head(msg_que) \in Message /\ Head(msg_que).s \in Session
<1>1. msg_que \in Seq(Message)
  BY DEF Logic, LP!IInv, LP!TypeOK
<1>2. msg_que # << >>
  BY DEF LS!Deal
<1>3. Head(msg_que) \in Message
  BY <1>1, <1>2
<1> QED
  BY <1>1, <1>2, <1>3 DEF Message

-----------------------------------------------------------------------------
(* The cycle of a client: it asks, its request is posted, the reply is sent *)
(* and read, and no client is more than one request ahead.                  *)

Received(c) == Len(received[c])
Sent(c) == Len(accepted[c])

\* What the client has read of the replies, and that it owes each one it reads
\* to a request of its own.
AskInv(c) ==
  /\ got[c] \in Nat
  /\ client[c] \in {"write", "readHead", "readBody"}
  /\ client[c] = "write" => got[c] = 2 * Asked(c)
  /\ client[c] = "readHead" => got[c] + 2 = 2 * Asked(c)
  /\ client[c] = "readBody" => got[c] + 1 = 2 * Asked(c)
  /\ got[c] <= Len(wire[c])
  /\ Asked(c) <= Rounds

\* The replies are sent in the order of the requests, none is refused, and the
\* wire is at most one ahead of those popped.
ReplyInv(c) ==
  /\ \A k \in 1..Sent(c) : accepted[c][k] = [s |-> c, k |-> k]
  /\ refused[c] = << >>
  /\ Len(wire[c]) <= 2 * ((Sent(c) - Len(send_que[c])) + 1)

\* At most one message of the session waits for its callback, and it is the
\* next one to be replied to.
DueInv(c) ==
  /\ Received(c) = Sent(c) \/ Received(c) = Sent(c) + 1
  /\ \A i \in DOMAIN LP!Owed :
        LP!Owed[i].s = c => LP!Owed[i].k = Sent(c) + 1 /\ Received(c) = Sent(c) + 1
  /\ \A i, j \in DOMAIN LP!Owed : LP!Owed[i].s = c /\ LP!Owed[j].s = c => i = j

\* A split body is the last thing its client wrote, and too short for MoreBody.
SplitInv(c) ==
  split[c] => /\ b_head_parse[c]
              /\ Received(c) + 1 = Asked(c)
              /\ Len(data[c]) + Len(net[c]) < FP!RemainMsg(c)

FlowInv(c) == AskInv(c) /\ ReplyInv(c) /\ DueInv(c) /\ SplitInv(c)
FlowType == client \in [Session -> {"write", "readHead", "readBody"}] /\ got \in [Session -> Nat]
Flow == FlowType /\ \A c \in Session : FlowInv(c)

LEMMA Lengths ==
  ASSUME Parts, NEW c \in Session
  PROVE  /\ Asked(c) \in Nat /\ Received(c) \in Nat /\ Sent(c) \in Nat
         /\ Len(wire[c]) \in Nat /\ Len(send_que[c]) \in Nat
         /\ Len(data[c]) \in Nat /\ Len(net[c]) \in Nat /\ Len(recv_head[c]) \in Nat
         /\ Sent(c) - Len(send_que[c]) \in Nat
         /\ Len(wire[c]) <= 2 * Sent(c)
<1>1. FP!TypeOK /\ SP!TypeOK /\ SP!WireInv(c)
  BY DEF Parts, Framing, FP!IInv, Sending, SP!IInv
<1>2. /\ lens[c] \in Seq(BodyLen) /\ net[c] \in Seq(FP!Byte) /\ data[c] \in Seq(FP!Byte)
      /\ recv_head[c] \in Seq(FP!Byte)
      /\ received[c] \in Seq([head : Seq(FP!Byte), data : Seq(FP!Byte)])
  BY <1>1 DEF FP!TypeOK
<1>3. accepted[c] \in Seq(Message) /\ wire[c] \in Seq(SP!Piece) /\ send_que[c] \in Seq(Message)
  BY <1>1 DEF SP!TypeOK
<1>4. Sent(c) - Len(send_que[c]) \in Nat
  BY <1>1 DEF SP!WireInv, SP!QueueIsRest, Sent
<1>5. Len(wire[c]) <= Sent(c) * Pieces
  BY <1>1 DEF SP!WireInv, SP!WireIsPrefix, Sent
<1>6. /\ Asked(c) \in Nat /\ Received(c) \in Nat /\ Sent(c) \in Nat
      /\ Len(wire[c]) \in Nat /\ Len(send_que[c]) \in Nat
      /\ Len(data[c]) \in Nat /\ Len(net[c]) \in Nat /\ Len(recv_head[c]) \in Nat
  BY <1>2, <1>3 DEF Asked, Received, Sent
<1> QED
  BY <1>4, <1>5, <1>6, Assumptions

\* The request a client waits for is the only one it is ahead.
LEMMA Counted ==
  ASSUME Parts, Flow, NEW c \in Session
  PROVE  /\ Asked(c) <= Sent(c) + 1 /\ Sent(c) <= Received(c) /\ Received(c) <= Asked(c)
         /\ client[c] = "write" => Asked(c) <= Sent(c)
<1>1. AskInv(c) /\ DueInv(c) /\ SplitInv(c)
  BY DEF Flow, FlowInv
<1>2. /\ Asked(c) \in Nat /\ Received(c) \in Nat /\ Sent(c) \in Nat
      /\ Len(wire[c]) \in Nat /\ Len(wire[c]) <= 2 * Sent(c)
  BY Lengths
<1>3. Received(c) <= Asked(c)
  <2>1. CASE split[c]
    BY <1>1, <1>2, <2>1 DEF SplitInv
  <2>2. CASE ~split[c]
    <3>1. FP!EInv(c)
      BY DEF Parts, Framing, FP!AllExact
    <3> QED
      BY <2>2, <3>1 DEF FP!EInv, FP!Exact, FP!Framed, Asked, Received
  <2> QED
    BY <2>1, <2>2
<1>4. Sent(c) <= Received(c)
  BY <1>1, <1>2 DEF DueInv
<1>5. got[c] \in Nat /\ got[c] <= 2 * Sent(c) /\ got[c] + 2 >= 2 * Asked(c)
      /\ (client[c] = "write" => got[c] = 2 * Asked(c))
  BY <1>1, <1>2 DEF AskInv
<1>6. Asked(c) <= Sent(c) + 1 /\ (client[c] = "write" => Asked(c) <= Sent(c))
  BY <1>2, <1>5
<1> QED
  BY <1>3, <1>4, <1>6

\* The complete head is that of the only frame not posted yet.
LEMMA LastHead ==
  ASSUME Parts, Flow, NEW c \in Session, FP!HeadComplete(c)
  PROVE  /\ ~split[c] /\ Received(c) + 1 = Asked(c) /\ Sent(c) = Received(c)
         /\ Received(c) + 1 \in 1..Rounds
         /\ lens[c][Asked(c)] \in BodyLen
         /\ FP!Decode(c, FP!Head4(c)) = {lens[c][Asked(c)]}
         /\ FP!FInv(c) /\ FP!Framed(FP!Rest(c), lens[c], Received(c))
<1>1. /\ Asked(c) \in Nat /\ Received(c) \in Nat /\ Sent(c) \in Nat
      /\ Asked(c) <= Sent(c) + 1 /\ Sent(c) <= Received(c)
  BY Lengths, Counted
<1>2. Asked(c) <= Rounds /\ SplitInv(c)
  BY DEF Flow, FlowInv, AskInv
<1>3. ~split[c]
  BY <1>2 DEF SplitInv, FP!HeadComplete
<1>4. FP!EInv(c) /\ FP!IInv
  BY DEF Parts, Framing, FP!AllExact
<1>5. FP!Framed(FP!Rest(c), lens[c], Received(c))
  BY <1>3, <1>4 DEF FP!EInv, FP!Exact, Received
<1>6. FP!FInv(c)
  BY <1>4, Assumptions, FP!OfSession
<1>7. /\ Received(c) + 1 \in 1..Len(lens[c])
      /\ lens[c][Received(c) + 1] \in BodyLen
      /\ FP!Decode(c, FP!Head4(c)) = {lens[c][Received(c) + 1]}
  BY <1>1, <1>5, <1>6, Assumptions, FP!HeadDecoded
<1>8. Received(c) + 1 <= Asked(c)
  BY <1>1, <1>7 DEF Asked
<1>9. Received(c) + 1 = Asked(c) /\ Sent(c) = Received(c)
  BY <1>1, <1>8
<1>10. Received(c) + 1 \in 1..Rounds
  BY <1>1, <1>2, <1>9, Assumptions
<1> QED
  BY <1>3, <1>5, <1>6, <1>7, <1>9, <1>10

LEMMA PartsStep ==
  ASSUME Parts, Flow, Next
  PROVE  Parts'
<1> USE DEF Parts
<1>1. ASSUME NEW c \in Session, NEW len \in BodyLen, ClientWrites(c, len) PROVE Parts'
  <2>1. Framing'
    BY <1>1, FramingMoves, FramingStep DEF ClientWrites
  <2>2. Logic'
    BY <1>1, LogicKept DEF ClientWrites
  <2>3. UNCHANGED gone
    BY <1>1 DEF ClientWrites, RF!PeerWrites
  <2>4. Sending'
    BY <1>1, <2>3, SendingKept DEF ClientWrites
  <2> QED
    BY <2>1, <2>2, <2>4
<1>2. ASSUME NEW c \in Session, ClientReads(c) PROVE Parts'
  <2>1. UNCHANGED gone
    BY <1>2 DEF ClientReads, framingVars
  <2> QED
    BY <1>2, <2>1, FramingKept, LogicKept, SendingKept DEF ClientReads
<1>3. ASSUME NEW c \in Session, ClientLeaves(c) PROVE Parts'
  <2>1. Framing'
    BY <1>3, FramingMoves, FramingStep DEF ClientLeaves
  <2>2. Logic'
    BY <1>3, LogicKept DEF ClientLeaves
  <2>3. SP!PeerGone(c)
    BY <1>3 DEF ClientLeaves, RF!PeerLeaves, SP!PeerGone, sendVars, closeVars
  <2>4. Sending'
    BY <2>3, SendingStep DEF SP!StepOf
  <2> QED
    BY <2>1, <2>2, <2>4
<1>4. ASSUME NEW s \in Session, Receive(s) PROVE Parts'
  <2>1. Framing'
    BY <1>4, FramingMoves, FramingStep DEF Receive
  <2>2. UNCHANGED <<gone, closeVars>>
    BY <1>4 DEF Receive, RF!Receive, RF!ReadCompletes, RF!peer, closeVars
  <2> QED
    BY <1>4, <2>1, <2>2, LogicKept, SendingKept DEF Receive
<1>5. ASSUME NEW s \in Session, ReadFails(s) PROVE Parts'
  <2>1. Framing'
    BY <1>5, FramingMoves, FramingStep DEF ReadFails
  <2>2. SP!HandleReadError(s)
    BY <1>5, SendingSteps DEF ReadFails
  <2>3. Sending'
    BY <2>2, SendingStep DEF SP!StepOf
  <2> QED
    BY <1>5, <2>1, <2>3, LogicKept DEF ReadFails
<1>6. ASSUME NEW s \in Session, TurnWithoutPost(s) PROVE Parts'
  <2>1. Framing'
    BY <1>6, FramingMoves, FramingStep DEF TurnWithoutPost
  <2>2. UNCHANGED <<gone, closeVars>>
    BY <1>6 DEF TurnWithoutPost, RF!HeadPartial, RF!BodyPartial, RF!MoreBody, RF!peer, closeVars
  <2> QED
    BY <1>6, <2>1, <2>2, LogicKept, SendingKept DEF TurnWithoutPost
<1>7. ASSUME NEW s \in Session, TurnWithPost(s) PROVE Parts'
  <2>1. Framing'
    BY <1>7, FramingMoves, FramingStep DEF TurnWithPost
  <2>2. UNCHANGED <<gone, closeVars>>
    BY <1>7 DEF TurnWithPost, RF!BodyComplete, RF!peer, closeVars
  <2>3. Logic'
    <3> DEFINE m == [s |-> s, k |-> Len(received[s]) + 1]
    <3>1. FP!HeadComplete(s)
      BY <1>7, FramingHead DEF TurnWithPost, RF!BodyComplete
    <3>2. Received(s) + 1 \in 1..Rounds
      BY <3>1, LastHead
    <3>3. m \in Message
      BY <3>2 DEF Message, Received
    <3>4. LS!PostMsgToQue(m)
      BY <1>7 DEF TurnWithPost
    <3> HIDE DEF m
    <3>5. LP!PostMsgToQue(m)
      BY <3>4, LogicSteps
    <3> QED
      BY <3>3, <3>5, LP!PostInv DEF Logic
  <2> QED
    BY <1>7, <2>1, <2>2, <2>3, SendingKept DEF TurnWithPost
<1>8. ASSUME NEW s \in Session, SocketWrites(s) PROVE Parts'
  <2>1. SP!StepOf(s)
    BY <1>8, SendingSteps DEF SocketWrites, SP!StepOf, SP!WriteStep
  <2> QED
    BY <1>8, <2>1, FramingKept, LogicKept, SendingStep DEF SocketWrites
<1>9. ASSUME NEW s \in Session, HandleWrite(s) PROVE Parts'
  <2>1. SP!StepOf(s)
    BY <1>9, SendingSteps DEF HandleWrite, SP!StepOf, SP!WriteStep
  <2>2. UNCHANGED closeVars \/ SP!CloseAndClear(s)
    BY <1>9, SendingSteps DEF HandleWrite, SP!HandleWrite, SP!HandleWriteError, closeVars
  <2> QED
    BY <1>9, <2>1, <2>2, FramingClosed, LogicKept, SendingStep DEF HandleWrite
<1>10. CASE WorkerStep \/ SpuriousWakeup
  <2>1. Logic'
    BY <1>10, LogicSteps, LP!ControlInv, LP!PopInv DEF WorkerStep, SpuriousWakeup, Logic
  <2>2. UNCHANGED gone
    BY <1>10 DEF WorkerStep, SpuriousWakeup, framingVars
  <2> QED
    BY <1>10, <2>1, <2>2, FramingKept, SendingKept DEF WorkerStep, SpuriousWakeup
<1>11. CASE CallBack
  <2> DEFINE m == Head(msg_que)
  <2>1. LS!Deal /\ SQ!Send(m.s, m) /\ UNCHANGED framingVars
    BY <1>11 DEF CallBack
  <2>2. Logic'
    BY <2>1, LogicSteps, LP!CallBackInv DEF Logic
  <2>3. m \in Message /\ m.s \in Session
    BY <2>1, FrontIsMessage
  <2> HIDE DEF m
  <2>4. SP!Send(m.s, m)
    BY <2>1, <2>3, SendingSteps
  <2>5. Sending'
    BY <2>3, <2>4, SendingStep DEF SP!StepOf
  <2>6. UNCHANGED closeVars
    BY <2>4 DEF SP!Send, SP!SendRefused, SP!SendQueued, SP!SendWritten, closeVars
  <2> QED
    BY <2>1, <2>2, <2>5, <2>6, FramingKept
<1> QED
  BY <1>1, <1>2, <1>3, <1>4, <1>5, <1>6, <1>7, <1>8, <1>9, <1>10, <1>11 DEF Next, SessionStep

-----------------------------------------------------------------------------
(* The first property: a split body is followed by nothing.                 *)

LEMMA Starves == Parts /\ Flow => SplitStarves
<1> SUFFICES ASSUME Parts, Flow, NEW s \in Session
             PROVE  /\ split[s] => /\ b_head_parse[s]
                                   /\ Len(data[s]) + Len(net[s]) < RF!RemainMsg(s)
                    /\ RF!HeadComplete(s) => RF!Decode(s, RF!Head4(s)) \subseteq BodyLen
  BY DEF SplitStarves
<1>1. split[s] => b_head_parse[s] /\ Len(data[s]) + Len(net[s]) < RF!RemainMsg(s)
  BY FramingHead DEF Flow, FlowInv, SplitInv
<1>2. ASSUME RF!HeadComplete(s) PROVE RF!Decode(s, RF!Head4(s)) \subseteq BodyLen
  <2>1. FP!HeadComplete(s)
    BY <1>2, FramingHead
  <2>2. /\ lens[s][Asked(s)] \in BodyLen
        /\ RF!Decode(s, RF!Head4(s)) = {lens[s][Asked(s)]}
    BY <2>1, FramingHead, LastHead
  <2> QED
    BY <2>2
<1> QED
  BY <1>1, <1>2

-----------------------------------------------------------------------------
(* Each step keeps the cycle.                                               *)

LEMMA FlowInit == Init => Flow
<1> SUFFICES ASSUME Init PROVE Flow
  OBVIOUS
<1>1. FlowType
  BY DEF FlowType, Init
<1>2. ASSUME NEW c \in Session PROVE FlowInv(c)
  <2>1. /\ client[c] = "write" /\ got[c] = 0
        /\ lens[c] = << >> /\ received[c] = << >> /\ accepted[c] = << >> /\ wire[c] = << >>
        /\ refused[c] = << >> /\ send_que[c] = << >> /\ split[c] = FALSE
        /\ msg_que = << >> /\ pc = "lock"
    BY DEF Init, RF!Init, LS!Init, SQ!Init
  <2>2. /\ Asked(c) = 0 /\ Received(c) = 0 /\ Sent(c) = 0 /\ Len(wire[c]) = 0
        /\ Len(send_que[c]) = 0
    BY <2>1 DEF Asked, Received, Sent
  <2>3. AskInv(c)
    BY <2>1, <2>2, Assumptions DEF AskInv
  <2>4. ReplyInv(c)
    BY <2>1, <2>2 DEF ReplyInv
  <2>5. DueInv(c)
    <3>1. LP!Owed = << >>
      BY <2>1 DEF LP!Owed
    <3> QED
      BY <2>2, <3>1 DEF DueInv
  <2>6. SplitInv(c)
    BY <2>1 DEF SplitInv
  <2> QED
    BY <2>3, <2>4, <2>5, <2>6 DEF FlowInv
<1> QED
  BY <1>1, <1>2 DEF Flow

\* What a step leaves alone.
LEMMA AskKept ==
  ASSUME NEW c, AskInv(c), client'[c] = client[c], got'[c] = got[c], lens'[c] = lens[c],
         Len(wire[c]) <= Len(wire'[c]), Len(wire[c]) \in Nat, Len(wire'[c]) \in Nat
  PROVE  AskInv(c)'
BY DEF AskInv, Asked

LEMMA ReplyKept ==
  ASSUME NEW c, ReplyInv(c), accepted'[c] = accepted[c], refused'[c] = refused[c],
         send_que'[c] = send_que[c], wire'[c] = wire[c]
  PROVE  ReplyInv(c)'
BY DEF ReplyInv, Sent

LEMMA DueKept ==
  ASSUME NEW c, DueInv(c), received'[c] = received[c], accepted'[c] = accepted[c],
         LP!Owed' = LP!Owed
  PROVE  DueInv(c)'
BY DEF DueInv, Received, Sent

LEMMA SplitKept ==
  ASSUME NEW c, SplitInv(c), split'[c] = split[c], b_head_parse'[c] = b_head_parse[c],
         received'[c] = received[c], lens'[c] = lens[c], data'[c] = data[c],
         net'[c] = net[c], recv_msg'[c] = recv_msg[c]
  PROVE  SplitInv(c)'
BY DEF SplitInv, Received, Asked, FP!RemainMsg

LEMMA OwedKept ==
  ASSUME UNCHANGED logicVars
  PROVE  LP!Owed' = LP!Owed
BY DEF logicVars, LP!Owed

\* Sessions other than the one that moves.
SameFlow(r) ==
  /\ client'[r] = client[r] /\ got'[r] = got[r] /\ lens'[r] = lens[r]
  /\ received'[r] = received[r] /\ accepted'[r] = accepted[r] /\ refused'[r] = refused[r]
  /\ send_que'[r] = send_que[r] /\ wire'[r] = wire[r] /\ split'[r] = split[r]
  /\ b_head_parse'[r] = b_head_parse[r] /\ data'[r] = data[r] /\ net'[r] = net[r]
  /\ recv_msg'[r] = recv_msg[r]

LEMMA OtherKept ==
  ASSUME NEW r, FlowInv(r), SameFlow(r), DueInv(r)'
  PROVE  FlowInv(r)'
<1>1. AskInv(r)'
  BY DEF FlowInv, AskInv, SameFlow, Asked
<1>2. ReplyInv(r)'
  BY ReplyKept DEF FlowInv, SameFlow
<1>3. SplitInv(r)'
  BY SplitKept DEF FlowInv, SameFlow
<1> QED
  BY <1>1, <1>2, <1>3 DEF FlowInv

LEMMA FramingTypes ==
  ASSUME Parts
  PROVE  /\ lens \in [Session -> Seq(BodyLen)] /\ net \in [Session -> Seq(FP!Byte)]
         /\ data \in [Session -> Seq(FP!Byte)] /\ recv_head \in [Session -> Seq(FP!Byte)]
         /\ recv_msg \in [Session -> [total : Int, data : Seq(FP!Byte)]]
         /\ received \in [Session -> Seq([head : Seq(FP!Byte), data : Seq(FP!Byte)])]
         /\ b_head_parse \in [Session -> BOOLEAN] /\ split \in [Session -> BOOLEAN]
BY DEF Parts, Framing, FP!IInv, FP!TypeOK

LEMMA SendingTypes ==
  ASSUME Parts
  PROVE  /\ send_que \in [Session -> Seq(Message)] /\ accepted \in [Session -> Seq(Message)]
         /\ wire \in [Session -> Seq(SP!Piece)] /\ writes \in [Session -> Seq(SP!Write)]
         /\ refused \in [Session -> Seq(Message)]
BY DEF Parts, Sending, SP!IInv, SP!TypeOK

LEMMA ClientWritesFlow ==
  ASSUME Parts, Flow, NEW c \in Session, NEW len \in BodyLen, ClientWrites(c, len)
  PROVE  Flow'
<1> USE DEF ClientWrites, RF!PeerWrites, sendVars, logicVars
<1>1. FlowType'
  BY DEF Flow, FlowType
<1>2. LP!Owed' = LP!Owed
  BY OwedKept
<1>3. ASSUME NEW r \in Session PROVE DueInv(r)'
  BY <1>2, DueKept DEF Flow, FlowInv
<1>4. ASSUME NEW r \in Session, r # c PROVE FlowInv(r)'
  <2>1. SameFlow(r)
    BY <1>4, FramingTypes DEF SameFlow, Flow, FlowType
  <2> QED
    BY <1>3, <2>1, OtherKept DEF Flow, FlowInv
<1>5. FlowInv(c)'
  <2>1. /\ Asked(c) \in Nat /\ Received(c) \in Nat /\ Sent(c) \in Nat
        /\ Asked(c) = Sent(c) /\ Received(c) = Sent(c)
    BY Lengths, Counted
  <2>2. Asked(c)' = Asked(c) + 1 /\ Asked(c) < Rounds
    <3>1. lens'[c] = Append(lens[c], len) /\ lens[c] \in Seq(BodyLen)
      BY FramingTypes
    <3> QED
      BY <3>1 DEF Asked
  <2>3. AskInv(c)'
    <3>1. client'[c] = "readHead" /\ got'[c] = got[c] /\ wire' = wire /\ client[c] = "write"
      BY DEF Flow, FlowType
    <3>2. AskInv(c)
      BY DEF Flow, FlowInv
    <3>3. got[c] \in Nat /\ got[c] = 2 * Asked(c) /\ got[c] <= Len(wire[c])
      BY <3>1, <3>2 DEF AskInv
    <3>4. got[c] + 2 = 2 * Asked(c)' /\ Asked(c)' <= Rounds
      BY <2>1, <2>2, <3>3, Assumptions
    <3> HIDE DEF ClientWrites, RF!PeerWrites, sendVars, logicVars
    <3> QED
      BY <3>1, <3>3, <3>4 DEF AskInv
  <2>4. ReplyInv(c)'
    BY ReplyKept DEF Flow, FlowInv
  <2>5. ~split[c]
    <3>1. SplitInv(c)
      BY DEF Flow, FlowInv
    <3>2. Received(c) + 1 # Asked(c)
      BY <2>1
    <3> QED
      BY <3>1, <3>2, Zenon DEF SplitInv
  <2> QED
    BY <1>3, <2>3, <2>4, <2>5 DEF FlowInv, SplitInv
<1> QED
  BY <1>1, <1>4, <1>5 DEF Flow

LEMMA ClientReadsFlow ==
  ASSUME Parts, Flow, NEW c \in Session, ClientReads(c)
  PROVE  Flow'
<1> USE DEF ClientReads, framingVars, sendVars, logicVars
<1>1. client[c] \in {"write", "readHead", "readBody"} /\ got[c] \in Nat
  BY DEF Flow, FlowType
<1>2. FlowType'
  BY <1>1 DEF Flow, FlowType
<1>3. LP!Owed' = LP!Owed
  BY OwedKept
<1>4. ASSUME NEW r \in Session PROVE DueInv(r)'
  BY <1>3, DueKept DEF Flow, FlowInv
<1>5. ASSUME NEW r \in Session, r # c PROVE FlowInv(r)'
  <2>1. SameFlow(r)
    BY <1>5 DEF SameFlow, Flow, FlowType
  <2> QED
    BY <1>4, <2>1, OtherKept DEF Flow, FlowInv
<1>6. FlowInv(c)'
  <2>1. AskInv(c)'
    <3>1. /\ got'[c] = got[c] + 1
          /\ client'[c] = IF client[c] = "readHead" THEN "readBody" ELSE "write"
      BY DEF Flow, FlowType
    <3>2. AskInv(c) /\ Asked(c)' = Asked(c) /\ wire' = wire
      BY DEF Flow, FlowInv, Asked
    <3>3. Asked(c) \in Nat /\ Len(wire[c]) \in Nat
      BY Lengths
    <3>4. got[c] + 1 <= Len(wire[c])
      BY <1>1, <3>3
    <3>5. CASE client[c] = "readHead"
      BY <1>1, <3>1, <3>2, <3>3, <3>4, <3>5 DEF AskInv
    <3>6. CASE client[c] = "readBody"
      BY <1>1, <3>1, <3>2, <3>3, <3>4, <3>6 DEF AskInv
    <3> QED
      BY <3>5, <3>6
  <2>2. ReplyInv(c)' /\ SplitInv(c)'
    BY ReplyKept, SplitKept DEF Flow, FlowInv
  <2> QED
    BY <1>4, <2>1, <2>2 DEF FlowInv
<1> QED
  BY <1>2, <1>5, <1>6 DEF Flow

\* Steps that are nothing to the cycle.
LEMMA FlowKept ==
  ASSUME Flow, LP!Owed' = LP!Owed, UNCHANGED clientVars,
         \A r \in Session : SameFlow(r)
  PROVE  Flow'
<1>1. FlowType'
  BY DEF Flow, FlowType, clientVars
<1>2. ASSUME NEW r \in Session PROVE FlowInv(r)'
  <2>1. FlowInv(r) /\ SameFlow(r)
    BY DEF Flow
  <2>2. DueInv(r)'
    BY <2>1, DueKept DEF FlowInv, SameFlow
  <2> QED
    BY <2>1, <2>2, OtherKept
<1> QED
  BY <1>1, <1>2 DEF Flow

LEMMA CloseFlow ==
  ASSUME Parts, Flow, NEW s \in Session, ClientLeaves(s) \/ ReadFails(s)
  PROVE  Flow'
<1>1. UNCHANGED logicVars /\ UNCHANGED clientVars
  BY DEF ClientLeaves, ReadFails
<1>2. \A r \in Session : SameFlow(r)
  BY DEF ClientLeaves, ReadFails, RF!PeerLeaves, RF!ReadFails, RF!peer, SQ!HandleReadError,
         sendVars, clientVars, SameFlow
<1> QED
  BY <1>1, <1>2, OwedKept, FlowKept

\* The worker's own steps take nothing from what is due.
LEMMA WorkerFlow ==
  ASSUME Parts, Flow, WorkerStep \/ SpuriousWakeup
  PROVE  Flow'
<1>1. UNCHANGED clientVars /\ \A r \in Session : SameFlow(r)
  BY DEF WorkerStep, SpuriousWakeup, framingVars, sendVars, clientVars, SameFlow
<1>2. LP!Owed' = LP!Owed
  <2>1. /\ LS!Lock \/ LS!CheckCondition \/ LS!Wait \/ LS!Reacquire \/ LS!TestStop \/ LS!Pop
           \/ LS!SpuriousWakeup
    BY DEF WorkerStep, SpuriousWakeup
  <2>2. CASE LS!Pop
    BY <2>2 DEF LS!Pop, LP!Owed
  <2>3. CASE LS!Lock \/ LS!CheckCondition \/ LS!Wait \/ LS!Reacquire \/ LS!TestStop
             \/ LS!SpuriousWakeup
    BY <2>3 DEF LS!Lock, LS!CheckCondition, LS!Wait, LS!Reacquire, LS!TestStop,
                LS!SpuriousWakeup, LP!Owed
  <2> QED
    BY <2>1, <2>2, <2>3
<1> QED
  BY <1>1, <1>2, FlowKept

\* A turn, or a read, of session s: only its receiving half changes.
LEMMA TurnKept ==
  ASSUME Flow, NEW s \in Session, UNCHANGED <<logicVars, sendVars, clientVars, received, lens>>,
         \A r \in Session \ {s} : /\ split'[r] = split[r] /\ b_head_parse'[r] = b_head_parse[r]
                                  /\ data'[r] = data[r] /\ net'[r] = net[r]
                                  /\ recv_msg'[r] = recv_msg[r],
         SplitInv(s)'
  PROVE  Flow'
<1>1. FlowType'
  BY DEF Flow, FlowType, clientVars
<1>2. LP!Owed' = LP!Owed
  BY OwedKept
<1>3. ASSUME NEW r \in Session PROVE FlowInv(r)'
  <2>1. FlowInv(r)
    BY DEF Flow
  <2>2. /\ client' = client /\ got' = got /\ lens' = lens /\ received' = received
        /\ accepted' = accepted /\ refused' = refused /\ send_que' = send_que /\ wire' = wire
    BY DEF clientVars, sendVars
  <2>3. DueInv(r)'
    BY <1>2, <2>1, <2>2, DueKept DEF FlowInv
  <2>4. CASE r # s
    <3>1. SameFlow(r)
      BY <2>2, <2>4 DEF SameFlow
    <3> QED
      BY <2>1, <2>3, <3>1, OtherKept
  <2>5. CASE r = s
    <3>1. AskInv(r)'
      BY <2>1, <2>2 DEF FlowInv, AskInv, Asked
    <3>2. ReplyInv(r)'
      BY <2>1, <2>2, ReplyKept DEF FlowInv
    <3> QED
      BY <2>3, <2>5, <3>1, <3>2 DEF FlowInv
  <2> QED
    BY <2>4, <2>5
<1> QED
  BY <1>1, <1>3 DEF Flow

LEMMA ReceiveFlow ==
  ASSUME Parts, Flow, NEW s \in Session, Receive(s)
  PROVE  Flow'
<1>1. PICK n \in 1..MAX_LENGTH : n <= Len(net[s]) /\ RF!ReadCompletes(s, n)
  BY DEF Receive, RF!Receive
<1>2. /\ UNCHANGED <<logicVars, sendVars, clientVars, received, lens>>
      /\ UNCHANGED <<recv_msg, b_head_parse, split>>
      /\ data' = [data EXCEPT ![s] = SubSeq(net[s], 1, n)]
      /\ net' = [net EXCEPT ![s] = SubSeq(net[s], n + 1, Len(net[s]))]
  BY <1>1 DEF Receive, RF!ReadCompletes, RF!peer
<1>3. Len(data[s]) \in Nat /\ Len(net[s]) \in Nat /\ SplitInv(s)
  BY Lengths DEF Flow, FlowInv
<1>4. Len(data'[s]) + Len(net'[s]) = Len(net[s])
  <2>1. net[s] \in Seq(FP!Byte) /\ n \in Nat /\ n <= Len(net[s])
    BY <1>1, FramingTypes, Assumptions
  <2>2. data'[s] = SubSeq(net[s], 1, n) /\ net'[s] = SubSeq(net[s], n + 1, Len(net[s]))
    BY <1>2, FramingTypes
  <2>3. Len(data'[s]) = n /\ Len(net'[s]) = Len(net[s]) - n
    BY <2>1, <2>2
  <2> QED
    BY <1>3, <2>1, <2>3
<1>5. SplitInv(s)'
  <2>1. FP!RemainMsg(s)' = FP!RemainMsg(s)
    BY <1>2 DEF FP!RemainMsg
  <2>2. ASSUME split'[s] PROVE Len(data'[s]) + Len(net'[s]) < FP!RemainMsg(s)'
    <3>1. Len(data[s]) + Len(net[s]) < FP!RemainMsg(s)
      BY <1>2, <1>3, <2>2 DEF SplitInv
    <3>2. FP!RemainMsg(s) \in Int
      BY FramingTypes DEF FP!RemainMsg
    <3>3. Len(net[s]) < FP!RemainMsg(s)
      <4> DEFINE d == Len(data[s])
                 n1 == Len(net[s])
                 m == FP!RemainMsg(s)
      <4>1. d \in Nat /\ n1 \in Nat /\ m \in Int /\ d + n1 < m
        BY <1>3, <3>1, <3>2
      <4> HIDE DEF d, n1, m
      <4>2. n1 < m
        BY <4>1
      <4> QED
        BY <4>2 DEF n1, m
    <3> QED
      BY <1>4, <2>1, <3>3, Zenon
  <2> QED
    BY <1>2, <1>3, <2>2 DEF SplitInv, Received, Asked
<1>6. \A r \in Session \ {s} : data'[r] = data[r] /\ net'[r] = net[r]
  BY <1>2, FramingTypes
<1> QED
  BY <1>2, <1>5, <1>6, TurnKept

\* The other sessions keep what a turn of session s does not touch.
LEMMA TurnsOthers ==
  ASSUME Parts, NEW s \in Session,
         \/ FP!HeadPartial(s) \/ FP!MoreBody(s)
         \/ \E len \in BodyLen : FP!BodyPartial(s, len)
  PROVE  /\ UNCHANGED <<received, lens, net>>
         /\ \A r \in Session \ {s} : /\ split'[r] = split[r]
                                     /\ b_head_parse'[r] = b_head_parse[r]
                                     /\ data'[r] = data[r] /\ recv_msg'[r] = recv_msg[r]
BY FramingTypes DEF FP!HeadPartial, FP!MoreBody, FP!BodyPartial, FP!peer

LEMMA HeadPartialFlow ==
  ASSUME Parts, Flow, NEW s \in Session, FP!HeadPartial(s)
  PROVE  SplitInv(s)'
<1>1. SplitInv(s)
  BY DEF Flow, FlowInv
<1> QED
  BY <1>1 DEF FP!HeadPartial, SplitInv

\* Nothing is on its way that could complete the body.
LEMMA MoreBodyFlow ==
  ASSUME Parts, Flow, NEW s \in Session, FP!MoreBody(s)
  PROVE  SplitInv(s)'
<1>1. SplitInv(s) /\ Len(data[s]) \in Nat /\ Len(net[s]) \in Nat
  BY Lengths DEF Flow, FlowInv
<1>2. /\ b_head_parse' = b_head_parse /\ split' = split /\ lens' = lens /\ received' = received
      /\ net' = net
  BY DEF FP!MoreBody, FP!peer
<1>3. data'[s] = << >>
  BY FramingTypes DEF FP!MoreBody
<1>4. FP!RemainMsg(s)' = FP!RemainMsg(s) - Len(data[s]) /\ FP!RemainMsg(s) \in Int
  <2>1. /\ recv_msg[s].total \in Int /\ recv_msg[s].data \in Seq(FP!Byte)
        /\ data[s] \in Seq(FP!Byte)
    BY FramingTypes
  <2>2. /\ recv_msg'[s].total = recv_msg[s].total
        /\ recv_msg'[s].data = recv_msg[s].data \o data[s]
    BY FramingTypes DEF FP!MoreBody
  <2>3. Len(recv_msg'[s].data) = Len(recv_msg[s].data) + Len(data[s])
    BY <2>1, <2>2
  <2>4. Len(recv_msg[s].data) \in Nat
    BY <2>1
  <2> QED
    <3> DEFINE t == recv_msg[s].total
               d == Len(data[s])
               b == Len(recv_msg[s].data)
    <3>1. FP!RemainMsg(s) = t - b /\ FP!RemainMsg(s)' = t - (b + d)
      BY <2>2, <2>3, Zenon DEF FP!RemainMsg
    <3>2. t \in Int /\ d \in Nat /\ b \in Nat
      BY <2>1, <2>4
    <3> HIDE DEF t, d, b
    <3>3. t - (b + d) = (t - b) - d /\ t - b \in Int
      BY <3>2
    <3> QED
      BY <3>1, <3>3 DEF d
<1>5. ASSUME split[s] PROVE Len(data'[s]) + Len(net'[s]) < FP!RemainMsg(s)'
  <2> DEFINE d == Len(data[s])
             n1 == Len(net[s])
             m == FP!RemainMsg(s)
  <2>1. d + n1 < m
    BY <1>1, <1>5 DEF SplitInv
  <2>2. d \in Nat /\ n1 \in Nat /\ m \in Int
    BY <1>1, <1>4
  <2>3. Len(data'[s]) = 0 /\ Len(net'[s]) = n1 /\ FP!RemainMsg(s)' = m - d
    BY <1>2, <1>3, <1>4
  <2> HIDE DEF d, n1, m
  <2>4. 0 + n1 < m - d
    BY <2>1, <2>2
  <2> QED
    BY <2>3, <2>4, Zenon
<1> QED
  BY <1>1, <1>2, <1>5 DEF SplitInv, Received, Asked

\* What is not posted yet is the one frame whose head is complete.
LEMMA LastFrame ==
  ASSUME Parts, Flow, NEW s \in Session, FP!HeadComplete(s)
  PROVE  /\ Len(FP!Rest(s)) = HEAD_TOTAL_LEN + lens[s][Asked(s)]
         /\ Len(FP!Rest(s)) = Len(recv_head[s]) + (Len(data[s]) + Len(net[s]))
         /\ lens[s][Asked(s)] \in Nat
<1> DEFINE R == Received(s)
           n == HEAD_TOTAL_LEN + lens[s][Asked(s)]
<1>1. /\ R + 1 = Asked(s) /\ R \in Nat
      /\ FP!Framed(FP!Rest(s), lens[s], R) /\ lens[s][Asked(s)] \in BodyLen
  BY LastHead, Lengths
<1>2. PICK st : FP!IsFraming(st, FP!Rest(s), lens[s], R)
  BY <1>1, Zenon DEF FP!Framed
<1>3. Len(lens[s]) = R + 1
  BY <1>1 DEF Asked
<1> HIDE DEF R
<1>4. /\ st[R + 1] = 0 /\ st[(R + 1) + 1] = Len(FP!Rest(s))
      /\ \A j \in (R + 1)..(R + 1) : st[j + 1] = st[j] + (HEAD_TOTAL_LEN + lens[s][j])
  BY <1>2, <1>3 DEF FP!IsFraming
<1>5. R + 1 \in (R + 1)..(R + 1)
  BY <1>1
<1>6. st[(R + 1) + 1] = st[R + 1] + (HEAD_TOTAL_LEN + lens[s][R + 1])
  BY <1>4, <1>5
<1>7. lens[s][Asked(s)] \in Nat /\ n \in Nat
  <2>1. lens[s][Asked(s)] \in BodyLen
    BY <1>1
  <2>2. \A x \in BodyLen : x \in Nat
    BY Assumptions
  <2>3. lens[s][Asked(s)] \in Nat
    BY <2>1, <2>2, Zenon
  <2>4. HEAD_TOTAL_LEN \in Nat
    BY Assumptions
  <2> QED
    BY <2>3, <2>4
<1>8. Len(FP!Rest(s)) = n
  BY <1>1, <1>4, <1>6, <1>7
<1>9. Len(FP!Rest(s)) = Len(recv_head[s]) + (Len(data[s]) + Len(net[s]))
  BY FramingTypes DEF FP!Rest
<1> QED
  BY <1>7, <1>8, <1>9

LEMMA BodyPartialFlow ==
  ASSUME Parts, Flow, NEW s \in Session, NEW len \in BodyLen, FP!BodyPartial(s, len)
  PROVE  SplitInv(s)'
<1>1. FP!HeadComplete(s) /\ len \in FP!Decode(s, FP!Head4(s))
  BY DEF FP!BodyPartial
<1>2. len = lens[s][Asked(s)] /\ Received(s) + 1 = Asked(s)
  BY <1>1, LastHead
<1>3. /\ b_head_parse'[s] = TRUE /\ data'[s] = << >> /\ net' = net
      /\ lens' = lens /\ received' = received
      /\ recv_msg'[s] = [total |-> len + HEAD_TOTAL_LEN, data |-> FP!AfterHead(s)]
  BY FramingTypes DEF FP!BodyPartial, FP!peer
<1>4. Len(FP!AfterHead(s)) = (Len(data[s]) + Len(recv_head[s])) - HEAD_TOTAL_LEN
  <2>1. FP!IInv
    BY DEF Parts, Framing
  <2>2. data[s] \in Seq(FP!Byte) /\ Len(recv_head[s]) \in Nat
        /\ Len(recv_head[s]) <= HEAD_TOTAL_LEN
    BY <2>1, Lengths, FramingTypes DEF FP!IInv, FP!TypeOK
  <2>3. ~(Len(data[s]) + Len(recv_head[s]) < HEAD_TOTAL_LEN)
    BY <1>1, Zenon DEF FP!HeadComplete, FP!HeadShort
  <2> DEFINE d == data[s]
             h == Len(recv_head[s])
             H == HEAD_TOTAL_LEN
  <2>4. d \in Seq(FP!Byte) /\ h \in Nat /\ h <= H /\ H \in Nat /\ ~(Len(d) + h < H)
    BY <2>2, <2>3, Assumptions
  <2>5. FP!AfterHead(s) = SubSeq(d, (H - h) + 1, Len(d))
    BY Zenon DEF FP!AfterHead, FP!HeadRemain
  <2> HIDE DEF d, h, H
  <2>6. Len(SubSeq(d, (H - h) + 1, Len(d))) = (Len(d) + h) - H
    <3>1. Len(d) \in Nat /\ (H - h) + 1 \in Nat \ {0} /\ (H - h) + 1 <= Len(d) + 1
      BY <2>4
    <3> QED
      BY <2>4, <3>1
  <2> QED
    BY <2>5, <2>6, Zenon DEF d, h, H
<1>5. /\ Len(recv_head[s]) + (Len(data[s]) + Len(net[s])) = HEAD_TOTAL_LEN + len
      /\ len \in Nat
  BY <1>1, <1>2, LastFrame
<1>6. FP!RemainMsg(s)' = (len + HEAD_TOTAL_LEN) - Len(FP!AfterHead(s))
  BY <1>3 DEF FP!RemainMsg
<1>7. Len(data'[s]) = 0
  BY <1>3
<1>8. Len(net[s]) \in Nat /\ Len(data[s]) \in Nat /\ Len(recv_head[s]) \in Nat
  BY Lengths
<1>9. Len(data'[s]) + Len(net'[s]) < FP!RemainMsg(s)'
  <2> DEFINE a == Len(FP!AfterHead(s))
             d == Len(data[s])
             h == Len(recv_head[s])
             n1 == Len(net[s])
             H == HEAD_TOTAL_LEN
  <2>1. /\ d \in Nat /\ h \in Nat /\ n1 \in Nat /\ H \in Nat \ {0} /\ len \in Nat
        /\ h + (d + n1) = H + len /\ a = (d + h) - H
    BY <1>4, <1>5, <1>8, Assumptions
  <2>2. Len(data'[s]) = 0 /\ Len(net'[s]) = n1 /\ FP!RemainMsg(s)' = (len + H) - a
    BY <1>3, <1>6, <1>7
  <2> HIDE DEF a, d, h, n1, H
  <2>3. 0 + n1 < (len + H) - a
    BY <2>1
  <2> QED
    BY <2>2, <2>3, Zenon
<1> QED
  BY <1>2, <1>3, <1>9 DEF SplitInv, Received, Asked

LEMMA TurnWithoutPostFlow ==
  ASSUME Parts, Flow, NEW s \in Session, TurnWithoutPost(s)
  PROVE  Flow'
<1>1. \/ FP!HeadPartial(s) \/ FP!MoreBody(s)
      \/ \E len \in BodyLen : FP!BodyPartial(s, len)
  BY FramingTurns DEF TurnWithoutPost
<1>2. SplitInv(s)'
  BY <1>1, HeadPartialFlow, MoreBodyFlow, BodyPartialFlow
<1>3. UNCHANGED <<logicVars, sendVars, clientVars>>
  BY DEF TurnWithoutPost
<1>4. /\ UNCHANGED <<received, lens, net>>
      /\ \A r \in Session \ {s} : /\ split'[r] = split[r]
                                  /\ b_head_parse'[r] = b_head_parse[r]
                                  /\ data'[r] = data[r] /\ recv_msg'[r] = recv_msg[r]
  BY <1>1, TurnsOthers
<1> QED
  BY <1>2, <1>3, <1>4, TurnKept

\* A message comes behind those that are due.
LEMMA PostOwed ==
  ASSUME Parts, NEW m \in Message, LP!PostMsgToQue(m)
  PROVE  LP!Owed \in Seq(Message) /\ LP!Owed' = Append(LP!Owed, m)
<1>1. LP!IInv
  BY DEF Parts, Logic
<1>2. msg_que \in Seq(Message) /\ mutex = "free" /\ msg_que' = Append(msg_que, m)
  BY <1>1 DEF LP!IInv, LP!TypeOK, LP!PostMsgToQue
<1>3. pc \notin {"pop", "drainPop"}
  BY <1>1, <1>2 DEF LP!IInv, LP!MutexInv, LP!Holding
<1>4. pc' = pc \/ pc' = "woken"
  BY DEF LP!PostMsgToQue, LP!AfterNotify
<1>5. LP!Owed = msg_que /\ LP!Owed' = msg_que'
  BY <1>3, <1>4 DEF LP!Owed
<1> QED
  BY <1>2, <1>5

LEMMA PostDueOther ==
  ASSUME NEW o \in Seq(Message), NEW m, NEW r, NEW c, m.s = c, r # c,
         NEW i \in 1..Len(Append(o, m)), Append(o, m)[i].s = r
  PROVE  i \in 1..Len(o) /\ Append(o, m)[i] = o[i]
OBVIOUS

LEMMA TurnWithPostFlow ==
  ASSUME Parts, Flow, NEW s \in Session, TurnWithPost(s)
  PROVE  Flow'
<1> DEFINE m == [s |-> s, k |-> Len(received[s]) + 1]
           o == LP!Owed
<1>1. PICK len \in BodyLen : FP!BodyComplete(s, len)
  BY FramingTurns DEF TurnWithPost
<1>2. LP!PostMsgToQue(m)
  BY LogicSteps DEF TurnWithPost
<1>3. /\ ~split[s] /\ Received(s) + 1 = Asked(s) /\ Sent(s) = Received(s)
      /\ Received(s) + 1 \in 1..Rounds /\ Received(s) \in Nat
  <2>1. FP!HeadComplete(s)
    BY <1>1 DEF FP!BodyComplete
  <2> QED
    BY <2>1, LastHead, Lengths
<1>4. /\ UNCHANGED <<lens, net, split>>
      /\ Received(s)' = Received(s) + 1
      /\ \A r \in Session \ {s} : /\ received'[r] = received[r] /\ data'[r] = data[r]
                                  /\ recv_msg'[r] = recv_msg[r]
                                  /\ b_head_parse'[r] = b_head_parse[r]
  <2>1. /\ UNCHANGED <<lens, net, split>>
        /\ \E x : received' = [received EXCEPT ![s] = Append(received[s], x)]
        /\ \A r \in Session \ {s} : /\ data'[r] = data[r]
                                    /\ recv_msg'[r] = recv_msg[r]
                                    /\ b_head_parse'[r] = b_head_parse[r]
    BY <1>1, FramingTypes DEF FP!BodyComplete, FP!Post, FP!peer
  <2>2. PICK x : received' = [received EXCEPT ![s] = Append(received[s], x)]
    BY <2>1
  <2>3. /\ received'[s] = Append(received[s], x)
        /\ \A r \in Session \ {s} : received'[r] = received[r]
    BY <2>2, FramingTypes
  <2>4. Len(received'[s]) = Len(received[s]) + 1
    BY <2>3, FramingTypes
  <2> QED
    BY <2>1, <2>3, <2>4 DEF Received
<1>5. UNCHANGED sendVars /\ UNCHANGED clientVars
  BY DEF TurnWithPost
<1>6. m \in Message
  BY <1>3 DEF Message, Received
<1>7. o \in Seq(Message) /\ LP!Owed' = Append(o, m)
  BY <1>2, <1>6, PostOwed
<1>8. FlowType'
  BY <1>5 DEF Flow, FlowType, clientVars
<1>9. m.s = s /\ m.k = Received(s) + 1
  BY DEF Received
<1> HIDE DEF m, o
<1>10. ASSUME NEW r \in Session, r # s PROVE FlowInv(r)'
  <2>1. FlowInv(r) /\ SameFlow(r)
    BY <1>4, <1>5, <1>10 DEF Flow, SameFlow, sendVars, clientVars
  <2>2. \A i \in DOMAIN LP!Owed' : LP!Owed'[i].s = r => i \in DOMAIN o /\ LP!Owed'[i] = o[i]
    <3> SUFFICES ASSUME NEW i \in DOMAIN LP!Owed', LP!Owed'[i].s = r
                 PROVE  i \in DOMAIN o /\ LP!Owed'[i] = o[i]
      OBVIOUS
    <3>1. i \in 1..Len(Append(o, m)) /\ Append(o, m)[i].s = r
      BY <1>7
    <3>2. i \in 1..Len(o) /\ Append(o, m)[i] = o[i]
      BY <1>7, <1>9, <1>10, <3>1, PostDueOther
    <3> QED
      BY <1>7, <3>2
  <2>3. DueInv(r)'
    <3>1. Received(r)' = Received(r) /\ Sent(r)' = Sent(r)
      BY <2>1 DEF SameFlow, Received, Sent
    <3>2. DueInv(r)
      BY <2>1 DEF FlowInv
    <3> QED
      BY <2>2, <3>1, <3>2, Zenon DEF DueInv, o
  <2> QED
    BY <2>1, <2>3, OtherKept
<1>11. FlowInv(s)'
  <2>1. AskInv(s)' /\ ReplyInv(s)'
    <3>1. FlowInv(s)
      BY DEF Flow
    <3> QED
      BY <1>4, <1>5, <3>1, ReplyKept DEF FlowInv, AskInv, Asked, sendVars, clientVars
  <2>2. SplitInv(s)'
    BY <1>3, <1>4 DEF SplitInv
  <2>3. DueInv(s)'
    <3>1. Received(s)' = Sent(s) + 1 /\ Sent(s)' = Sent(s) /\ m.k = Sent(s) + 1
          /\ Received(s) # Sent(s) + 1
      BY <1>3, <1>4, <1>5, <1>9 DEF Sent, sendVars
    <3>2. \A i \in DOMAIN o : o[i].s # s
      BY <3>1 DEF Flow, FlowInv, DueInv, o
    <3>3. \A i \in DOMAIN LP!Owed' : LP!Owed'[i].s = s => i = Len(o) + 1 /\ LP!Owed'[i] = m
      BY <1>7, <3>2
    <3> QED
      BY <3>1, <3>3 DEF DueInv
  <2> QED
    BY <2>1, <2>2, <2>3 DEF FlowInv
<1> QED
  BY <1>8, <1>10, <1>11 DEF Flow

\* What the wire holds beyond the popped replies is of one write.
LEMMA WireBound ==
  ASSUME Sending, NEW s \in Session, writes[s] # << >>
  PROVE  Len(wire[s]) <= 2 * ((Sent(s) - Len(send_que[s])) + 1)
<1> DEFINE p == Sent(s) - Len(send_que[s])
           w == Len(wire[s])
           t == writes[s][1].sent
<1>1. SP!TypeOK /\ SP!WireInv(s)
  BY DEF Sending, SP!IInv
<1>2. p \in Nat /\ w = p * 2 + t
  BY <1>1, Assumptions DEF SP!WireInv, SP!QueueIsRest, Sent
<1>3. t \in 0..2
  <2>1. writes[s] \in Seq(SP!Write)
    BY <1>1 DEF SP!TypeOK
  <2>2. writes[s][1] \in SP!Write
    BY <2>1
  <2> QED
    BY <2>2, Assumptions DEF SP!Write
<1> HIDE DEF p, w, t
<1>4. w <= 2 * (p + 1)
  BY <1>2, <1>3
<1> QED
  BY <1>4 DEF p, w

WireBounded ==
  \A s \in Session :
     writes[s] # << >> => Len(wire[s]) <= 2 * ((Sent(s) - Len(send_que[s])) + 1)

LEMMA WiresBounded == Sending => WireBounded
BY WireBound DEF WireBounded

LEMMA SocketWritesFlow ==
  ASSUME Parts, Parts', Flow, NEW s \in Session, SocketWrites(s)
  PROVE  Flow'
<1>1. PICK i \in DOMAIN writes[s] : SP!Transfer(s, i) \/ SP!WriteFails(s, i)
  BY SendingSteps DEF SocketWrites
<1>2. UNCHANGED framingVars /\ UNCHANGED logicVars /\ UNCHANGED clientVars
  BY DEF SocketWrites
<1>3. /\ UNCHANGED <<send_que, accepted, refused>>
      /\ \A r \in Session \ {s} : wire'[r] = wire[r]
      /\ wire' = wire \/ (/\ \E x : wire'[s] = Append(wire[s], x)
                          /\ writes'[s] # << >>)
  <2>1. CASE SP!WriteFails(s, i)
    BY <2>1 DEF SP!WriteFails
  <2>2. CASE SP!Transfer(s, i)
    <3>1. UNCHANGED <<send_que, accepted, refused>>
      BY <2>2 DEF SP!Transfer
    <3>2. PICK x : wire' = [wire EXCEPT ![s] = Append(@, x)]
      BY <2>2 DEF SP!Transfer
    <3>3. PICK y : writes' = [writes EXCEPT ![s][i] = y]
      BY <2>2 DEF SP!Transfer
    <3>4. wire'[s] = Append(wire[s], x) /\ \A r \in Session \ {s} : wire'[r] = wire[r]
      BY <3>2, SendingTypes
    <3>5. writes'[s] = [writes[s] EXCEPT ![i] = y] /\ writes[s] \in Seq(SP!Write)
      BY <3>3, SendingTypes
    <3>6. DOMAIN writes'[s] # {}
      BY <1>1, <3>5
    <3>7. writes'[s] # << >>
      BY <3>6
    <3> QED
      BY <3>1, <3>4, <3>7
  <2> QED
    BY <1>1, <2>1, <2>2
<1>4. FlowType'
  BY <1>2 DEF Flow, FlowType, clientVars
<1>5. LP!Owed' = LP!Owed
  BY <1>2, OwedKept
<1>6. ASSUME NEW r \in Session PROVE DueInv(r)'
  <2>1. received' = received /\ accepted' = accepted
    BY <1>2, <1>3 DEF framingVars
  <2> QED
    BY <1>5, <2>1, DueKept DEF Flow, FlowInv
<1>7. ASSUME NEW r \in Session, SameFlow(r) PROVE FlowInv(r)'
  BY <1>6, <1>7, OtherKept DEF Flow
<1>8. CASE wire' = wire
  <2>1. \A r \in Session : SameFlow(r)
    BY <1>2, <1>3, <1>8 DEF SameFlow, framingVars, clientVars
  <2> QED
    BY <1>4, <1>7, <2>1 DEF Flow
<1>9. CASE wire' # wire
  <2>1. \A r \in Session \ {s} : SameFlow(r)
    BY <1>2, <1>3 DEF SameFlow, framingVars, clientVars
  <2>2. FlowInv(s)
    BY DEF Flow
  <2>3. AskInv(s)'
    <3>1. PICK x : wire'[s] = Append(wire[s], x)
      BY <1>3, <1>9
    <3>2. Len(wire[s]) \in Nat /\ Len(wire'[s]) = Len(wire[s]) + 1
      BY <3>1, SendingTypes
    <3>3. Len(wire[s]) <= Len(wire'[s]) /\ Len(wire'[s]) \in Nat
      BY <3>2
    <3>4. client'[s] = client[s] /\ got'[s] = got[s] /\ lens'[s] = lens[s]
      BY <1>2 DEF framingVars, clientVars
    <3> QED
      BY <2>2, <3>2, <3>3, <3>4, AskKept DEF FlowInv
  <2>4. ReplyInv(s)'
    <3>1. Sending' /\ writes'[s] # << >>
      BY <1>3, <1>9 DEF Parts
    <3>2. WireBounded'
      BY <3>1, WiresBounded, PTL
    <3>3. ReplyInv(s) /\ accepted' = accepted /\ refused' = refused
      BY <1>3, <2>2 DEF FlowInv
    <3> QED
      BY <3>1, <3>2, <3>3 DEF ReplyInv, Sent, WireBounded
  <2>5. SplitInv(s)'
    BY <1>2, <2>2, SplitKept DEF FlowInv, framingVars
  <2> QED
    BY <1>4, <1>6, <1>7, <2>1, <2>3, <2>4, <2>5 DEF Flow, FlowInv
<1> QED
  BY <1>8, <1>9

LEMMA HandleWriteFlow ==
  ASSUME Parts, Flow, NEW s \in Session, HandleWrite(s)
  PROVE  Flow'
<1>1. UNCHANGED framingVars /\ UNCHANGED logicVars /\ UNCHANGED clientVars
  BY DEF HandleWrite
<1>2. PICK i \in DOMAIN writes[s] : SP!HandleWrite(s, i) \/ SP!HandleWriteError(s, i)
  BY SendingSteps DEF HandleWrite
<1>3. UNCHANGED <<wire, accepted, refused>>
  BY <1>2 DEF SP!HandleWrite, SP!HandleWriteError
<1>4. \A r \in Session : send_que'[r] = send_que[r] \/ (r = s /\ send_que'[s] = Tail(send_que[s]))
  BY <1>2, SendingTypes DEF SP!HandleWrite, SP!HandleWriteError
<1>5. send_que[s] # << >>
  <2>1. writes[s] # << >>
    BY <1>2
  <2> QED
    BY <2>1 DEF Parts, Sending, SP!IInv, SP!WInv
<1>6. FlowType'
  BY <1>1 DEF Flow, FlowType, clientVars
<1>7. LP!Owed' = LP!Owed
  BY <1>1, OwedKept
<1>8. ASSUME NEW r \in Session PROVE FlowInv(r)'
  <2>1. FlowInv(r)
    BY DEF Flow
  <2>2. DueInv(r)'
    BY <1>1, <1>3, <1>7, <2>1, DueKept DEF framingVars, FlowInv
  <2>3. AskInv(r)'
    BY <1>1, <1>3, <2>1 DEF FlowInv, AskInv, Asked, framingVars, clientVars
  <2>4. SplitInv(r)'
    BY <1>1, <2>1, SplitKept DEF FlowInv, framingVars
  <2>5. ReplyInv(r)'
    <3>1. ReplyInv(r)
      BY <2>1 DEF FlowInv
    <3>2. CASE send_que'[r] = send_que[r]
      BY <1>3, <3>1, <3>2, ReplyKept
    <3>3. CASE r = s /\ send_que'[s] = Tail(send_que[s])
      <4> DEFINE q == Len(send_que[r])
                 w == Len(wire[r])
                 n == Sent(r)
      <4>1. Len(send_que'[r]) = q - 1
        BY <1>5, <3>3, SendingTypes
      <4>2. w \in Nat /\ n \in Nat /\ q \in Nat /\ w <= 2 * ((n - q) + 1)
        BY <3>1, Lengths DEF ReplyInv
      <4>3. Sent(r)' = n /\ Len(wire[r])' = w
        BY <1>3 DEF Sent
      <4> HIDE DEF q, w, n
      <4>4. w <= 2 * ((n - (q - 1)) + 1)
        BY <4>2
      <4>5. Len(wire'[r]) <= 2 * ((Sent(r)' - Len(send_que'[r])) + 1)
        BY <4>1, <4>3, <4>4, Zenon
      <4> QED
        BY <1>3, <3>1, <4>3, <4>5 DEF ReplyInv, n
    <3> QED
      BY <1>4, <3>2, <3>3
  <2> QED
    BY <2>2, <2>3, <2>4, <2>5 DEF FlowInv
<1> QED
  BY <1>6, <1>8 DEF Flow

\* The callback takes the front of what is due.
LEMMA DealOwed ==
  ASSUME Parts, LP!Deal
  PROVE  /\ LP!Owed \in Seq(Message) /\ LP!Owed # << >>
         /\ Head(msg_que) = LP!Owed[1]
         /\ LP!Owed' = Tail(LP!Owed)
<1>1. msg_que \in Seq(Message) /\ msg_que # << >> /\ pc = "deal"
  BY DEF Parts, Logic, LP!IInv, LP!TypeOK, LP!Deal
<1>2. pc' = "pop" /\ msg_que' = msg_que
  BY DEF LP!Deal, LP!CallBack
<1>3. LP!Owed = msg_que /\ LP!Owed' = Tail(msg_que)
  BY <1>1, <1>2 DEF LP!Owed
<1> QED
  BY <1>1, <1>3

\* When a reply is sent, at most one is on its way to the client.
LEMMA NeverFull ==
  ASSUME Parts, Flow, NEW c \in Session, Received(c) = Sent(c) + 1
  PROVE  ~SP!Full(c)
<1> DEFINE q == Len(send_que[c])
           w == Len(wire[c])
           n == Sent(c)
           a == Asked(c)
           g == got[c]
<1>1. w \in Nat /\ n \in Nat /\ q \in Nat /\ a \in Nat /\ g \in Nat
  BY Lengths DEF Flow, FlowType
<1>2. a >= n + 1
  BY <1>1, Counted, Lengths
<1>3. g + 2 >= 2 * a /\ g <= w
  <2>1. AskInv(c)
    BY DEF Flow, FlowInv
  <2>2. g = 2 * a \/ g + 2 = 2 * a \/ g + 1 = 2 * a
    BY <2>1 DEF AskInv
  <2>3. g <= w
    BY <2>1 DEF AskInv
  <2> HIDE DEF g, a, w
  <2> QED
    BY <1>1, <2>2, <2>3
<1>4. w <= 2 * ((n - q) + 1)
  BY DEF Flow, FlowInv, ReplyInv
<1>5. MAX_SENDQUE \in Nat \ {0}
  BY LimitAssumption
<1> HIDE DEF q, w, n, a, g
<1>6. q <= 1
  BY <1>1, <1>2, <1>3, <1>4
<1>7. ~(q > MAX_SENDQUE)
  BY <1>1, <1>5, <1>6
<1> QED
  BY <1>7 DEF SP!Full, q

LEMMA TailAt ==
  ASSUME NEW o \in Seq(Message), o # << >>, NEW i \in DOMAIN Tail(o)
  PROVE  i + 1 \in DOMAIN o /\ Tail(o)[i] = o[i + 1] /\ i \in Nat \ {0} /\ 1 \in DOMAIN o
OBVIOUS

LEMMA CallBackOf ==
  ASSUME Parts, Flow, CallBack,
         NEW h \in Message, NEW c \in Session, h = Head(msg_que), c = h.s
  PROVE  Flow'
<1> DEFINE o == LP!Owed
<1>1. /\ LS!Deal /\ SQ!Send(c, h)
      /\ UNCHANGED framingVars /\ UNCHANGED clientVars
  BY DEF CallBack
<1>2. o \in Seq(Message) /\ o # << >> /\ h = o[1] /\ LP!Owed' = Tail(o)
  BY <1>1, LogicSteps, DealOwed
<1>3. h.s = c
  OBVIOUS
<1>4. SP!Send(c, h)
  BY <1>1, SendingSteps
<1> HIDE DEF o
<1>5. 1 \in DOMAIN o
  BY <1>2
<1>6. h.k = Sent(c) + 1 /\ Received(c) = Sent(c) + 1
  <2>1. DueInv(c)
    BY <1>3 DEF Flow, FlowInv
  <2> QED
    BY <1>2, <1>5, <2>1, Zenon DEF DueInv, o
<1>7. h = [s |-> c, k |-> Sent(c) + 1]
  BY <1>3, <1>6 DEF Message
<1>8. /\ send_que' = [send_que EXCEPT ![c] = Append(send_que[c], h)]
      /\ accepted' = [accepted EXCEPT ![c] = Append(accepted[c], h)]
      /\ UNCHANGED <<wire, refused>>
  <2>1. ~SP!Full(c)
    BY <1>3, <1>6, NeverFull
  <2> QED
    BY <1>4, <2>1 DEF SP!Send, SP!SendRefused, SP!SendQueued, SP!SendWritten
<1>9. FlowType'
  BY <1>1 DEF Flow, FlowType, clientVars
<1>10. ASSUME NEW r \in Session, r # c PROVE FlowInv(r)'
  <2>1. SameFlow(r)
    BY <1>1, <1>8, <1>10, SendingTypes DEF SameFlow, framingVars, clientVars
  <2>2. DueInv(r)
    BY DEF Flow, FlowInv
  <2>3. Received(r)' = Received(r) /\ Sent(r)' = Sent(r)
    BY <2>1 DEF SameFlow, Received, Sent
  <2>4. \A i \in DOMAIN LP!Owed' : i + 1 \in DOMAIN o /\ LP!Owed'[i] = o[i + 1] /\ i \in Nat
    BY <1>2, TailAt
  <2>5. \A i, j \in DOMAIN LP!Owed' : i + 1 = j + 1 => i = j
    BY <2>4
  <2>6. \A i \in DOMAIN LP!Owed' :
           LP!Owed'[i].s = r => LP!Owed'[i].k = Sent(r) + 1 /\ Received(r) = Sent(r) + 1
    BY <2>2, <2>4, Zenon DEF DueInv, o
  <2>7. \A i, j \in DOMAIN LP!Owed' : LP!Owed'[i].s = r /\ LP!Owed'[j].s = r => i + 1 = j + 1
    BY <2>2, <2>4, Zenon DEF DueInv, o
  <2>8. DueInv(r)'
    BY <2>2, <2>3, <2>5, <2>6, <2>7, Zenon DEF DueInv
  <2> QED
    BY <2>1, <2>8, OtherKept DEF Flow
<1>11. FlowInv(c)'
  <2>1. FlowInv(c) /\ Sent(c) \in Nat
    BY <1>3, Lengths DEF Flow
  <2>2. /\ send_que'[c] = Append(send_que[c], h) /\ accepted'[c] = Append(accepted[c], h)
        /\ send_que[c] \in Seq(Message) /\ accepted[c] \in Seq(Message)
    BY <1>3, <1>8, SendingTypes
  <2>3. AskInv(c)'
    BY <1>1, <1>8, <2>1 DEF FlowInv, AskInv, Asked, framingVars, clientVars
  <2>4. SplitInv(c)'
    BY <1>1, <2>1, SplitKept DEF FlowInv, framingVars
  <2>5. Sent(c)' = Sent(c) + 1 /\ Len(send_que'[c]) = Len(send_que[c]) + 1
    BY <2>2 DEF Sent
  <2>6. ReplyInv(c)'
    <3>1. ReplyInv(c)
      BY <2>1 DEF FlowInv
    <3>2. \A k \in 1..(Sent(c) + 1) : accepted'[c][k] = [s |-> c, k |-> k]
      <4> SUFFICES ASSUME NEW k \in 1..(Sent(c) + 1)
                   PROVE  accepted'[c][k] = [s |-> c, k |-> k]
        OBVIOUS
      <4>1. CASE k = Sent(c) + 1
        BY <1>7, <2>2, <4>1 DEF Sent
      <4>2. CASE k # Sent(c) + 1
        <5>1. k \in 1..Sent(c)
          BY <2>1, <4>2
        <5>2. accepted'[c][k] = accepted[c][k]
          BY <2>2, <5>1 DEF Sent
        <5> QED
          BY <3>1, <5>1, <5>2 DEF ReplyInv
      <4> QED
        BY <4>1, <4>2
    <3>3. (Sent(c) + 1) - (Len(send_que[c]) + 1) = Sent(c) - Len(send_que[c])
      BY <2>1, <2>2
    <3>4. Len(wire'[c]) <= 2 * ((Sent(c)' - Len(send_que'[c])) + 1)
      BY <1>8, <2>5, <3>1, <3>3 DEF ReplyInv
    <3> QED
      BY <1>8, <2>5, <3>1, <3>2, <3>4 DEF ReplyInv
  <2>7. DueInv(c)'
    <3>1. Received(c)' = Sent(c)'
      BY <1>1, <1>6, <2>5 DEF Received, framingVars
    <3>2. DueInv(c)
      BY <2>1 DEF FlowInv
    <3>3. ASSUME NEW i \in DOMAIN LP!Owed', LP!Owed'[i].s = c PROVE FALSE
      <4>1. i + 1 \in DOMAIN o /\ o[i + 1].s = c /\ i \in Nat \ {0}
        BY <1>2, <3>3, TailAt
      <4>2. o[1].s = c
        BY <1>2
      <4>3. i + 1 = 1
        BY <1>5, <3>2, <4>1, <4>2, Zenon DEF DueInv, o
      <4> QED
        BY <4>1, <4>3
    <3> QED
      BY <3>1, <3>3 DEF DueInv
  <2> QED
    BY <2>3, <2>4, <2>6, <2>7 DEF FlowInv
<1> QED
  BY <1>9, <1>10, <1>11 DEF Flow

LEMMA CallBackFlow ==
  ASSUME Parts, Flow, CallBack
  PROVE  Flow'
<1>1. Head(msg_que) \in Message /\ Head(msg_que).s \in Session
  BY FrontIsMessage DEF Parts, CallBack
<1> QED
  BY <1>1, CallBackOf

LEMMA FlowStep ==
  ASSUME Parts, Parts', Flow, Next
  PROVE  Flow'
<1>1. CASE \E c \in Session : \/ \E len \in BodyLen : ClientWrites(c, len)
                              \/ ClientReads(c)
                              \/ ClientLeaves(c)
  BY <1>1, ClientWritesFlow, ClientReadsFlow, CloseFlow
<1>2. CASE \E s \in Session : SessionStep(s)
  BY <1>2, CloseFlow, ReceiveFlow, TurnWithoutPostFlow, TurnWithPostFlow, SocketWritesFlow,
     HandleWriteFlow DEF SessionStep
<1>3. CASE WorkerStep \/ CallBack \/ SpuriousWakeup
  BY <1>3, WorkerFlow, CallBackFlow
<1> QED
  BY <1>1, <1>2, <1>3 DEF Next

LEMMA StutterStep ==
  ASSUME Parts, Flow, UNCHANGED vars
  PROVE  Parts' /\ Flow'
<1>1. /\ UNCHANGED framingVars /\ UNCHANGED logicVars /\ UNCHANGED sendVars
      /\ UNCHANGED closeVars /\ UNCHANGED clientVars /\ UNCHANGED gone
  BY DEF vars, framingVars
<1>2. Parts'
  BY <1>1, FramingKept, LogicKept, SendingKept DEF Parts
<1>3. \A r \in Session : SameFlow(r)
  BY <1>1 DEF SameFlow, framingVars, sendVars, clientVars
<1> QED
  BY <1>1, <1>2, <1>3, OwedKept, FlowKept

IInv == Parts /\ Flow

\* At every step of a client, of the handlers of its session, of the logic thread
\* and of the sending half: the parts keep their invariants, and what has been
\* asked, posted, dealt with, replied and read is at most one request apart.
THEOREM InductiveInvariant == Spec => []IInv
<1>1. Init => IInv
  BY PartsInit, FlowInit DEF IInv
<1>2. IInv /\ [Next /\ UNCHANGED rounds]_<<vars, rounds>> => IInv'
  BY PartsStep, FlowStep, StutterStep DEF IInv
<1> QED
  BY <1>1, <1>2, PTL DEF Spec

\* However the bytes of requests are cut, a body that arrives apart from its head
\* is waited for beyond what its client will write, and until then every head
\* HandleRead decodes is the head of a request (CSession.cpp:152, 187).
THEOREM SplitAlwaysStarves == Spec => []SplitStarves
<1>1. IInv => SplitStarves
  BY Starves DEF IInv
<1> QED
  BY <1>1, InductiveInvariant, PTL

\* Send never drops a reply to these clients, even with room for a single one.
NothingRefused == \A c \in Session : refused[c] = << >>

\* The test of the send queue against its limit (CSession.cpp:46) never fails for
\* a reply, because its client has not asked again before it has read it.
THEOREM NoReplyIsRefused == Spec => []NothingRefused
<1>1. IInv => NothingRefused
  BY DEF IInv, Flow, FlowInv, ReplyInv, NothingRefused
<1> QED
  BY <1>1, InductiveInvariant, PTL

-----------------------------------------------------------------------------
(* The answers of a client are those to its requests, in order, so that its *)
(* statements are the steps of the abstract specification.                  *)

\* The requests whose replies the client has read.
Answered(c) == IF client[c] = "write" THEN Asked(c) ELSE Asked(c) - 1

\* The replies to the first n requests of c.
AnswersTo(c, n) == [j \in 1..n |-> [s |-> c, k |-> j]]

\* The last piece of the j-th reply is number 2j.
LEMMA PieceNode ==
  ASSUME NEW j \in Nat \ {0}
  PROVE  ((j * 2) - 1) \div 2 = j - 1
OBVIOUS

LEMMA HalfOf ==
  ASSUME NEW a \in Nat
  PROVE  (2 * a) \div 2 = a
OBVIOUS

LEMMA HalfOfOdd ==
  ASSUME NEW a \in Nat
  PROVE  (2 * a + 1) \div 2 = a
OBVIOUS

LEMMA AnswersInOrder ==
  ASSUME IInv, NEW c \in Session
  PROVE  /\ Answers(c) = AnswersTo(c, Answered(c))
         /\ Answered(c) \in Nat /\ Answered(c) <= Asked(c)
<1> USE DEF IInv
<1>1. /\ Asked(c) \in Nat /\ Sent(c) \in Nat /\ Len(wire[c]) \in Nat /\ got[c] \in Nat
      /\ Len(wire[c]) <= 2 * Sent(c)
  BY Lengths DEF Flow, FlowType
<1>2. AskInv(c) /\ ReplyInv(c) /\ SP!WireIsPrefix(c)
  BY DEF Flow, FlowInv, Parts, Sending, SP!WireInv
<1>3. Answered(c) \in Nat /\ Answered(c) <= Asked(c) /\ got[c] \div 2 = Answered(c)
  <2> DEFINE a == Asked(c)
             g == got[c]
  <2>1. CASE client[c] = "write"
    <3>1. g = 2 * a /\ a \in Nat
      BY <1>1, <1>2, <2>1 DEF AskInv
    <3>2. Answered(c) = a
      BY <2>1 DEF Answered
    <3> HIDE DEF a, g
    <3>3. g \div 2 = a /\ a <= a
      BY <3>1, HalfOf
    <3> QED
      BY <3>1, <3>2, <3>3 DEF a, g
  <2>2. CASE client[c] = "readHead"
    <3>1. g + 2 = 2 * a /\ a \in Nat /\ g \in Nat
      BY <1>1, <1>2, <2>2 DEF AskInv
    <3>2. Answered(c) = a - 1
      BY <2>2 DEF Answered
    <3> HIDE DEF a, g
    <3>3. a - 1 \in Nat /\ g = 2 * (a - 1) /\ a - 1 <= a
      BY <3>1
    <3>4. g \div 2 = a - 1
      BY <3>3, HalfOf
    <3> QED
      BY <3>2, <3>3, <3>4 DEF a, g
  <2>3. CASE client[c] = "readBody"
    <3>1. g + 1 = 2 * a /\ a \in Nat /\ g \in Nat
      BY <1>1, <1>2, <2>3 DEF AskInv
    <3>2. Answered(c) = a - 1
      BY <2>3 DEF Answered
    <3> HIDE DEF a, g
    <3>3. a - 1 \in Nat /\ g = 2 * (a - 1) + 1 /\ a - 1 <= a
      BY <3>1
    <3>4. g \div 2 = a - 1
      BY <3>3, HalfOfOdd
    <3> QED
      BY <3>2, <3>3, <3>4 DEF a, g
  <2> QED
    BY <1>2, <2>1, <2>2, <2>3 DEF AskInv
<1>4. ASSUME NEW j \in 1..Answered(c)
      PROVE  wire[c][j * Pieces].node = [s |-> c, k |-> j]
  <2> DEFINE a == Answered(c)
             w == Len(wire[c])
             g == got[c]
             n == Sent(c)
  <2>1. /\ a \in Nat /\ w \in Nat /\ g \in Nat /\ n \in Nat /\ j \in 1..a
        /\ g <= w /\ w <= 2 * n
    BY <1>1, <1>2, <1>3, <1>4 DEF AskInv
  <2>2. 2 * a <= g
    <3>1. g \div 2 = a
      BY <1>3
    <3> HIDE DEF a, g
    <3> QED
      BY <2>1, <3>1
  <2> HIDE DEF a, w, g, n
  <2>3. j * 2 \in 1..w /\ j \in 1..n /\ j \in Nat \ {0}
    BY <2>1, <2>2
  <2>4. wire[c][j * 2] = [node |-> accepted[c][(((j * 2) - 1) \div 2) + 1],
                          part |-> (((j * 2) - 1) % 2) + 1]
    BY <1>2, <2>3, Assumptions DEF SP!WireIsPrefix, w
  <2>5. (((j * 2) - 1) \div 2) + 1 = j
    BY <2>3, PieceNode
  <2>6. wire[c][j * 2].node = accepted[c][j]
    BY <2>4, <2>5
  <2>7. accepted[c][j] = [s |-> c, k |-> j]
    BY <1>2, <2>3 DEF ReplyInv, n
  <2> QED
    BY <2>6, <2>7, Assumptions
<1>5. Answers(c) = [j \in 1..Answered(c) |-> wire[c][j * Pieces].node]
  BY <1>3, Assumptions DEF Answers
<1>6. Answers(c) = AnswersTo(c, Answered(c))
  BY <1>4, <1>5 DEF AnswersTo
<1> QED
  BY <1>3, <1>6

\* Each client has read the replies to its own requests, in their order.
InOrder == \A c \in Session : /\ Answers(c) = AnswersTo(c, Answered(c))
                              /\ Answered(c) \in Nat /\ Answered(c) <= Asked(c)

LEMMA AnswersAreInOrder == IInv => InOrder
BY AnswersInOrder DEF InOrder

\* What the abstract specification calls asked and answers.
asks == [c \in Session |-> Asked(c)]
reads == [c \in Session |-> Answers(c)]

LEMMA AbstractSteps ==
  ASSUME NEW c
  PROVE  /\ RR!Ask(c) <=> /\ Len(reads[c]) = asks[c]
                          /\ asks[c] < Rounds
                          /\ asks' = [asks EXCEPT ![c] = asks[c] + 1]
                          /\ reads' = reads
         /\ RR!Answer(c) <=> /\ Len(reads[c]) < asks[c]
                             /\ reads' = [reads EXCEPT ![c] =
                                            Append(reads[c], [s |-> c, k |-> asks[c]])]
                             /\ asks' = asks
BY DEF RR!Ask, RR!Answer, asks, reads

LEMMA AnswersGrow ==
  ASSUME NEW c, NEW n \in Nat
  PROVE  /\ Len(AnswersTo(c, n)) = n
         /\ AnswersTo(c, n + 1) = Append(AnswersTo(c, n), [s |-> c, k |-> n + 1])
<1>1. AnswersTo(c, n) \in Seq([s : {c}, k : Nat]) /\ Len(AnswersTo(c, n)) = n
  BY DEF AnswersTo
<1> QED
  BY <1>1 DEF AnswersTo

\* A step of no client.
LEMMA NoClientMoves ==
  ASSUME InOrder, InOrder', UNCHANGED <<client, lens>>
  PROVE  UNCHANGED RR!vars
<1>1. \A c \in Session : Asked(c)' = Asked(c) /\ Answered(c)' = Answered(c)
  BY DEF Asked, Answered
<1>2. \A c \in Session : Answers(c)' = Answers(c)
  BY <1>1 DEF InOrder, AnswersTo
<1> QED
  BY <1>1, <1>2 DEF RR!vars

LEMMA WritesIsAsk ==
  ASSUME IInv, InOrder, InOrder', NEW c \in Session, NEW len \in BodyLen, ClientWrites(c, len)
  PROVE  RR!Ask(c)
<1>1. /\ client \in [Session -> {"write", "readHead", "readBody"}]
      /\ lens \in [Session -> Seq(BodyLen)]
  BY FramingTypes DEF IInv, Flow, FlowType
<1>2. /\ client[c] = "write" /\ client' = [client EXCEPT ![c] = "readHead"]
      /\ Len(lens[c]) < Rounds /\ lens' = [lens EXCEPT ![c] = Append(lens[c], len)]
  BY DEF ClientWrites, RF!PeerWrites
<1>3. Asked(c) \in Nat /\ Asked(c)' = Asked(c) + 1 /\ Asked(c) < Rounds
  BY <1>1, <1>2 DEF Asked
<1>4. Answered(c) = Asked(c) /\ Answered(c)' = Asked(c)
  <2>1. client'[c] = "readHead"
    BY <1>1, <1>2
  <2> QED
    BY <1>2, <1>3, <2>1 DEF Answered
<1>5. \A r \in Session \ {c} : Asked(r)' = Asked(r) /\ Answered(r)' = Answered(r)
  BY <1>1, <1>2 DEF Asked, Answered
<1>6. \A r \in Session : Answers(r)' = Answers(r)
  <2>1. \A r \in Session : Answered(r)' = Answered(r)
    BY <1>4, <1>5
  <2> QED
    BY <2>1 DEF InOrder, AnswersTo
<1>7. Len(Answers(c)) = Asked(c)
  BY <1>3, <1>4, AnswersGrow DEF InOrder
<1>8. asks' = [asks EXCEPT ![c] = asks[c] + 1]
  BY <1>3, <1>5 DEF asks
<1>9. reads' = reads /\ Len(reads[c]) = asks[c] /\ asks[c] < Rounds
  BY <1>3, <1>6, <1>7 DEF reads, asks
<1> QED
  BY <1>8, <1>9, AbstractSteps

LEMMA ReadsIsAnswer ==
  ASSUME IInv, InOrder, InOrder', NEW c \in Session, ClientReads(c)
  PROVE  RR!Answer(c) \/ UNCHANGED RR!vars
<1>1. /\ client \in [Session -> {"write", "readHead", "readBody"}]
      /\ client[c] \in {"readHead", "readBody"}
      /\ client' = [client EXCEPT ![c] = IF client[c] = "readHead" THEN "readBody" ELSE "write"]
      /\ lens' = lens
  BY DEF IInv, Flow, FlowType, ClientReads, framingVars
<1>2. \A r \in Session : Asked(r)' = Asked(r)
  BY <1>1 DEF Asked
<1>3. \A r \in Session \ {c} : Answers(r)' = Answers(r)
  <2>1. \A r \in Session \ {c} : Answered(r)' = Answered(r)
    BY <1>1, <1>2 DEF Answered
  <2> QED
    BY <2>1 DEF InOrder, AnswersTo
<1>4. CASE client[c] = "readHead"
  <2>1. Answered(c)' = Answered(c)
    BY <1>1, <1>2, <1>4 DEF Answered
  <2>2. Answers(c)' = Answers(c)
    BY <2>1 DEF InOrder, AnswersTo
  <2> QED
    BY <1>2, <1>3, <2>2 DEF RR!vars
<1>5. CASE client[c] = "readBody"
  <2>1. client'[c] = "write"
    BY <1>1, <1>5
  <2>2. Answered(c) = Asked(c) - 1 /\ Answered(c)' = Asked(c)
    BY <1>2, <1>5, <2>1 DEF Answered
  <2>3. Asked(c) \in Nat /\ Answered(c) \in Nat
    BY Lengths DEF IInv, InOrder
  <2>4. Asked(c) = Answered(c) + 1
    BY <2>2, <2>3
  <2>5. /\ Answers(c) = AnswersTo(c, Answered(c))
        /\ Answers(c)' = AnswersTo(c, Answered(c) + 1)
    BY <2>2, <2>4 DEF InOrder
  <2>6. /\ Len(Answers(c)) = Answered(c)
        /\ Answers(c)' = Append(Answers(c), [s |-> c, k |-> Asked(c)])
    BY <2>3, <2>4, <2>5, AnswersGrow
  <2>7. asks' = asks
    BY <1>2 DEF asks
  <2>8. reads' = [reads EXCEPT ![c] = Append(reads[c], [s |-> c, k |-> asks[c]])]
    BY <1>3, <2>6 DEF reads, asks
  <2>9. Len(reads[c]) < asks[c]
    BY <2>3, <2>4, <2>6 DEF reads, asks
  <2> QED
    BY <2>7, <2>8, <2>9, AbstractSteps
<1> QED
  BY <1>1, <1>4, <1>5

LEMMA StepSimulation ==
  ASSUME IInv, InOrder, InOrder', [Next]_vars
  PROVE  [RR!Next]_(RR!vars)
<1>1. CASE \E c \in Session : \E len \in BodyLen : ClientWrites(c, len)
  BY <1>1, WritesIsAsk DEF RR!Next
<1>2. CASE \E c \in Session : ClientReads(c)
  BY <1>2, ReadsIsAnswer DEF RR!Next
<1>3. CASE \/ UNCHANGED vars \/ WorkerStep \/ CallBack \/ SpuriousWakeup
           \/ \E s \in Session : ClientLeaves(s) \/ SessionStep(s)
  <2>1. UNCHANGED <<client, lens>>
    BY <1>3 DEF vars, framingVars, clientVars, WorkerStep, CallBack, SpuriousWakeup, ClientLeaves,
       SessionStep, Receive, ReadFails, TurnWithoutPost, TurnWithPost, SocketWrites, HandleWrite,
       RF!PeerLeaves, RF!Receive, RF!ReadCompletes, RF!ReadFails, RF!HeadPartial, RF!MoreBody,
       RF!BodyPartial, RF!BodyComplete, RF!peer
  <2> QED
    BY <2>1, NoClientMoves
<1> QED
  BY <1>1, <1>2, <1>3 DEF Next

\* The server, seen by its clients, is the abstract service that answers each
\* request with its own reply and in order: every step of a client that completes
\* a read is an answer to its last request, and no other step changes an answer.
THEOREM ImplementsRequestReply == Spec => RequestReplySpec
<1>1. Init => RR!Init
  <2> SUFFICES ASSUME Init PROVE RR!Init
    OBVIOUS
  <2>1. \A c \in Session : Asked(c) = 0 /\ got[c] = 0
    BY DEF Init, RF!Init, Asked
  <2>2. 0 \div Pieces = 0
    BY Assumptions
  <2>3. \A c \in Session : Answers(c) = << >>
    BY <2>1, <2>2 DEF Answers
  <2> QED
    BY <2>1, <2>3 DEF RR!Init
<1>2. IInv /\ InOrder /\ InOrder' /\ [Next /\ UNCHANGED rounds]_<<vars, rounds>>
        => [RR!Next]_(RR!vars)
  BY StepSimulation
<1>3. IInv => InOrder
  BY AnswersAreInOrder
<1> QED
  BY <1>1, <1>2, <1>3, InductiveInvariant, PTL DEF Spec, RequestReplySpec, RR!Spec
=============================================================================
