-------------------------- MODULE SendQueue_proofs --------------------------
(***************************************************************************)
(* Proofs about SendQueue, for every set of sessions and nodes, every limit *)
(* and every way the transport cuts a node into pieces.                     *)
(*                                                                          *)
(* The three properties of the outstanding writes need each other.  Send    *)
(* starts a write when the queue is empty, so that there is no other then   *)
(* is BufferIsFront; HandleWrite pops the front and starts the next one, so *)
(* that it pops the node it wrote is OneWrite; and that a queue is never    *)
(* left without a write is kept by both.  WInv says all of this of one      *)
(* session, and every action changes one session only.                      *)
(*                                                                          *)
(* That the wire carries the accepted nodes in order needs to know where it *)
(* ends: WireInv says that the queue is the accepted nodes not popped yet   *)
(* and that the wire holds all pieces of the popped ones and those the      *)
(* outstanding write has sent of the next.                                  *)
(***************************************************************************)
EXTENDS SendQueue, TLAPS

WInv(s) == /\ Len(writes[s]) <= 1
           /\ writes[s] # << >> => /\ send_que[s] # << >>
                                   /\ writes[s][1].node = Head(send_que[s])
                                   /\ writes[s][1].status = "running" => writes[s][1].sent < Pieces
           /\ send_que[s] # << >> => writes[s] # << >> \/ b_close[s]

IInv == TypeOK /\ \A s \in Session : WInv(s)

-----------------------------------------------------------------------------
\* A new session has an empty queue and no write.
LEMMA InitInv == Init => IInv
<1> SUFFICES ASSUME Init PROVE IInv
  OBVIOUS
<1>1. TypeOK
  <2>1. \A S : << >> \in Seq(S)
    OBVIOUS
  <2>2. /\ send_que \in [Session -> Seq(Node)]
        /\ writes \in [Session -> Seq(Write)]
        /\ wire \in [Session -> Seq(Piece)]
        /\ accepted \in [Session -> Seq(Node)]
        /\ refused \in [Session -> Seq(Node)]
    BY <2>1 DEF Init
  <2>3. \A s \in Session : Len(send_que[s]) <= MAX_SENDQUE + 1
    BY LimitAssumption DEF Init
  <2> QED
    BY <2>2, <2>3 DEF Init, TypeOK
<1>2. \A s \in Session : WInv(s)
  BY DEF Init, WInv
<1> QED
  BY <1>1, <1>2 DEF IInv

\* The only index of a sequence of at most one element.
LEMMA OneElement ==
  ASSUME NEW S, NEW q \in Seq(S), Len(q) <= 1, NEW i \in DOMAIN q
  PROVE  i = 1 /\ Len(q) = 1
<1>1. DOMAIN q = 1..Len(q) /\ Len(q) \in Nat
  OBVIOUS
<1>2. i \in Int /\ 1 <= i /\ i <= Len(q)
  BY <1>1
<1> QED
  BY <1>1, <1>2

\* With one write outstanding, it is the first, and without it there is none.
LEMMA TheOnlyWrite ==
  ASSUME IInv, NEW s \in Session, NEW i \in DOMAIN writes[s]
  PROVE  /\ i = 1
         /\ writes[s] \in Seq(Write) /\ writes[s] # << >>
         /\ writes[s][1] \in Write
         /\ RemoveAt(writes[s], i) = << >>
<1>1. writes[s] \in Seq(Write) /\ Len(writes[s]) <= 1
  BY DEF IInv, TypeOK, WInv
<1>2. i = 1 /\ Len(writes[s]) = 1
  BY <1>1, OneElement
<1>3. RemoveAt(writes[s], 1) = << >>
  BY <1>1, <1>2 DEF RemoveAt
<1> QED
  BY <1>1, <1>2, <1>3

\* What an action of session s must leave alone in another session.
Same(r) == /\ send_que'[r] = send_que[r]
           /\ writes'[r] = writes[r]
           /\ b_close'[r] = b_close[r]

\* An action of one session need only be examined for that session.
LEMMA OtherSessions ==
  ASSUME NEW s \in Session, IInv, WInv(s)',
         \A r \in Session : r # s => Same(r)
  PROVE  \A r \in Session : WInv(r)'
  BY DEF IInv, WInv, Same

-----------------------------------------------------------------------------
(* Send. *)

\* Send starts a write on an empty queue only, which has none outstanding.
LEMMA SendInv ==
  ASSUME IInv, NEW s \in Session, NEW n \in Node, Send(s, n)
  PROVE  IInv'
<1>1. /\ send_que[s] \in Seq(Node) /\ writes[s] \in Seq(Write)
      /\ accepted[s] \in Seq(Node) /\ refused[s] \in Seq(Node)
      /\ Len(send_que[s]) <= MAX_SENDQUE + 1
      /\ WInv(s)
  BY DEF IInv, TypeOK
<1>2. CASE SendRefused(s, n)
  <2>1. TypeOK'
    BY <1>1, <1>2 DEF IInv, TypeOK, SendRefused
  <2>2. \A r \in Session : WInv(r)'
    BY <1>2 DEF IInv, WInv, SendRefused
  <2> QED
    BY <2>1, <2>2 DEF IInv
<1>3. CASE SendQueued(s, n)
  <2>1. /\ send_que' = [send_que EXCEPT ![s] = Append(send_que[s], n)]
        /\ send_que[s] # << >>
        /\ Len(send_que[s]) <= MAX_SENDQUE
        /\ UNCHANGED <<writes, b_close>>
    BY <1>1, <1>3, LimitAssumption DEF SendQueued, Full, Starts
  <2>2. send_que'[s] = Append(send_que[s], n)
    BY <2>1 DEF IInv, TypeOK
  <2>3. TypeOK'
    <3>1. \A r \in Session : Len(send_que'[r]) <= MAX_SENDQUE + 1
      <4>1. Len(send_que'[s]) = Len(send_que[s]) + 1 /\ Len(send_que[s]) \in Nat
        BY <1>1, <2>2
      <4>2. Len(send_que'[s]) <= MAX_SENDQUE + 1
        BY <2>1, <4>1, LimitAssumption
      <4>3. \A r \in Session \ {s} : send_que'[r] = send_que[r]
        BY <2>1 DEF IInv, TypeOK
      <4> QED
        BY <4>2, <4>3 DEF IInv, TypeOK
    <3> QED
      BY <1>1, <1>3, <2>1, <3>1 DEF IInv, TypeOK, SendQueued
  <2>4. WInv(s)'
    <3>1. send_que'[s] # << >> /\ Head(send_que'[s]) = Head(send_que[s])
      BY <1>1, <2>1, <2>2
    <3> QED
      BY <1>1, <2>1, <3>1 DEF WInv
  <2>5. \A r \in Session : r # s => Same(r)
    BY <2>1 DEF Same, IInv, TypeOK
  <2> QED
    BY <2>3, <2>4, <2>5, OtherSessions DEF IInv
<1>4. CASE SendWritten(s, n)
  <2> DEFINE w == [node |-> n, sent |-> 0, status |-> "running"]
  <2>1. /\ send_que[s] = << >> /\ writes[s] = << >>
        /\ send_que' = [send_que EXCEPT ![s] = <<n>>]
    <3>1. send_que[s] = << >>
      BY <1>4 DEF SendWritten, Starts
    <3>2. writes[s] = << >>
      BY <1>1, <3>1 DEF WInv
    <3>3. Append(send_que[s], n) = <<n>>
      BY <3>1
    <3> QED
      BY <1>4, <3>1, <3>2, <3>3 DEF SendWritten
  <2>2. send_que'[s] = <<n>>
    BY <2>1 DEF IInv, TypeOK
  <2>3. writes' = [writes EXCEPT ![s] = <<w>>]
    <3>1. WriteFront(send_que'[s]) = w
      BY <2>2 DEF WriteFront
    <3>2. Append(writes[s], w) = <<w>>
      BY <2>1
    <3> QED
      BY <1>4, <3>1, <3>2 DEF SendWritten
  <2>4. w \in Write
    BY PiecesAssumption DEF Write
  <2>5. TypeOK'
    <3>1. \A r \in Session : Len(send_que'[r]) <= MAX_SENDQUE + 1
      BY <2>1, <2>2, LimitAssumption DEF IInv, TypeOK
    <3>2. writes' \in [Session -> Seq(Write)]
      BY <2>3, <2>4 DEF IInv, TypeOK
    <3> QED
      BY <1>1, <1>4, <2>1, <3>1, <3>2 DEF IInv, TypeOK, SendWritten
  <2>6. WInv(s)'
    <3>1. writes'[s] = <<w>>
      BY <2>3 DEF IInv, TypeOK
    <3> QED
      BY <2>2, <3>1, PiecesAssumption DEF WInv
  <2>7. \A r \in Session : r # s => Same(r)
    BY <1>4, <2>1, <2>3 DEF Same, IInv, TypeOK, SendWritten
  <2> QED
    BY <2>5, <2>6, <2>7, OtherSessions DEF IInv
<1> QED
  BY <1>2, <1>3, <1>4 DEF Send

-----------------------------------------------------------------------------
(* The socket. *)

\* A piece that goes out leaves the queue alone.
LEMMA TransferInv ==
  ASSUME IInv, NEW s \in Session, NEW i \in DOMAIN writes[s], Transfer(s, i)
  PROVE  IInv'
<1> DEFINE w == writes[s][1]
           st == IF w.sent + 1 = Pieces THEN "ok" ELSE "running"
           v == [node |-> w.node, sent |-> w.sent + 1, status |-> st]
<1>1. /\ i = 1 /\ writes[s] \in Seq(Write) /\ writes[s] # << >> /\ w \in Write
      /\ WInv(s)
  BY TheOnlyWrite DEF IInv
<1>2. w.sent < Pieces /\ w.sent \in Nat /\ w.node \in Node
  BY <1>1 DEF Transfer, WInv, Write
<1>3. v \in Write /\ v.node = w.node /\ (v.status = "running" => v.sent < Pieces)
  <2>1. w.sent + 1 \in 0..Pieces /\ (w.sent + 1 = Pieces \/ w.sent + 1 < Pieces)
    BY <1>2, PiecesAssumption
  <2>2. st \in {"running", "ok", "error"} /\ (st = "running" => w.sent + 1 < Pieces)
    BY <2>1
  <2> HIDE DEF st
  <2>3. v \in Write
    BY <1>2, <2>1, <2>2 DEF Write
  <2> QED
    BY <2>2, <2>3
<1>4. writes' = [writes EXCEPT ![s] = [writes[s] EXCEPT ![1] = v]]
  BY <1>1 DEF Transfer
<1>5. /\ writes'[s] \in Seq(Write) /\ Len(writes'[s]) = Len(writes[s])
      /\ writes'[s] # << >> /\ writes'[s][1] = v
  <2>1. writes'[s] = [writes[s] EXCEPT ![1] = v]
    BY <1>4 DEF IInv, TypeOK
  <2> QED
    BY <1>1, <1>3, <2>1
<1>6. TypeOK'
  <2>1. writes' \in [Session -> Seq(Write)]
    BY <1>4, <1>5 DEF IInv, TypeOK
  <2>2. [node |-> w.node, part |-> w.sent + 1] \in Piece
    BY <1>2, PiecesAssumption DEF Piece
  <2>3. wire' \in [Session -> Seq(Piece)]
    BY <1>1, <2>2 DEF IInv, TypeOK, Transfer
  <2> QED
    BY <2>1, <2>3 DEF IInv, TypeOK, Transfer
<1>7. WInv(s)'
  BY <1>1, <1>3, <1>5 DEF WInv, Transfer
<1>8. \A r \in Session : r # s => Same(r)
  BY <1>4 DEF Same, IInv, TypeOK, Transfer
<1> QED
  BY <1>6, <1>7, <1>8, OtherSessions DEF IInv

\* A write that fails stays the outstanding one until its handler runs.
LEMMA WriteFailsInv ==
  ASSUME IInv, NEW s \in Session, NEW i \in DOMAIN writes[s], WriteFails(s, i)
  PROVE  IInv'
<1> DEFINE w == writes[s][1]
           v == [w EXCEPT !.status = "error"]
<1>1. /\ i = 1 /\ writes[s] \in Seq(Write) /\ writes[s] # << >> /\ w \in Write
      /\ WInv(s)
  BY TheOnlyWrite DEF IInv
<1>2. v \in Write /\ v.node = w.node /\ v.status = "error"
  BY <1>1 DEF Write
<1>3. writes' = [writes EXCEPT ![s] = [writes[s] EXCEPT ![1] = v]]
  BY <1>1 DEF WriteFails
<1>4. /\ writes'[s] \in Seq(Write) /\ Len(writes'[s]) = Len(writes[s])
      /\ writes'[s] # << >> /\ writes'[s][1] = v
  <2>1. writes'[s] = [writes[s] EXCEPT ![1] = v]
    BY <1>3 DEF IInv, TypeOK
  <2> QED
    BY <1>1, <1>2, <2>1
<1>5. TypeOK'
  <2>1. writes' \in [Session -> Seq(Write)]
    BY <1>3, <1>4 DEF IInv, TypeOK
  <2> QED
    BY <2>1 DEF IInv, TypeOK, WriteFails
<1>6. WInv(s)'
  BY <1>1, <1>2, <1>4 DEF WInv, WriteFails
<1>7. \A r \in Session : r # s => Same(r)
  BY <1>3 DEF Same, IInv, TypeOK, WriteFails
<1> QED
  BY <1>5, <1>6, <1>7, OtherSessions DEF IInv

\* A peer that leaves touches neither queue nor writes.
LEMMA PeerGoneInv ==
  ASSUME IInv, NEW s \in Session, PeerGone(s)
  PROVE  IInv'
<1>1. TypeOK'
  BY DEF IInv, TypeOK, PeerGone
<1>2. \A r \in Session : WInv(r)'
  BY DEF IInv, WInv, PeerGone
<1> QED
  BY <1>1, <1>2 DEF IInv

-----------------------------------------------------------------------------
(* The handlers. *)

\* HandleWrite starts a write of the new front, if there is one.
LEMMA NextWriteIsFront ==
  ASSUME NEW q \in Seq(Node)
  PROVE  /\ NextWrite(q) \in Seq(Write) /\ Len(NextWrite(q)) <= 1
         /\ q = << >> => NextWrite(q) = << >>
         /\ q # << >> => /\ NextWrite(q) # << >>
                         /\ NextWrite(q)[1].node = Head(q)
                         /\ NextWrite(q)[1].sent = 0
<1>1. CASE q = << >>
  <2>1. NextWrite(q) = << >>
    BY <1>1 DEF NextWrite
  <2>2. << >> \in Seq(Write) /\ Len(<< >>) <= 1
    OBVIOUS
  <2> QED
    BY <1>1, <2>1, <2>2
<1>2. CASE q # << >>
  <2> DEFINE w == WriteFront(q)
  <2>1. Head(q) \in Node
    BY <1>2
  <2>2. w \in Write /\ w.node = Head(q) /\ w.sent = 0
    BY <2>1, PiecesAssumption DEF WriteFront, Write
  <2>3. NextWrite(q) = <<w>>
    BY <1>2 DEF NextWrite
  <2> HIDE DEF w
  <2>4. <<w>> \in Seq(Write) /\ Len(<<w>>) = 1 /\ <<w>>[1] = w /\ <<w>> # << >>
    BY <2>2
  <2> QED
    BY <1>2, <2>2, <2>3, <2>4
<1> QED
  BY <1>1, <1>2

\* HandleWrite pops the node whose write has completed: the only outstanding
\* write is the one it is called for.
LEMMA HandleWriteInv ==
  ASSUME IInv, NEW s \in Session, NEW i \in DOMAIN writes[s], HandleWrite(s, i)
  PROVE  IInv'
<1> DEFINE q == Tail(send_que[s])
<1>1. /\ RemoveAt(writes[s], i) = << >> /\ writes[s] # << >>
      /\ WInv(s) /\ send_que[s] \in Seq(Node)
      /\ Len(send_que[s]) <= MAX_SENDQUE + 1
  BY TheOnlyWrite DEF IInv, TypeOK
<1>2. send_que[s] # << >>
  BY <1>1 DEF WInv
<1>3. /\ send_que' = [send_que EXCEPT ![s] = q] /\ send_que'[s] = q
      /\ q \in Seq(Node) /\ Len(q) <= MAX_SENDQUE + 1
  <2>1. q \in Seq(Node) /\ Len(q) = Len(send_que[s]) - 1
    BY <1>1, <1>2
  <2> QED
    BY <1>1, <2>1, LimitAssumption DEF HandleWrite, IInv, TypeOK
<1>4. /\ NextWrite(q) \in Seq(Write) /\ Len(NextWrite(q)) <= 1
      /\ q = << >> => NextWrite(q) = << >>
      /\ q # << >> => /\ NextWrite(q) # << >>
                      /\ NextWrite(q)[1].node = Head(q)
                      /\ NextWrite(q)[1].sent = 0
  <2> HIDE DEF q
  <2> QED
    BY <1>3, NextWriteIsFront
<1>5. writes' = [writes EXCEPT ![s] = NextWrite(q)] /\ writes'[s] = NextWrite(q)
  <2>1. << >> \o NextWrite(q) = NextWrite(q)
    BY <1>4
  <2> QED
    BY <1>1, <1>3, <2>1 DEF HandleWrite, IInv, TypeOK
<1>6. TypeOK'
  <2>1. writes' \in [Session -> Seq(Write)]
    BY <1>4, <1>5 DEF IInv, TypeOK
  <2>2. \A r \in Session : Len(send_que'[r]) <= MAX_SENDQUE + 1
    BY <1>3 DEF IInv, TypeOK
  <2> QED
    BY <1>3, <2>1, <2>2 DEF IInv, TypeOK, HandleWrite
<1>7. WInv(s)'
  <2> HIDE DEF q
  <2>1. CASE q = << >>
    BY <1>3, <1>4, <1>5, <2>1 DEF WInv
  <2>2. CASE q # << >>
    BY <1>3, <1>4, <1>5, <2>2, PiecesAssumption DEF WInv
  <2> QED
    BY <2>1, <2>2
<1>8. \A r \in Session : r # s => Same(r)
  BY <1>3, <1>4 DEF Same, IInv, TypeOK, HandleWrite
<1> QED
  BY <1>6, <1>7, <1>8, OtherSessions DEF IInv

\* After a failed write the session is closed, and its queue may keep nodes.
LEMMA HandleWriteErrorInv ==
  ASSUME IInv, NEW s \in Session, NEW i \in DOMAIN writes[s], HandleWriteError(s, i)
  PROVE  IInv'
<1>1. RemoveAt(writes[s], i) = << >> /\ WInv(s)
  BY TheOnlyWrite DEF IInv
<1>2. /\ writes' = [writes EXCEPT ![s] = << >>] /\ writes'[s] = << >>
      /\ b_close'[s] = TRUE
  BY <1>1 DEF HandleWriteError, CloseAndClear, IInv, TypeOK
<1>3. TypeOK'
  <2>1. writes' \in [Session -> Seq(Write)]
    BY <1>2 DEF IInv, TypeOK
  <2> QED
    BY <2>1 DEF IInv, TypeOK, HandleWriteError, CloseAndClear
<1>4. WInv(s)'
  BY <1>2 DEF WInv
<1>5. \A r \in Session : r # s => Same(r)
  BY <1>2 DEF Same, IInv, TypeOK, HandleWriteError, CloseAndClear
<1> QED
  BY <1>3, <1>4, <1>5, OtherSessions DEF IInv

\* The error path of HandleRead closes the session as well.
LEMMA HandleReadErrorInv ==
  ASSUME IInv, NEW s \in Session, HandleReadError(s)
  PROVE  IInv'
<1>1. TypeOK'
  BY DEF IInv, TypeOK, HandleReadError, CloseAndClear
<1>2. b_close'[s] = TRUE /\ UNCHANGED <<send_que, writes>>
  BY DEF IInv, TypeOK, HandleReadError, CloseAndClear
<1>3. WInv(s)'
  BY <1>2 DEF IInv, WInv
<1>4. \A r \in Session : r # s => Same(r)
  BY <1>2 DEF Same, IInv, TypeOK, HandleReadError, CloseAndClear
<1> QED
  BY <1>1, <1>3, <1>4, OtherSessions DEF IInv

-----------------------------------------------------------------------------
(* The wire.  Frames cuts the accepted nodes into pieces by division, so    *)
(* its arithmetic comes first; what an action does to the wire of a session *)
(* is then at most one piece, the next one of the node in front.            *)

\* What the wire and the queue of one session say about the nodes Send has
\* accepted: the queue is the rest of them, and the wire ends where the
\* outstanding write has got to.
QueueIsRest(s) ==
  LET popped == Len(accepted[s]) - Len(send_que[s])
  IN  /\ popped \in Nat
      /\ \A j \in 1..Len(send_que[s]) : send_que[s][j] = accepted[s][popped + j]
      /\ writes[s] # << >> => Len(wire[s]) = popped * Pieces + writes[s][1].sent
      /\ writes[s] # << >> /\ writes[s][1].status = "ok" => writes[s][1].sent = Pieces
      /\ writes[s] = << >> /\ send_que[s] = << >> => Len(wire[s]) = popped * Pieces

WireIsPrefix(s) ==
  /\ Len(wire[s]) <= Len(accepted[s]) * Pieces
  /\ \A k \in 1..Len(wire[s]) :
        wire[s][k] = [node |-> accepted[s][((k - 1) \div Pieces) + 1],
                      part |-> ((k - 1) % Pieces) + 1]

WireInv(s) == QueueIsRest(s) /\ WireIsPrefix(s)

\* Piece r of node n, counted from zero, is where division finds it.
LEMMA PieceOfNode ==
  ASSUME NEW n \in Nat, NEW P \in Nat \ {0}, NEW r \in Nat, r < P
  PROVE  (n * P + r) \div P = n /\ (n * P + r) % P = r
OBVIOUS

\* Every piece of n nodes belongs to one of them.
LEMMA NodeOfPiece ==
  ASSUME NEW n \in Nat, NEW P \in Nat \ {0}, NEW k \in Nat, k < n * P
  PROVE  k \div P \in 0..(n - 1)
OBVIOUS

\* More nodes have no fewer pieces, and one more node has Pieces more.
LEMMA PiecesGrow ==
  ASSUME NEW n \in Nat, NEW P \in Nat \ {0}
  PROVE  n * P \in Nat /\ (n + 1) * P = n * P + P
OBVIOUS

LEMMA PiecesMonotonic ==
  ASSUME NEW n \in Nat, NEW m \in Nat, n <= m, NEW P \in Nat \ {0}
  PROVE  n * P <= m * P
OBVIOUS

\* The wire of a session in these terms is a prefix of the frames of the nodes.
LEMMA PrefixOfFrames ==
  ASSUME IInv, NEW s \in Session, WireIsPrefix(s)
  PROVE  IsPrefix(wire[s], Frames(accepted[s]))
<1> DEFINE n == Len(accepted[s])
           f == Frames(accepted[s])
<1>1. wire[s] \in Seq(Piece) /\ accepted[s] \in Seq(Node) /\ n \in Nat
  BY DEF IInv, TypeOK
<1>2. n * Pieces \in Nat
  BY <1>1, PiecesGrow, PiecesAssumption
<1>3. DOMAIN f = 1..(n * Pieces)
  BY DEF Frames
<1>4. Len(f) = n * Pieces
  BY <1>2, <1>3 DEF Frames
<1>5. Len(wire[s]) <= n * Pieces
  BY DEF WireIsPrefix
<1>6. ASSUME NEW k \in 1..Len(wire[s]) PROVE wire[s][k] = f[k]
  <2>1. k \in 1..(n * Pieces)
    BY <1>1, <1>2, <1>5
  <2>2. f[k] = [node |-> accepted[s][((k - 1) \div Pieces) + 1],
                part |-> ((k - 1) % Pieces) + 1]
    BY <2>1 DEF Frames
  <2> QED
    BY <2>2 DEF WireIsPrefix
<1> HIDE DEF f, n
<1>7. wire[s] = SubSeq(f, 1, Len(wire[s]))
  <2>1. f \in Seq({f[k] : k \in 1..Len(f)})
    <3>1. f = [k \in 1..Len(f) |-> f[k]]
      BY <1>2, <1>3, <1>4 DEF f, Frames
    <3> QED
      BY <1>2, <1>4, <3>1
  <2> QED
    BY <1>1, <1>4, <1>5, <1>6, <2>1
<1> QED
  BY <1>4, <1>5, <1>7 DEF IsPrefix, f

\* What an action of session s must leave alone in another one for its wire.
SameWire(r) == /\ send_que'[r] = send_que[r]
               /\ writes'[r] = writes[r]
               /\ wire'[r] = wire[r]
               /\ accepted'[r] = accepted[r]

LEMMA WireUnchanged ==
  ASSUME NEW r \in Session, WireInv(r), SameWire(r)
  PROVE  WireInv(r)'
BY DEF WireInv, QueueIsRest, WireIsPrefix, SameWire

\* The frames already on the wire stay frames of the accepted nodes when one
\* more node is accepted.
LEMMA AcceptedGrows ==
  ASSUME IInv, NEW s \in Session, WireIsPrefix(s), NEW n \in Node,
         accepted'[s] = Append(accepted[s], n), wire'[s] = wire[s]
  PROVE  WireIsPrefix(s)'
<1> DEFINE m == Len(accepted[s])
<1>1. /\ wire[s] \in Seq(Piece) /\ accepted[s] \in Seq(Node) /\ m \in Nat
      /\ Len(accepted'[s]) = m + 1
      /\ \A j \in 1..m : accepted'[s][j] = accepted[s][j]
  BY DEF IInv, TypeOK
<1>2. m * Pieces \in Nat /\ (m + 1) * Pieces = m * Pieces + Pieces
  <2> HIDE DEF m
  <2> QED
    BY <1>1, PiecesGrow, PiecesAssumption
<1>3. Len(wire[s]) <= m * Pieces
  BY DEF WireIsPrefix
<1>4. ASSUME NEW k \in 1..Len(wire[s])
      PROVE  accepted'[s][((k - 1) \div Pieces) + 1] = accepted[s][((k - 1) \div Pieces) + 1]
  <2>1. k - 1 \in Nat /\ k - 1 < m * Pieces
    BY <1>1, <1>2, <1>3
  <2>2. (k - 1) \div Pieces \in 0..(m - 1)
    <3> HIDE DEF m
    <3> QED
      BY <1>1, <2>1, NodeOfPiece, PiecesAssumption
  <2>3. ((k - 1) \div Pieces) + 1 \in 1..m
    BY <1>1, <2>2
  <2> QED
    BY <1>1, <2>3
<1>5. Len(wire[s]) <= (m + 1) * Pieces
  BY <1>1, <1>2, <1>3, PiecesAssumption
<1> QED
  BY <1>1, <1>4, <1>5 DEF WireIsPrefix

\* Send puts the node at the end of both, and writes it first if it is alone.
LEMMA SendWire ==
  ASSUME IInv, NEW s \in Session, NEW n \in Node, Send(s, n), WireInv(s)
  PROVE  WireInv(s)'
<1> DEFINE m == Len(accepted[s])
           l == Len(send_que[s])
<1>1. /\ send_que[s] \in Seq(Node) /\ accepted[s] \in Seq(Node)
      /\ m \in Nat /\ l \in Nat /\ wire[s] \in Seq(Piece)
      /\ WInv(s)
  BY DEF IInv, TypeOK
<1>2. CASE SendRefused(s, n)
  BY <1>2, WireUnchanged DEF SendRefused, SameWire
<1>3. ASSUME send_que'[s] = Append(send_que[s], n),
             accepted'[s] = Append(accepted[s], n),
             wire'[s] = wire[s]
      PROVE  /\ WireIsPrefix(s)'
             /\ Len(accepted'[s]) - Len(send_que'[s]) = m - l
             /\ m - l \in Nat
             /\ \A j \in 1..Len(send_que'[s]) : send_que'[s][j] = accepted'[s][m - l + j]
  <2>1. WireIsPrefix(s)'
    BY <1>3, AcceptedGrows DEF WireInv
  <2>2. /\ Len(accepted'[s]) = m + 1 /\ accepted'[s][m + 1] = n
        /\ \A j \in 1..m : accepted'[s][j] = accepted[s][j]
    BY <1>1, <1>3
  <2>3. /\ Len(send_que'[s]) = l + 1 /\ send_que'[s][l + 1] = n
        /\ \A j \in 1..l : send_que'[s][j] = send_que[s][j]
    BY <1>1, <1>3
  <2>4. m - l \in Nat /\ \A j \in 1..l : send_que[s][j] = accepted[s][m - l + j]
    BY DEF WireInv, QueueIsRest
  <2>5. ASSUME NEW j \in 1..(l + 1) PROVE send_que'[s][j] = accepted'[s][m - l + j]
    <3>1. CASE j = l + 1
      <4>1. m \in Nat /\ l \in Nat
        BY <1>1
      <4> HIDE DEF m, l
      <4>2. m - l + (l + 1) = m + 1
        BY <4>1
      <4> QED
        BY <2>2, <2>3, <3>1, <4>2
    <3>2. CASE j # l + 1
      <4>1. m \in Nat /\ l \in Nat /\ m - l \in Nat
        BY <1>1, <2>4
      <4> HIDE DEF m, l
      <4>2. j \in 1..l /\ m - l + j \in 1..m
        BY <3>2, <4>1
      <4> QED
        BY <2>2, <2>3, <2>4, <4>2
    <3> QED
      BY <3>1, <3>2
  <2>6. (m + 1) - (l + 1) = m - l
    BY <1>1
  <2> QED
    BY <2>1, <2>2, <2>3, <2>4, <2>5, <2>6
<1>4. CASE SendQueued(s, n)
  <2>1. /\ send_que'[s] = Append(send_que[s], n) /\ accepted'[s] = Append(accepted[s], n)
        /\ wire' = wire /\ writes' = writes /\ send_que[s] # << >>
    BY <1>4 DEF SendQueued, Starts, IInv, TypeOK
  <2>2. send_que'[s] # << >>
    BY <1>1, <2>1
  <2> QED
    BY <1>3, <2>1, <2>2 DEF WireInv, QueueIsRest
<1>5. CASE SendWritten(s, n)
  <2>1. /\ send_que'[s] = Append(send_que[s], n) /\ accepted'[s] = Append(accepted[s], n)
        /\ wire' = wire /\ send_que[s] = << >>
    BY <1>5 DEF SendWritten, Starts, IInv, TypeOK
  <2>2. writes[s] = << >>
    BY <1>1, <2>1 DEF WInv
  <2>3. writes'[s] = <<WriteFront(send_que'[s])>>
    <3>1. writes'[s] = Append(writes[s], WriteFront(send_que'[s]))
      BY <1>5 DEF SendWritten, IInv, TypeOK
    <3> QED
      BY <2>2, <3>1
  <2>4. writes'[s] # << >> /\ writes'[s][1].sent = 0 /\ writes'[s][1].status = "running"
    BY <2>3 DEF WriteFront
  <2>5. Len(wire[s]) = (m - l) * Pieces
    BY <2>1, <2>2 DEF WireInv, QueueIsRest
  <2>6. Len(wire[s]) + 0 = Len(wire[s])
    BY <1>1
  <2> QED
    BY <1>3, <2>1, <2>4, <2>5, <2>6 DEF WireInv, QueueIsRest
<1> QED
  BY <1>2, <1>4, <1>5 DEF Send

\* The piece that goes out is the next one of the node in front, which is the
\* first accepted node whose pieces are not all on the wire.
LEMMA TransferWire ==
  ASSUME IInv, NEW s \in Session, NEW i \in DOMAIN writes[s], Transfer(s, i), WireInv(s)
  PROVE  WireInv(s)'
<1> DEFINE w == writes[s][1]
           m == Len(accepted[s])
           n == m - Len(send_que[s])
           c == [node |-> w.node, part |-> w.sent + 1]
<1>1. /\ i = 1 /\ writes[s] \in Seq(Write) /\ writes[s] # << >> /\ w \in Write
      /\ send_que[s] \in Seq(Node) /\ accepted[s] \in Seq(Node) /\ wire[s] \in Seq(Piece)
      /\ m \in Nat /\ Len(wire[s]) \in Nat /\ WInv(s)
  BY TheOnlyWrite DEF IInv, TypeOK
<1>2. w.sent < Pieces /\ w.sent \in Nat
  BY <1>1 DEF Transfer, WInv, Write
<1>3. /\ send_que[s] # << >> /\ w.node = send_que[s][1]
      /\ Len(send_que[s]) >= 1
  BY <1>1 DEF WInv
<1>4. /\ n \in Nat /\ n + 1 <= m /\ w.node = accepted[s][n + 1]
      /\ Len(wire[s]) = n * Pieces + w.sent
  <2>1. /\ n \in Nat /\ Len(wire[s]) = n * Pieces + w.sent
        /\ \A j \in 1..Len(send_que[s]) : send_que[s][j] = accepted[s][n + j]
    BY <1>1 DEF WireInv, QueueIsRest
  <2>2. 1 \in 1..Len(send_que[s])
    BY <1>1, <1>3
  <2>3. n + 1 <= m
    BY <1>1, <1>3
  <2> QED
    BY <1>3, <2>1, <2>2, <2>3
<1>5. /\ wire'[s] = Append(wire[s], c) /\ accepted' = accepted /\ send_que' = send_que
      /\ writes'[s] = [writes[s] EXCEPT ![1] =
           [node |-> w.node, sent |-> w.sent + 1,
            status |-> IF w.sent + 1 = Pieces THEN "ok" ELSE "running"]]
  BY <1>1 DEF Transfer, IInv, TypeOK
<1>6. /\ Len(wire'[s]) = Len(wire[s]) + 1
      /\ \A k \in 1..Len(wire[s]) : wire'[s][k] = wire[s][k]
      /\ wire'[s][Len(wire[s]) + 1] = c
  BY <1>1, <1>5
<1>7. /\ n * Pieces \in Nat
      /\ (n + 1) * Pieces = n * Pieces + Pieces
      /\ (n + 1) * Pieces <= m * Pieces
      /\ m * Pieces \in Nat
  <2> HIDE DEF n, m
  <2> QED
    BY <1>1, <1>4, PiecesGrow, PiecesMonotonic, PiecesAssumption
<1>8. WireIsPrefix(s)'
  <2>1. Len(wire'[s]) <= m * Pieces
    <3> DEFINE x == n * Pieces
               y == m * Pieces
    <3>1. /\ x \in Nat /\ y \in Nat /\ x + Pieces <= y
          /\ Len(wire'[s]) = (x + w.sent) + 1
      BY <1>4, <1>6, <1>7
    <3> HIDE DEF x, y, w
    <3>2. (x + w.sent) + 1 <= y
      BY <1>2, <3>1, PiecesAssumption
    <3> QED
      BY <3>1, <3>2 DEF y
  <2>2. /\ Len(wire[s]) \div Pieces = n
        /\ Len(wire[s]) % Pieces = w.sent
    <3> HIDE DEF n, w
    <3>1. /\ (n * Pieces + w.sent) \div Pieces = n
          /\ (n * Pieces + w.sent) % Pieces = w.sent
      BY <1>2, <1>4, PieceOfNode, PiecesAssumption, Zenon
    <3> QED
      BY <1>4, <3>1, Zenon
  <2>3. c = [node |-> accepted[s][(((Len(wire[s]) + 1) - 1) \div Pieces) + 1],
             part |-> (((Len(wire[s]) + 1) - 1) % Pieces) + 1]
    <3>1. (Len(wire[s]) + 1) - 1 = Len(wire[s])
      BY <1>1
    <3> QED
      BY <1>4, <2>2, <3>1
  <2>4. ASSUME NEW k \in 1..(Len(wire[s]) + 1)
        PROVE  wire'[s][k] = [node |-> accepted[s][((k - 1) \div Pieces) + 1],
                              part |-> ((k - 1) % Pieces) + 1]
    <3>1. CASE k = Len(wire[s]) + 1
      BY <1>6, <2>3, <3>1
    <3>2. CASE k # Len(wire[s]) + 1
      <4>1. k \in 1..Len(wire[s])
        BY <1>1, <3>2
      <4> QED
        BY <1>6, <4>1 DEF WireInv, WireIsPrefix
    <3> QED
      BY <3>1, <3>2
  <2> QED
    BY <1>5, <1>6, <2>1, <2>4 DEF WireIsPrefix
<1>9. /\ writes'[s] # << >> /\ writes'[s][1].sent = w.sent + 1
      /\ writes'[s][1].status = "ok" => w.sent + 1 = Pieces
  <2> HIDE DEF w
  <2> QED
    BY <1>1, <1>5
<1>10. Len(wire'[s]) = n * Pieces + (w.sent + 1)
  <2> HIDE DEF n, m, w
  <2> QED
    BY <1>2, <1>4, <1>6, <1>7
<1> QED
  BY <1>4, <1>5, <1>8, <1>9, <1>10 DEF WireInv, QueueIsRest

\* A write that fails keeps the piece it has got to, and sends none.
LEMMA WriteFailsWire ==
  ASSUME IInv, NEW s \in Session, NEW i \in DOMAIN writes[s], WriteFails(s, i), WireInv(s)
  PROVE  WireInv(s)'
<1> DEFINE w == writes[s][1]
           v == [w EXCEPT !.status = "error"]
<1>1. i = 1 /\ writes[s] \in Seq(Write) /\ writes[s] # << >> /\ w \in Write
  BY TheOnlyWrite
<1>2. v.sent = w.sent /\ v.status = "error"
  BY <1>1 DEF Write
<1>3. /\ writes'[s] = [writes[s] EXCEPT ![1] = v]
      /\ send_que' = send_que /\ accepted' = accepted /\ wire' = wire
  BY <1>1 DEF WriteFails, IInv, TypeOK
<1>4. writes'[s] # << >> /\ writes'[s][1] = v
  BY <1>1, <1>3
<1> QED
  BY <1>1, <1>2, <1>3, <1>4 DEF WireInv, QueueIsRest, WireIsPrefix

\* HandleWrite pops a node whose pieces are all on the wire, so that the next
\* write starts where the wire ends.
LEMMA HandleWriteWire ==
  ASSUME IInv, NEW s \in Session, NEW i \in DOMAIN writes[s], HandleWrite(s, i), WireInv(s)
  PROVE  WireInv(s)'
<1> DEFINE q == Tail(send_que[s])
           m == Len(accepted[s])
           l == Len(send_que[s])
           n == m - l
<1>1. /\ i = 1 /\ RemoveAt(writes[s], i) = << >> /\ writes[s] # << >>
      /\ WInv(s) /\ send_que[s] \in Seq(Node) /\ m \in Nat /\ l \in Nat
      /\ writes[s][1].status = "ok"
  BY TheOnlyWrite DEF IInv, TypeOK, HandleWrite
<1>2. send_que[s] # << >>
  BY <1>1 DEF WInv
<1>3. /\ q \in Seq(Node) /\ Len(q) = l - 1
      /\ \A j \in 1..(l - 1) : q[j] = send_que[s][j + 1]
      /\ send_que'[s] = q /\ accepted' = accepted /\ wire' = wire
  BY <1>1, <1>2 DEF HandleWrite, IInv, TypeOK
<1>4. /\ n \in Nat /\ Len(wire[s]) = n * Pieces + Pieces
      /\ \A j \in 1..l : send_que[s][j] = accepted[s][n + j]
  BY <1>1 DEF WireInv, QueueIsRest
<1>5. m - (l - 1) = n + 1 /\ n + 1 \in Nat
  BY <1>1, <1>4
<1>6. Len(wire[s]) = (n + 1) * Pieces
  <2> HIDE DEF n
  <2> QED
    BY <1>4, PiecesGrow, PiecesAssumption
<1>7. ASSUME NEW j \in 1..(l - 1) PROVE q[j] = accepted[s][(n + 1) + j]
  <2>1. j + 1 \in 1..l
    BY <1>1
  <2>2. n + (j + 1) = (n + 1) + j
    <3> HIDE DEF n
    <3> QED
      BY <1>4
  <2> QED
    BY <1>3, <1>4, <2>1, <2>2
<1>8. /\ q = << >> => NextWrite(q) = << >>
      /\ q # << >> => NextWrite(q) # << >> /\ NextWrite(q)[1].sent = 0
                      /\ NextWrite(q)[1].status = "running"
  BY DEF NextWrite, WriteFront
<1>9. writes'[s] = NextWrite(q)
  <2>1. writes'[s] = << >> \o NextWrite(send_que'[s])
    BY <1>1 DEF HandleWrite, IInv, TypeOK
  <2>2. NextWrite(q) \in Seq(Write)
    BY <1>3, NextWriteIsFront
  <2> QED
    BY <1>3, <2>1, <2>2
<1>10. (n + 1) * Pieces + 0 = (n + 1) * Pieces
  <2> DEFINE x == (n + 1) * Pieces
  <2>1. x \in Nat
    BY <1>5, PiecesGrow, PiecesAssumption
  <2> HIDE DEF x
  <2>2. x + 0 = x
    BY <2>1
  <2> QED
    BY <2>2 DEF x
<1>11. WireIsPrefix(s)'
  BY <1>3 DEF WireInv, WireIsPrefix
<1> HIDE DEF q, m, l, n
<1>12. QueueIsRest(s)'
  <2>1. /\ Len(accepted'[s]) - Len(send_que'[s]) = n + 1
        /\ Len(send_que'[s]) = l - 1
    BY <1>3, <1>5 DEF m
  <2>2. \A j \in 1..Len(send_que'[s]) : send_que'[s][j] = accepted'[s][(n + 1) + j]
    BY <1>3, <1>7, <2>1
  <2>3. writes'[s] # << >> => Len(wire'[s]) = (n + 1) * Pieces + writes'[s][1].sent
    BY <1>3, <1>6, <1>8, <1>9, <1>10
  <2>4. writes'[s] # << >> => writes'[s][1].status # "ok"
    BY <1>8, <1>9
  <2> QED
    BY <1>3, <1>5, <1>6, <2>1, <2>2, <2>3, <2>4 DEF QueueIsRest
<1> QED
  BY <1>11, <1>12 DEF WireInv

\* After an error the queue keeps the node, so that Send never writes again.
LEMMA HandleWriteErrorWire ==
  ASSUME IInv, NEW s \in Session, NEW i \in DOMAIN writes[s], HandleWriteError(s, i), WireInv(s)
  PROVE  WireInv(s)'
<1>1. RemoveAt(writes[s], i) = << >> /\ writes[s] # << >> /\ WInv(s)
  BY TheOnlyWrite DEF IInv
<1>2. /\ writes'[s] = << >> /\ send_que[s] # << >>
      /\ send_que' = send_que /\ accepted' = accepted /\ wire' = wire
  BY <1>1 DEF HandleWriteError, CloseAndClear, IInv, TypeOK, WInv
<1> QED
  BY <1>2 DEF WireInv, QueueIsRest, WireIsPrefix

\* A step of session s, which may send a node that has been sent before.
StepOf(s) == \/ \E n \in Node : Send(s, n)
             \/ WriteStep(s)
             \/ PeerGone(s)
             \/ HandleReadError(s)

\* It leaves the wire and the queue of every other alone.
LEMMA StepIsOfOneSession ==
  ASSUME IInv, NEW s \in Session, NEW r \in Session, r # s, StepOf(s)
  PROVE  SameWire(r)
BY DEF StepOf, IInv, TypeOK, SameWire, Send, SendRefused, SendQueued, SendWritten, WriteStep,
       Transfer, WriteFails, HandleWrite, HandleWriteError, CloseAndClear, PeerGone,
       HandleReadError

\* The writes are kept by every step, and so is the wire.
LEMMA StepInv ==
  ASSUME IInv, NEW s \in Session, StepOf(s)
  PROVE  IInv'
<1>1. ASSUME NEW n \in Node, Send(s, n) PROVE IInv'
  BY <1>1, SendInv
<1>2. CASE WriteStep(s)
  BY <1>2, TransferInv, WriteFailsInv, HandleWriteInv, HandleWriteErrorInv DEF WriteStep
<1>3. CASE PeerGone(s)
  BY <1>3, PeerGoneInv
<1>4. CASE HandleReadError(s)
  BY <1>4, HandleReadErrorInv
<1> QED
  BY <1>1, <1>2, <1>3, <1>4 DEF StepOf

LEMMA StepWire ==
  ASSUME IInv, \A r \in Session : WireInv(r), NEW s \in Session, StepOf(s)
  PROVE  \A r \in Session : WireInv(r)'
<1> SUFFICES ASSUME NEW r \in Session PROVE WireInv(r)'
  OBVIOUS
<1>1. CASE r # s
  BY <1>1, StepIsOfOneSession, WireUnchanged
<1>2. ASSUME r = s, NEW n \in Node, Send(r, n) PROVE WireInv(r)'
  BY <1>2, SendWire
<1>3. ASSUME r = s, WriteStep(r) PROVE WireInv(r)'
  BY <1>3, TransferWire, WriteFailsWire, HandleWriteWire, HandleWriteErrorWire
     DEF WriteStep
<1>4. CASE PeerGone(s)
  BY <1>4, WireUnchanged DEF PeerGone, SameWire
<1>5. CASE HandleReadError(s)
  BY <1>5, WireUnchanged DEF HandleReadError, SameWire
<1> QED
  BY <1>1, <1>2, <1>3, <1>4, <1>5 DEF StepOf

LEMMA StutterInv ==
  ASSUME IInv, \A r \in Session : WireInv(r), UNCHANGED vars
  PROVE  IInv' /\ \A r \in Session : WireInv(r)'
<1>1. IInv'
  BY DEF vars, IInv, TypeOK, WInv
<1>2. \A r \in Session : WireInv(r)'
  BY WireUnchanged DEF vars, SameWire
<1> QED
  BY <1>1, <1>2

LEMMA NextIsStep ==
  ASSUME [Next]_vars
  PROVE  UNCHANGED vars \/ \E s \in Session : StepOf(s)
BY DEF Next, StepOf

-----------------------------------------------------------------------------
\* In every behaviour of Send, HandleWrite and the error paths: a session has at
\* most one write, of the front of its queue, and has one if the queue is not
\* empty and the session is open.
THEOREM InductiveInvariant == Spec => []IInv
<1>1. Init => IInv
  BY InitInv
<1>2. IInv /\ [Next]_vars => IInv'
  <2>1. IInv /\ UNCHANGED vars => IInv'
    BY DEF vars, IInv, TypeOK, WInv
  <2> QED
    BY <2>1, NextIsStep, StepInv
<1> QED
  BY <1>1, <1>2, PTL DEF Spec

\* A queue never grows beyond MAX_SENDQUE + 1 nodes.
THEOREM TypeCorrect == Spec => []TypeOK
<1>1. IInv => TypeOK
  BY DEF IInv
<1> QED
  BY <1>1, InductiveInvariant, PTL

\* Send and HandleWrite never have two writes of a session outstanding, however
\* the logic thread and the strand interleave.
THEOREM NeverTwoWrites == Spec => []OneWrite
<1>1. IInv => OneWrite
  BY DEF IInv, WInv, OneWrite
<1> QED
  BY <1>1, InductiveInvariant, PTL

\* The memory an outstanding write reads is that of a node still in the queue.
THEOREM BufferStaysAlive == Spec => []BufferIsFront
<1>1. IInv => BufferIsFront
  <2> SUFFICES ASSUME IInv, NEW s \in Session, NEW i \in DOMAIN writes[s]
               PROVE  send_que[s] # << >> /\ writes[s][i].node = Head(send_que[s])
    BY DEF BufferIsFront
  <2>1. i = 1 /\ writes[s] # << >>
    BY TheOnlyWrite
  <2> QED
    BY <2>1 DEF IInv, WInv
<1> QED
  BY <1>1, InductiveInvariant, PTL

\* An open session never holds nodes without a write to drain them.
THEOREM NeverStalls == Spec => []NoStall
<1>1. IInv => NoStall
  BY DEF IInv, WInv, NoStall
<1> QED
  BY <1>1, InductiveInvariant, PTL

\* The safety the runs check, for every limit, every way of cutting a node into
\* pieces and every set of sessions: Send and HandleWrite start one write at a
\* time, from the front of the queue, and never leave a queue without one.
THEOREM SafeAlways == Spec => []Safe
<1>1. TypeOK /\ OneWrite /\ BufferIsFront /\ NoStall => Safe
  BY DEF Safe
<1> QED
  BY <1>1, TypeCorrect, NeverTwoWrites, BufferStaysAlive, NeverStalls, PTL

\* A session starts with an empty wire and nothing accepted.
LEMMA InitWire == Init => \A s \in Session : WireInv(s)
<1> SUFFICES ASSUME Init, NEW s \in Session PROVE WireInv(s)
  OBVIOUS
<1>1. /\ send_que[s] = << >> /\ accepted[s] = << >> /\ wire[s] = << >> /\ writes[s] = << >>
  BY DEF Init
<1>2. 0 * Pieces = 0 /\ 0 - 0 = 0
  BY PiecesAssumption
<1>3. Len(accepted[s]) - Len(send_que[s]) = 0
  BY <1>1, <1>2
<1> QED
  BY <1>1, <1>2, <1>3 DEF WireInv, QueueIsRest, WireIsPrefix

\* What the peer receives is the nodes Send has accepted, each whole and in the
\* order of the calls, however many pieces the transport makes of each, and
\* whatever fails on the way.
THEOREM WireStaysInOrder == Spec => []WireInOrder
<1> DEFINE Wires == \A s \in Session : WireInv(s)
<1>1. Init => Wires
  BY InitWire
<1>2. IInv /\ Wires /\ [Next]_vars => Wires'
  BY NextIsStep, StepWire, StutterInv
<1>3. IInv /\ Wires => WireInOrder
  BY PrefixOfFrames DEF WireInv, WireInOrder
<1> HIDE DEF Wires
<1> QED
  BY <1>1, <1>2, <1>3, InductiveInvariant, PTL DEF Spec
=============================================================================
