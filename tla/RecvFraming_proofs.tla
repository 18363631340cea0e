------------------------- MODULE RecvFraming_proofs -------------------------
(***************************************************************************)
(* Proofs about RecvFraming, for every length of heads, bodies and chunks,  *)
(* and every set of sessions.                                               *)
(*                                                                          *)
(* That the copies of HandleRead fit in all but the nodes of a negative     *)
(* length is inductive together with the types: each turn changes one       *)
(* session, and what it copies is bounded by the test it has just made.     *)
(* The first lemmas say what a chunk is cut into, the next that each way    *)
(* through the loop keeps FInv of its session.                              *)
(*                                                                          *)
(* That the nodes posted are the frames rests on what is left of the        *)
(* stream: as long as no body was split, the bytes that are not posted yet  *)
(* are whole frames (Framed, by the places at which they begin), so that    *)
(* the next complete head is that of the next frame, and no negative length *)
(* is decoded.                                                              *)
(*                                                                          *)
(* That no byte is lost compares what was written with what was posted and  *)
(* what is still in between, both flattened; the lemmas about FlattenSeq    *)
(* are proved by induction over a set of numbers.                           *)
(***************************************************************************)
EXTENDS RecvFraming, SequenceTheorems, WellFoundedInduction, TLAPS

Node == [total : Int, data : Seq(Byte)]
Posting == [head : Seq(Byte), data : Seq(Byte)]

\* The node of session s, if it is for a length that is not negative.
Fits(s) == recv_msg[s].total >= HEAD_TOTAL_LEN =>
             /\ Len(recv_msg[s].data) <= recv_msg[s].total
             /\ b_head_parse[s] => Len(recv_msg[s].data) < recv_msg[s].total

\* The types and the copies of one session.
FInv(s) == /\ lens[s] \in Seq(BodyLen) /\ net[s] \in Seq(Byte) /\ data[s] \in Seq(Byte)
           /\ handler[s] \in {"reading", "parsing", "stopped"}
           /\ recv_head[s] \in Seq(Byte) /\ Len(recv_head[s]) <= HEAD_TOTAL_LEN
           /\ recv_msg[s] \in Node
           /\ posted[s] \in Seq(Posting)
           /\ Fits(s)
           /\ Parsing(s) => data[s] # << >>

IInv == TypeOK /\ \A s \in Session : Fits(s) /\ (Parsing(s) => data[s] # << >>)

-----------------------------------------------------------------------------
\* The two parts a sequence is cut into.
LEMMA Cut ==
  ASSUME NEW S, NEW q \in Seq(S), NEW m \in Nat, m <= Len(q)
  PROVE  /\ SubSeq(q, 1, m) \in Seq(S) /\ Len(SubSeq(q, 1, m)) = m
         /\ SubSeq(q, m + 1, Len(q)) \in Seq(S) /\ Len(SubSeq(q, m + 1, Len(q))) = Len(q) - m
<1>1. Len(q) \in Nat /\ \A i \in 1..Len(q) : q[i] \in S
  OBVIOUS
<1>2. /\ SubSeq(q, 1, m) \in Seq(S)
      /\ Len(SubSeq(q, 1, m)) = IF 1 <= m THEN m - 1 + 1 ELSE 0
  BY <1>1, SubSeqProperties
<1>3. /\ SubSeq(q, m + 1, Len(q)) \in Seq(S)
      /\ Len(SubSeq(q, m + 1, Len(q))) = IF m + 1 <= Len(q) THEN Len(q) - (m + 1) + 1 ELSE 0
  <2>1. \A i \in m + 1..Len(q) : q[i] \in S
    BY <1>1
  <2> QED
    BY <1>1, <2>1, SubSeqProperties
<1> QED
  BY <1>1, <1>2, <1>3

\* The types of one session, and what they give for all.
LEMMA OfSession == IInv <=> /\ TypeOK
                            /\ \A s \in Session : FInv(s)
BY DEF IInv, TypeOK, FInv, Node, Posting

\* A length that does not exceed a chunk by the comparison of HandleRead.
LEMMA NotLess ==
  ASSUME NEW n \in Nat, NEW m \in Int, ~SizeLess(n, m)
  PROVE  m \in Nat /\ m <= n
BY DEF SizeLess

\* A complete head has HEAD_TOTAL_LEN bytes, and the chunk goes on behind it.
LEMMA HeadCut ==
  ASSUME NEW s \in Session, FInv(s), HeadComplete(s)
  PROVE  /\ HeadRemain(s) \in Nat /\ HeadRemain(s) <= Len(data[s])
         /\ Head4(s) \in Seq(Byte) /\ Len(Head4(s)) = HEAD_TOTAL_LEN
         /\ AfterHead(s) \in Seq(Byte)
<1>1. /\ HeadRemain(s) \in Nat /\ HeadRemain(s) <= Len(data[s])
  <2>1. Len(data[s]) \in Nat /\ Len(recv_head[s]) \in Nat /\ Len(recv_head[s]) <= HEAD_TOTAL_LEN
    BY DEF FInv
  <2>2. ~(Len(data[s]) + Len(recv_head[s]) < HEAD_TOTAL_LEN)
    BY DEF HeadComplete, HeadShort
  <2> DEFINE d == Len(data[s])
             h == Len(recv_head[s])
  <2>3. d \in Nat /\ h \in Nat /\ h <= HEAD_TOTAL_LEN /\ ~(d + h < HEAD_TOTAL_LEN)
    BY <2>1, <2>2
  <2>4. HeadRemain(s) = HEAD_TOTAL_LEN - h
    BY DEF HeadRemain
  <2> HIDE DEF d, h
  <2>5. HEAD_TOTAL_LEN - h \in Nat /\ HEAD_TOTAL_LEN - h <= d
    BY <2>3, HeadAssumption
  <2> QED
    BY <2>4, <2>5 DEF d
<1>2. /\ SubSeq(data[s], 1, HeadRemain(s)) \in Seq(Byte)
      /\ Len(SubSeq(data[s], 1, HeadRemain(s))) = HeadRemain(s)
      /\ AfterHead(s) \in Seq(Byte)
  BY <1>1, Cut DEF FInv, AfterHead
<1>3. /\ Head4(s) \in Seq(Byte) /\ Len(Head4(s)) = Len(recv_head[s]) + HeadRemain(s)
  BY <1>2, ConcatProperties DEF FInv, Head4
<1> QED
  BY <1>1, <1>2, <1>3, HeadAssumption DEF HeadRemain, FInv

\* The bytes of a frame, and those of its head.
LEMMA FrameBytesType ==
  ASSUME NEW k \in 1..MaxFrames, NEW len \in BodyLen
  PROVE  FrameBytes(k, len) \in Seq(Byte)
<1>1. HEAD_TOTAL_LEN + len \in Nat /\ len <= MAX_LENGTH
  BY HeadAssumption, LengthAssumption
<1>2. \A p \in 1..HEAD_TOTAL_LEN + len : [frame |-> k, pos |-> p] \in Byte
  BY <1>1, HeadAssumption, LengthAssumption DEF Byte
<1> QED
  BY <1>1, <1>2 DEF FrameBytes

\* What is decoded is a signed short.
LEMMA DecodeType ==
  ASSUME NEW s \in Session, FInv(s), NEW h
  PROVE  Decode(s, h) \subseteq Short
<1>1. CASE \E k \in DOMAIN lens[s] : h = FrameHead(k)
  <2>1. PICK k \in DOMAIN lens[s] : h = FrameHead(k)
    BY <1>1
  <2>2. lens[s][k] \in BodyLen
    BY <2>1 DEF FInv
  <2>3. h[1] = [frame |-> k, pos |-> 1]
    <3>1. \A i \in 1..HEAD_TOTAL_LEN : FrameBytes(k, 0)[i] = [frame |-> k, pos |-> i]
      <4>1. HEAD_TOTAL_LEN + 0 = HEAD_TOTAL_LEN
        BY HeadAssumption
      <4>2. FrameBytes(k, 0) = [p \in 1..HEAD_TOTAL_LEN |-> [frame |-> k, pos |-> p]]
        BY Zenon, <4>1 DEF FrameBytes
      <4> QED
        BY Zenon, <4>2
    <3> DEFINE bytes == {FrameBytes(k, 0)[i] : i \in 1..HEAD_TOTAL_LEN}
    <3>2. \A i \in 1..HEAD_TOTAL_LEN : FrameBytes(k, 0)[i] \in bytes
      OBVIOUS
    <3> HIDE DEF bytes
    <3>3. FrameHead(k)[1] = FrameBytes(k, 0)[1]
      BY <3>2, HeadAssumption, SubSeqProperties DEF FrameHead
    <3> QED
      BY <2>1, <3>1, <3>3, HeadAssumption
  <2>4. h[1].frame = k
    BY <2>3
  <2> QED
    BY <1>1, <2>2, <2>4, ShortAssumption DEF Decode
<1>2. CASE ~ \E k \in DOMAIN lens[s] : h = FrameHead(k)
  BY <1>2 DEF Decode
<1> QED
  BY <1>1, <1>2, ShortAssumption

-----------------------------------------------------------------------------
\* What an action of session s leaves alone in another one.
Same(r) == /\ lens'[r] = lens[r] /\ net'[r] = net[r] /\ data'[r] = data[r]
           /\ handler'[r] = handler[r] /\ recv_head'[r] = recv_head[r]
           /\ recv_msg'[r] = recv_msg[r] /\ posted'[r] = posted[r]
           /\ b_head_parse'[r] = b_head_parse[r]

\* An action need only be examined for its session, besides what its types say
\* of the functions as such.
LEMMA OneSession ==
  ASSUME IInv, NEW s \in Session, TypeOK', FInv(s)', \A r \in Session \ {s} : Same(r)
  PROVE  IInv'
<1>1. ASSUME NEW r \in Session \ {s} PROVE FInv(r)'
  BY OfSession, <1>1 DEF FInv, Fits, Same, Parsing
<1> QED
  BY <1>1 DEF IInv, FInv

-----------------------------------------------------------------------------
(* The peer and the socket. *)

\* A frame appended to the stream.
LEMMA PeerWritesInv ==
  ASSUME IInv, NEW s \in Session, NEW len \in BodyLen, PeerWrites(s, len)
  PROVE  IInv'
<1>1. FInv(s) /\ TypeOK
  BY OfSession
<1>2. net[s] \o FrameBytes(Len(lens[s]) + 1, len) \in Seq(Byte)
  <2>1. Len(lens[s]) + 1 \in 1..MaxFrames
    BY <1>1, FramesAssumption DEF PeerWrites, FInv
  <2> QED
    BY <1>1, <2>1, FrameBytesType, ConcatProperties DEF FInv
<1>3. TypeOK'
  <2>1. lens' \in [Session -> Seq(BodyLen)]
    BY <1>1 DEF PeerWrites, TypeOK
  <2>2. net' \in [Session -> Seq(Byte)]
    BY <1>1, <1>2 DEF PeerWrites, TypeOK
  <2> QED
    BY <1>1, <2>1, <2>2 DEF PeerWrites, TypeOK
<1>4. FInv(s)'
  BY <1>1, <1>2 DEF PeerWrites, TypeOK, FInv, Fits, Node, Posting, Parsing, peer
<1>5. \A r \in Session \ {s} : Same(r)
  BY <1>1, <1>2 DEF PeerWrites, TypeOK, Same, peer
<1> QED
  BY <1>3, <1>4, <1>5, OneSession

\* Nothing of the loop changes.
LEMMA PeerLeavesInv ==
  ASSUME IInv, NEW s \in Session, PeerLeaves(s)
  PROVE  IInv'
<1>1. FInv(s) /\ TypeOK
  BY OfSession
<1>3. TypeOK'
  BY <1>1 DEF PeerLeaves, TypeOK, FInv, Node, Posting, peer
<1>4. FInv(s)'
  BY <1>1 DEF PeerLeaves, TypeOK, FInv, Fits, Node, Posting, Parsing, peer
<1>5. \A r \in Session \ {s} : Same(r)
  BY <1>1 DEF PeerLeaves, TypeOK, Same, peer
<1> QED
  BY <1>3, <1>4, <1>5, OneSession

\* A chunk is never empty.
LEMMA ReceiveInv ==
  ASSUME IInv, NEW s \in Session, Receive(s)
  PROVE  IInv'
<1>1. FInv(s) /\ TypeOK
  BY OfSession
<1>2. PICK n \in 1..MAX_LENGTH : n <= Len(net[s]) /\ ReadCompletes(s, n)
  BY DEF Receive
<1>a. n \in Nat /\ n > 0
  BY LengthAssumption
<1>b. /\ SubSeq(net[s], 1, n) \in Seq(Byte) /\ SubSeq(net[s], 1, n) # << >>
      /\ SubSeq(net[s], n + 1, Len(net[s])) \in Seq(Byte)
  <2>1. /\ SubSeq(net[s], 1, n) \in Seq(Byte) /\ Len(SubSeq(net[s], 1, n)) = n
        /\ SubSeq(net[s], n + 1, Len(net[s])) \in Seq(Byte)
    BY <1>1, <1>2, <1>a, Cut DEF FInv
  <2>2. \A q \in Seq(Byte) : Len(q) = n => q # << >>
    BY <1>a
  <2> QED
    BY <2>1, <2>2
<1>3. TypeOK'
  BY <1>1, <1>2, <1>b DEF ReadCompletes, TypeOK, FInv, Node, Posting, peer
<1>4. FInv(s)'
  BY <1>1, <1>2, <1>b DEF ReadCompletes, TypeOK, FInv, Fits, Node, Posting, Parsing, peer
<1>5. \A r \in Session \ {s} : Same(r)
  BY <1>1, <1>2, <1>b DEF ReadCompletes, TypeOK, Same, peer
<1> QED
  BY <1>3, <1>4, <1>5, OneSession

\* The loop is left for good.
LEMMA ReadFailsInv ==
  ASSUME IInv, NEW s \in Session, ReadFails(s)
  PROVE  IInv'
<1>1. FInv(s) /\ TypeOK
  BY OfSession
<1>3. TypeOK'
  BY <1>1 DEF ReadFails, TypeOK, FInv, Node, Posting, peer
<1>4. FInv(s)'
  BY <1>1 DEF ReadFails, TypeOK, FInv, Fits, Node, Posting, Parsing, peer
<1>5. \A r \in Session \ {s} : Same(r)
  BY <1>1 DEF ReadFails, TypeOK, Same, peer
<1> QED
  BY <1>3, <1>4, <1>5, OneSession

-----------------------------------------------------------------------------
(* The turns of the loop. *)

\* A head that is still short takes the whole chunk.
LEMMA HeadPartialInv ==
  ASSUME IInv, NEW s \in Session, HeadPartial(s)
  PROVE  IInv'
<1>1. FInv(s) /\ TypeOK
  BY OfSession
<1>2. /\ recv_head[s] \o data[s] \in Seq(Byte)
      /\ Len(recv_head[s] \o data[s]) <= HEAD_TOTAL_LEN
  <2>1. Len(recv_head[s] \o data[s]) = Len(recv_head[s]) + Len(data[s])
    BY <1>1, ConcatProperties DEF FInv
  <2>2. Len(recv_head[s]) \in Nat /\ Len(data[s]) \in Nat
    BY <1>1 DEF FInv
  <2>3. Len(recv_head[s] \o data[s]) <= HEAD_TOTAL_LEN
    <3> DEFINE h == Len(recv_head[s])
               d == Len(data[s])
    <3>1. h \in Nat /\ d \in Nat /\ d + h < HEAD_TOTAL_LEN
      BY <2>2 DEF HeadPartial, HeadShort
    <3> HIDE DEF h, d
    <3>2. h + d <= HEAD_TOTAL_LEN
      BY <3>1, HeadAssumption
    <3> QED
      BY <2>1, <3>2 DEF h, d
  <2> QED
    BY <1>1, <2>3, ConcatProperties DEF FInv
<1>3. TypeOK'
  <2>1. recv_head' \in [Session -> Seq(Byte)]
    BY <1>1, <1>2 DEF HeadPartial, TypeOK
  <2>2. \A r \in Session : Len(recv_head'[r]) <= HEAD_TOTAL_LEN
    BY <1>1, <1>2 DEF HeadPartial, TypeOK
  <2>3. data' \in [Session -> Seq(Byte)]
    BY <1>1 DEF HeadPartial, TypeOK
  <2> QED
    BY <1>1, <2>1, <2>2, <2>3 DEF HeadPartial, ReadAgain, TypeOK, peer
<1>4. FInv(s)'
  BY <1>1, <1>2 DEF HeadPartial, ReadAgain, TypeOK, FInv, Fits, Node, Posting, Parsing, peer
<1>5. \A r \in Session \ {s} : Same(r)
  BY <1>1, <1>2 DEF HeadPartial, ReadAgain, TypeOK, Same, peer
<1> QED
  BY <1>3, <1>4, <1>5, OneSession

\* The loop is left for good with a complete head.
LEMMA StopsInv ==
  ASSUME IInv, NEW s \in Session, NEW len \in Short,
         InvalidHead(s, len) \/ NodeThrows(s, len)
  PROVE  IInv'
<1>1. FInv(s) /\ TypeOK
  BY OfSession
<1>2. /\ Head4(s) \in Seq(Byte) /\ Len(Head4(s)) <= HEAD_TOTAL_LEN
      /\ AfterHead(s) \in Seq(Byte)
  BY <1>1, HeadCut, HeadAssumption DEF InvalidHead, NodeThrows, Stops
<1>3. TypeOK'
  <2>1. recv_head' \in [Session -> Seq(Byte)] /\ data' \in [Session -> Seq(Byte)]
    BY <1>1, <1>2 DEF InvalidHead, NodeThrows, Stops, TypeOK
  <2>2. \A r \in Session : Len(recv_head'[r]) <= HEAD_TOTAL_LEN
    BY <1>1, <1>2 DEF InvalidHead, NodeThrows, Stops, TypeOK
  <2>3. handler' \in [Session -> {"reading", "parsing", "stopped"}]
    BY <1>1 DEF InvalidHead, NodeThrows, Stops, TypeOK
  <2>4. /\ sessions' \subseteq Session
        /\ UNCHANGED <<peer, net, recv_msg, b_head_parse, b_close, posted, split>>
    BY <1>1 DEF InvalidHead, NodeThrows, TypeOK
  <2> QED
    BY <1>1, <2>1, <2>2, <2>3, <2>4 DEF TypeOK, peer
<1>4. FInv(s)'
  BY <1>1, <1>2 DEF InvalidHead, NodeThrows, Stops, TypeOK, FInv, Fits, Node, Posting, Parsing, peer
<1>5. \A r \in Session \ {s} : Same(r)
  BY <1>1, <1>2 DEF InvalidHead, NodeThrows, Stops, TypeOK, Same, peer
<1> QED
  BY <1>3, <1>4, <1>5, OneSession

\* The beginning of a body is shorter than the body, and so than its node, if the
\* length is not negative.
LEMMA BodyPartialInv ==
  ASSUME IInv, NEW s \in Session, NEW len \in Short, BodyPartial(s, len)
  PROVE  IInv'
<1>1. FInv(s) /\ TypeOK
  BY OfSession
<1>2. /\ Head4(s) \in Seq(Byte) /\ Len(Head4(s)) <= HEAD_TOTAL_LEN
      /\ AfterHead(s) \in Seq(Byte)
      /\ len \in Int
  BY <1>1, HeadCut, HeadAssumption, ShortAssumption DEF BodyPartial
<1>a. /\ len + HEAD_TOTAL_LEN \in Int
      /\ len + HEAD_TOTAL_LEN >= HEAD_TOTAL_LEN => Len(AfterHead(s)) < len + HEAD_TOTAL_LEN
  BY <1>2, HeadAssumption DEF BodyPartial, SizeLess
<1>3. TypeOK'
  <2>1. recv_head' \in [Session -> Seq(Byte)] /\ data' \in [Session -> Seq(Byte)]
    BY <1>1, <1>2 DEF BodyPartial, TypeOK
  <2>2. \A r \in Session : Len(recv_head'[r]) <= HEAD_TOTAL_LEN
    BY <1>1, <1>2 DEF BodyPartial, TypeOK
  <2>3. recv_msg' \in [Session -> Node]
    BY <1>1, <1>2, <1>a DEF BodyPartial, TypeOK, Node
  <2> QED
    BY <1>1, <2>1, <2>2, <2>3 DEF BodyPartial, ReadAgain, TypeOK, Node, peer
<1>4. FInv(s)'
  BY <1>1, <1>2, <1>a, HeadAssumption
  DEF BodyPartial, ReadAgain, TypeOK, FInv, Fits, Node, Posting, Parsing, peer
<1>5. \A r \in Session \ {s} : Same(r)
  BY <1>1, <1>2, <1>a, HeadAssumption DEF BodyPartial, ReadAgain, TypeOK, Same, peer
<1> QED
  BY <1>3, <1>4, <1>5, OneSession

\* A node with other bytes.
LEMMA NodeExcept ==
  ASSUME NEW m \in Node, NEW d
  PROVE  [m EXCEPT !.data = d] = [total |-> m.total, data |-> d]
BY DEF Node

\* A node is posted: the head is clear, and the loop goes on only with a rest.
LEMMA PostTypes ==
  ASSUME TypeOK, NEW s \in Session,
         NEW h \in Seq(Byte), NEW b \in Seq(Byte), NEW rest \in Seq(Byte),
         Post(s, h, b, rest)
  PROVE  /\ posted' \in [Session -> Seq(Posting)]
         /\ recv_head' \in [Session -> Seq(Byte)] /\ recv_head'[s] = << >>
         /\ \A r \in Session : Len(recv_head'[r]) <= HEAD_TOTAL_LEN
         /\ data' \in [Session -> Seq(Byte)]
         /\ b_head_parse' \in [Session -> BOOLEAN] /\ ~b_head_parse'[s]
         /\ handler' \in [Session -> {"reading", "parsing", "stopped"}]
         /\ handler'[s] = "parsing" => data'[s] # << >>
         /\ \A r \in Session \ {s} :
              /\ posted'[r] = posted[r] /\ recv_head'[r] = recv_head[r]
              /\ data'[r] = data[r] /\ b_head_parse'[r] = b_head_parse[r]
              /\ handler'[r] = handler[r]
<1>1. posted' \in [Session -> Seq(Posting)]
  <2>1. [head |-> h, data |-> b] \in Posting
    BY DEF Posting
  <2>2. posted \in [Session -> Seq(Posting)]
    BY DEF TypeOK, Posting
  <2>3. posted' = [posted EXCEPT ![s] = Append(posted[s], [head |-> h, data |-> b])]
    BY DEF Post
  <2> QED
    BY <2>1, <2>2, <2>3
<1>2. /\ recv_head' \in [Session -> Seq(Byte)] /\ recv_head'[s] = << >>
      /\ \A r \in Session : Len(recv_head'[r]) <= HEAD_TOTAL_LEN
  BY HeadAssumption DEF Post, TypeOK
<1>3. /\ data' \in [Session -> Seq(Byte)]
      /\ b_head_parse' \in [Session -> BOOLEAN] /\ ~b_head_parse'[s]
      /\ handler' \in [Session -> {"reading", "parsing", "stopped"}]
      /\ handler'[s] = "parsing" => data'[s] # << >>
  BY DEF Post, ReadAgain, TypeOK
<1>4. \A r \in Session \ {s} :
        /\ posted'[r] = posted[r] /\ recv_head'[r] = recv_head[r]
        /\ data'[r] = data[r] /\ b_head_parse'[r] = b_head_parse[r]
        /\ handler'[r] = handler[r]
  BY DEF Post, ReadAgain, TypeOK
<1> QED
  BY <1>1, <1>2, <1>3, <1>4

\* A whole body is smaller than its node, which has room for a head as well.
LEMMA BodyCompleteInv ==
  ASSUME IInv, NEW s \in Session, NEW len \in Short, BodyComplete(s, len)
  PROVE  IInv'
<1> DEFINE rest == AfterHead(s)
           body == SubSeq(rest, 1, len)
           n == [total |-> len + HEAD_TOTAL_LEN, data |-> body]
<1>1. FInv(s) /\ TypeOK
  BY OfSession
<1>2. /\ Head4(s) \in Seq(Byte) /\ rest \in Seq(Byte)
      /\ len \in Nat /\ len <= Len(rest)
  BY <1>1, HeadCut, NotLess, ShortAssumption DEF BodyComplete
<1>3. /\ body \in Seq(Byte) /\ Len(body) = len
      /\ SubSeq(rest, len + 1, Len(rest)) \in Seq(Byte)
  BY <1>2, Cut
<1>4. n \in Node /\ Len(n.data) <= n.total
  BY <1>2, <1>3, HeadAssumption DEF Node
<1>5. \E h, b, r \in Seq(Byte) : Post(s, h, b, r)
  BY <1>2, <1>3 DEF BodyComplete
<1>6. /\ recv_msg' \in [Session -> Node] /\ recv_msg'[s] = n
      /\ \A r \in Session \ {s} : recv_msg'[r] = recv_msg[r]
  BY <1>1, <1>4 DEF BodyComplete, TypeOK, Node
<1> HIDE DEF n
<1>7. TypeOK'
  BY <1>1, <1>5, <1>6, PostTypes DEF BodyComplete, TypeOK, Node, Posting, peer
<1>8. FInv(s)'
  BY <1>1, <1>4, <1>5, <1>6, <1>7, PostTypes, HeadAssumption
  DEF BodyComplete, TypeOK, FInv, Fits, Node, Posting, Parsing, peer
<1>9. \A r \in Session \ {s} : Same(r)
  BY <1>1, <1>5, <1>6, PostTypes DEF BodyComplete, Same, peer
<1> QED
  BY <1>7, <1>8, <1>9, OneSession

\* More of a body that the node still has room for.
LEMMA MoreBodyInv ==
  ASSUME IInv, NEW s \in Session, MoreBody(s)
  PROVE  IInv'
<1> DEFINE body == recv_msg[s].data \o data[s]
           n == [total |-> recv_msg[s].total, data |-> body]
<1>1. FInv(s) /\ TypeOK
  BY OfSession
<1>2. /\ body \in Seq(Byte) /\ Len(body) = Len(recv_msg[s].data) + Len(data[s])
  BY <1>1, ConcatProperties DEF FInv, Node
<1>3. n \in Node /\ (n.total >= HEAD_TOTAL_LEN => Len(n.data) < n.total /\ Len(n.data) <= n.total)
  <2>1. RemainMsg(s) < 0 \/ Len(data[s]) < RemainMsg(s)
    BY DEF MoreBody, SizeLess
  <2>2. Len(data[s]) \in Nat /\ Len(recv_msg[s].data) \in Nat /\ recv_msg[s].total \in Int
    BY <1>1 DEF FInv, Node
  <2>3. recv_msg[s].total >= HEAD_TOTAL_LEN =>
          Len(body) < recv_msg[s].total /\ Len(body) <= recv_msg[s].total
    <3>1. \A a, b \in Nat, c \in Int : b < c - a => a + b < c /\ a + b <= c
      OBVIOUS
    <3>2. recv_msg[s].total >= HEAD_TOTAL_LEN => ~(RemainMsg(s) < 0)
      BY <1>1, <2>2 DEF FInv, Fits, RemainMsg
    <3> QED
      BY <1>2, <2>1, <2>2, <3>1, <3>2 DEF RemainMsg
  <2> HIDE DEF body
  <2> QED
    BY <1>2, <2>2, <2>3 DEF Node
<1>4. /\ recv_msg' \in [Session -> Node] /\ recv_msg'[s] = n
      /\ \A r \in Session \ {s} : recv_msg'[r] = recv_msg[r]
  <2>1. recv_msg' = [recv_msg EXCEPT ![s] = n]
    <3>1. recv_msg[s] \in Node
      BY <1>1 DEF FInv
    <3>2. [recv_msg[s] EXCEPT !.data = body] = n
      BY <3>1, NodeExcept
    <3>3. recv_msg' = [recv_msg EXCEPT ![s] = [recv_msg[s] EXCEPT !.data = body]]
      BY DEF MoreBody
    <3> QED
      BY <3>2, <3>3
  <2> QED
    BY <1>1, <1>3, <2>1 DEF TypeOK, Node
<1> HIDE DEF n
<1>5. TypeOK'
  <2>1. data' \in [Session -> Seq(Byte)]
    BY <1>1 DEF MoreBody, TypeOK
  <2>2. handler' \in [Session -> {"reading", "parsing", "stopped"}]
    BY <1>1 DEF MoreBody, ReadAgain, TypeOK
  <2> QED
    BY <1>1, <1>4, <2>1, <2>2 DEF MoreBody, TypeOK, Node, peer
<1>6. FInv(s)'
  <2>1. handler'[s] = "reading"
    BY <1>1 DEF MoreBody, ReadAgain, TypeOK
  <2> QED
    BY <1>3, <1>4, <1>5, <2>1 DEF TypeOK, FInv, Fits, Node, Posting, Parsing
<1>7. \A r \in Session \ {s} : Same(r)
  BY <1>1, <1>4 DEF MoreBody, ReadAgain, TypeOK, Same, peer
<1> QED
  BY <1>5, <1>6, <1>7, OneSession

\* The rest of a body fills the node to its end.
LEMMA RestOfBodyInv ==
  ASSUME IInv, NEW s \in Session, RestOfBody(s)
  PROVE  IInv'
<1> DEFINE body == recv_msg[s].data \o SubSeq(data[s], 1, RemainMsg(s))
           n == [total |-> recv_msg[s].total, data |-> body]
<1>1. FInv(s) /\ TypeOK
  BY OfSession
<1>2. /\ RemainMsg(s) \in Nat /\ RemainMsg(s) <= Len(data[s])
      /\ RemainMsg(s) = recv_msg[s].total - Len(recv_msg[s].data)
      /\ Len(recv_msg[s].data) \in Nat /\ recv_msg[s].total \in Int
  <2>1. /\ Len(recv_msg[s].data) \in Nat /\ recv_msg[s].total \in Int
        /\ Len(data[s]) \in Nat
    BY <1>1 DEF FInv, Node
  <2>2. ~SizeLess(Len(data[s]), RemainMsg(s)) /\ RemainMsg(s) \in Int
    BY <2>1 DEF RestOfBody, RemainMsg
  <2> QED
    BY <2>1, <2>2, NotLess DEF RemainMsg
<1>3. /\ SubSeq(data[s], 1, RemainMsg(s)) \in Seq(Byte)
      /\ Len(SubSeq(data[s], 1, RemainMsg(s))) = RemainMsg(s)
      /\ SubSeq(data[s], RemainMsg(s) + 1, Len(data[s])) \in Seq(Byte)
  BY <1>1, <1>2, Cut DEF FInv
<1>4. /\ body \in Seq(Byte)
      /\ n \in Node /\ Len(n.data) <= n.total
  <2>1. body \in Seq(Byte) /\ Len(body) = Len(recv_msg[s].data) + RemainMsg(s)
    BY <1>1, <1>3, ConcatProperties DEF FInv, Node
  <2> QED
    BY <1>2, <2>1 DEF Node
<1>5. \E h, b, r \in Seq(Byte) : Post(s, h, b, r)
  BY <1>1, <1>3, <1>4 DEF RestOfBody, FInv
<1>6. /\ recv_msg' \in [Session -> Node] /\ recv_msg'[s] = n
      /\ \A r \in Session \ {s} : recv_msg'[r] = recv_msg[r]
  <2>1. recv_msg' = [recv_msg EXCEPT ![s] = n]
    <3>1. recv_msg[s] \in Node
      BY <1>1 DEF FInv
    <3>2. [recv_msg[s] EXCEPT !.data = body] = n
      BY <3>1, NodeExcept
    <3>3. recv_msg' = [recv_msg EXCEPT ![s] = [recv_msg[s] EXCEPT !.data = body]]
      BY DEF RestOfBody
    <3> QED
      BY <3>2, <3>3
  <2> QED
    BY <1>1, <1>4, <2>1 DEF TypeOK, Node
<1> HIDE DEF n
<1>7. TypeOK'
  BY <1>1, <1>5, <1>6, PostTypes DEF RestOfBody, TypeOK, Node, Posting, peer
<1>8. FInv(s)'
  BY <1>1, <1>4, <1>5, <1>6, <1>7, PostTypes, HeadAssumption
  DEF RestOfBody, TypeOK, FInv, Fits, Node, Posting, Parsing, peer
<1>9. \A r \in Session \ {s} : Same(r)
  BY <1>1, <1>5, <1>6, PostTypes DEF RestOfBody, Same, peer
<1> QED
  BY <1>7, <1>8, <1>9, OneSession

-----------------------------------------------------------------------------
\* Every session begins with a read outstanding and nothing received.
LEMMA InitInv == Init => IInv
<1> SUFFICES ASSUME Init PROVE IInv
  OBVIOUS
<1>1. \A S : << >> \in Seq(S)
  OBVIOUS
<1>2. [total |-> HEAD_TOTAL_LEN, data |-> << >>] \in Node
  BY <1>1, HeadAssumption DEF Node
<1>3. TypeOK
  <2>1. recv_msg \in [Session -> [total : Int, data : Seq(Byte)]]
    BY <1>2 DEF Init, Node
  <2>2. \A s \in Session : Len(recv_head[s]) <= HEAD_TOTAL_LEN
    BY HeadAssumption DEF Init
  <2> QED
    BY <1>1, <2>1, <2>2 DEF Init, TypeOK
<1>4. \A s \in Session : Fits(s) /\ (Parsing(s) => data[s] # << >>)
  BY HeadAssumption DEF Init, Fits, Parsing
<1> QED
  BY <1>3, <1>4 DEF IInv

\* One step of one session; the invariants are kept also by those that follow a
\* copy out of its node.
StepOf(s) == \/ \E len \in BodyLen : PeerWrites(s, len)
             \/ PeerLeaves(s) \/ Receive(s) \/ ReadFails(s) \/ Turn(s)
Steps == \E s \in Session : StepOf(s)

LEMMA NextSteps == [Next]_vars => [Steps]_vars
BY DEF Next, Steps, StepOf

\* Every step preserves the invariant.
LEMMA StepsInv == IInv /\ [Steps]_vars => IInv'
<1> SUFFICES ASSUME IInv, [Steps]_vars PROVE IInv'
  OBVIOUS
<1>1. CASE UNCHANGED vars
  BY <1>1 DEF IInv, TypeOK, Fits, Parsing, vars
<1>2. ASSUME NEW s \in Session, NEW len \in BodyLen, PeerWrites(s, len) PROVE IInv'
  BY <1>2, PeerWritesInv
<1>3. ASSUME NEW s \in Session, PeerLeaves(s) \/ Receive(s) \/ ReadFails(s) PROVE IInv'
  BY <1>3, PeerLeavesInv, ReceiveInv, ReadFailsInv
<1>4. ASSUME NEW s \in Session, Turn(s) PROVE IInv'
  BY <1>4, HeadPartialInv, StopsInv, BodyPartialInv, BodyCompleteInv, MoreBodyInv,
     RestOfBodyInv DEF Turn
<1> QED
  BY <1>1, <1>2, <1>3, <1>4 DEF Steps, StepOf

LEMMA NextInv == IInv /\ [Next]_vars => IInv'
BY StepsInv, NextSteps

\* The invariant holds in every behaviour.
THEOREM InductiveInvariant == Spec => []IInv
<1> QED
  BY InitInv, NextInv, PTL DEF Spec

\* Type correctness; and that _recv_head_node, which has HEAD_TOTAL_LEN bytes,
\* is never filled past its end (CSession.cpp:109).
THEOREM TypeCorrect == Spec => []TypeOK
<1>1. IInv => TypeOK
  BY DEF IInv
<1> QED
  BY <1>1, InductiveInvariant, PTL

-----------------------------------------------------------------------------
(* A byte stream that is cut into frames.  st[j] is how many bytes of the   *)
(* stream r precede frame j, so that no step has to count through frames.   *)

IsFraming(st, r, l, k) ==
  /\ st \in [(k + 1)..(Len(l) + 1) -> Nat]
  /\ st[k + 1] = 0 /\ st[Len(l) + 1] = Len(r)
  /\ \A i, j \in (k + 1)..(Len(l) + 1) : i <= j => st[i] <= st[j]
  /\ \A j \in (k + 1)..Len(l) :
       /\ st[j + 1] = st[j] + (HEAD_TOTAL_LEN + l[j])
       /\ \A p \in 1..(HEAD_TOTAL_LEN + l[j]) : r[st[j] + p] = [frame |-> j, pos |-> p]

\* r is the frames k + 1, k + 2, ... of bodies of the lengths l, and no more.
Framed(r, l, k) == k <= Len(l) /\ \E st : IsFraming(st, r, l, k)

\* A frame has at least its head.
LEMMA FrameLength ==
  ASSUME NEW len \in BodyLen
  PROVE  len \in Nat /\ HEAD_TOTAL_LEN + len \in Nat \ {0} /\ HEAD_TOTAL_LEN \in Nat \ {0}
BY HeadAssumption, LengthAssumption

\* f is frame k, with a body of length len.
IsFrame(f, k, len) ==
  /\ Len(f) = HEAD_TOTAL_LEN + len
  /\ \A p \in 1..(HEAD_TOTAL_LEN + len) : f[p] = [frame |-> k, pos |-> p]

\* The bytes of a frame, one by one.
LEMMA FrameBytesAt ==
  ASSUME NEW k, NEW len \in BodyLen
  PROVE  IsFrame(FrameBytes(k, len), k, len)
<1>1. HEAD_TOTAL_LEN + len \in Nat
  BY FrameLength
<1>2. DOMAIN FrameBytes(k, len) = 1..(HEAD_TOTAL_LEN + len)
  BY Zenon DEF FrameBytes
<1>3. \A p \in 1..(HEAD_TOTAL_LEN + len) : FrameBytes(k, len)[p] = [frame |-> k, pos |-> p]
  BY Zenon DEF FrameBytes
<1>4. Len(FrameBytes(k, len)) = HEAD_TOTAL_LEN + len
  BY <1>1, <1>2 DEF FrameBytes
<1> QED
  BY <1>3, <1>4, Zenon DEF IsFrame

\* The elements of a concatenation, part by part.
LEMMA ConcatAt ==
  ASSUME NEW S, NEW q \in Seq(S), NEW r \in Seq(S)
  PROVE  /\ q \o r \in Seq(S) /\ Len(q) \in Nat /\ Len(r) \in Nat
         /\ Len(q \o r) = Len(q) + Len(r)
         /\ \A i \in 1..Len(q) : (q \o r)[i] = q[i]
         /\ \A i \in 1..Len(r) : (q \o r)[Len(q) + i] = r[i]
<1>1. /\ q \o r \in Seq(S) /\ Len(q \o r) = Len(q) + Len(r)
      /\ \A i \in 1..Len(q) + Len(r) :
           (q \o r)[i] = IF i <= Len(q) THEN q[i] ELSE r[i - Len(q)]
  BY ConcatProperties
<1>2. Len(q) \in Nat /\ Len(r) \in Nat
  OBVIOUS
<1> DEFINE m == Len(q)
           n == Len(r)
           c == q \o r
<1>3. m \in Nat /\ n \in Nat
      /\ \A i \in 1..m + n : c[i] = IF i <= m THEN q[i] ELSE r[i - m]
  BY <1>1, <1>2
<1> HIDE DEF m, n, c
<1>4. \A i \in 1..m : c[i] = q[i]
  BY <1>3
<1>5. ASSUME NEW i \in 1..n PROVE c[m + i] = r[i]
  <2>1. m + i \in 1..m + n /\ ~(m + i <= m) /\ (m + i) - m = i
    BY <1>3
  <2> QED
    BY <1>3, <2>1
<1> QED
  BY <1>1, <1>2, <1>4, <1>5 DEF m, n, c

\* Nothing written and nothing posted.
LEMMA FramedEmpty ==
  ASSUME NEW r, NEW l, r = << >>, l = << >>
  PROVE  Framed(r, l, 0)
<1> DEFINE st == [j \in 1..1 |-> 0]
<1>1. IsFraming(st, r, l, 0)
  <2>1. Len(l) = 0 /\ Len(r) = 0
    OBVIOUS
  <2>2. /\ 0 + 1 = 1 /\ Len(l) + 1 = 1 /\ (0 + 1)..Len(l) = {}
        /\ (0 + 1)..(Len(l) + 1) = 1..1
    BY <2>1
  <2>3. st \in [1..1 -> Nat] /\ st[1] = 0
    OBVIOUS
  <2> HIDE DEF st
  <2> QED
    BY <2>1, <2>2, <2>3 DEF IsFraming
<1> QED
  BY <1>1 DEF Framed

\* The peer writes one more frame behind the others.
LEMMA FramedConcat ==
  ASSUME NEW r \in Seq(Byte), NEW l \in Seq(BodyLen), NEW k \in Nat, NEW len \in BodyLen,
         Framed(r, l, k), NEW f \in Seq(Byte), IsFrame(f, Len(l) + 1, len)
  PROVE  Framed(r \o f, Append(l, len), k)
<1> DEFINE n == Len(l)
           q == r \o f
           m == Append(l, len)
           h == HEAD_TOTAL_LEN + len
<1>1. n \in Nat /\ h \in Nat \ {0}
  BY FrameLength
<1>2. /\ Len(m) = n + 1 /\ m[n + 1] = len /\ \A j \in 1..n : m[j] = l[j]
  OBVIOUS
<1>3. /\ q \in Seq(Byte) /\ Len(q) = Len(r) + h /\ Len(r) \in Nat
      /\ \A i \in 1..Len(r) : q[i] = r[i]
      /\ \A i \in 1..h : q[Len(r) + i] = f[i]
  <2>1. /\ q \in Seq(Byte) /\ Len(q) = Len(r) + Len(f) /\ Len(r) \in Nat
        /\ \A i \in 1..Len(r) : q[i] = r[i]
        /\ \A i \in 1..Len(f) : q[Len(r) + i] = f[i]
    BY ConcatAt
  <2>2. Len(f) = h
    BY DEF IsFrame
  <2> HIDE DEF q, h
  <2> QED
    BY <2>1, <2>2
<1>a. \A p \in 1..h : f[p] = [frame |-> n + 1, pos |-> p]
  BY DEF IsFrame
<1> HIDE DEF q, m, h
<1>4. PICK st : IsFraming(st, r, l, k)
  BY DEF Framed
<1>5. k <= n
  BY DEF Framed
<1> HIDE DEF n
<1> DEFINE t == [j \in (k + 1)..(n + 2) |-> IF j = n + 2 THEN Len(r) + h ELSE st[j]]
<1>6. /\ st \in [(k + 1)..(n + 1) -> Nat]
      /\ st[k + 1] = 0 /\ st[n + 1] = Len(r)
      /\ \A i, j \in (k + 1)..(n + 1) : i <= j => st[i] <= st[j]
      /\ \A j \in (k + 1)..n :
           /\ st[j + 1] = st[j] + (HEAD_TOTAL_LEN + l[j])
           /\ \A p \in 1..(HEAD_TOTAL_LEN + l[j]) : r[st[j] + p] = [frame |-> j, pos |-> p]
  BY <1>4 DEF IsFraming, n
<1>7. /\ t[n + 2] = Len(r) + h
      /\ \A j \in (k + 1)..(n + 1) : t[j] = st[j]
      /\ t \in [(k + 1)..(n + 2) -> Nat]
  BY <1>1, <1>3, <1>5, <1>6
<1> HIDE DEF t
<1>8. \A i, j \in (k + 1)..(n + 2) : i <= j => t[i] <= t[j]
  <2> SUFFICES ASSUME NEW i \in (k + 1)..(n + 2), NEW j \in (k + 1)..(n + 2), i <= j
               PROVE  t[i] <= t[j]
    OBVIOUS
  <2>1. n + 1 \in (k + 1)..(n + 1)
    BY <1>1, <1>5
  <2>2. CASE i = n + 2
    <3>1. j = n + 2
      BY <1>1, <2>2
    <3> QED
      BY <1>3, <1>7, <2>2, <3>1
  <2>3. CASE i # n + 2 /\ j = n + 2
    <3>1. i \in (k + 1)..(n + 1) /\ i <= n + 1
      BY <1>1, <2>3
    <3>2. st[i] \in Nat /\ st[i] <= Len(r)
      BY <1>6, <2>1, <3>1
    <3>3. t[i] = st[i] /\ t[j] = Len(r) + h
      BY <1>7, <2>3, <3>1
    <3>4. \A a, b, c \in Nat : a <= b => a <= b + c
      OBVIOUS
    <3> QED
      BY <1>1, <1>3, <3>2, <3>3, <3>4
  <2>4. CASE i # n + 2 /\ j # n + 2
    <3>1. i \in (k + 1)..(n + 1) /\ j \in (k + 1)..(n + 1)
      BY <1>1, <2>4
    <3> QED
      BY <1>6, <1>7, <3>1
  <2> QED
    BY <2>2, <2>3, <2>4
<1>9. ASSUME NEW j \in (k + 1)..(n + 1)
       PROVE  /\ t[j + 1] = t[j] + (HEAD_TOTAL_LEN + m[j])
              /\ \A p \in 1..(HEAD_TOTAL_LEN + m[j]) : q[t[j] + p] = [frame |-> j, pos |-> p]
  <2>1. CASE j = n + 1
    <3>1. HEAD_TOTAL_LEN + m[j] = h /\ t[j] = Len(r) /\ j + 1 = n + 2
      BY <1>1, <1>2, <1>6, <1>7, <2>1 DEF h
    <3>2. \A p \in 1..h : f[p] = [frame |-> j, pos |-> p]
      BY <1>a, <2>1
    <3> QED
      BY <1>3, <1>7, <3>1, <3>2
  <2>2. CASE j # n + 1
    <3>1. j \in (k + 1)..n /\ j \in 1..n /\ j + 1 \in (k + 1)..(n + 1)
          /\ n + 1 \in (k + 1)..(n + 1) /\ j + 1 <= n + 1
      BY <1>1, <2>2
    <3>2. m[j] = l[j] /\ t[j] = st[j] /\ t[j + 1] = st[j + 1]
      BY <1>2, <1>7, <3>1
    <3>3. l[j] \in BodyLen
      BY <3>1 DEF n
    <3>4. /\ st[j] \in Nat /\ st[j + 1] \in Nat /\ st[j + 1] <= Len(r)
          /\ HEAD_TOTAL_LEN + l[j] \in Nat
          /\ st[j + 1] = st[j] + (HEAD_TOTAL_LEN + l[j])
      BY <1>6, <3>1, <3>3, FrameLength
    <3>5. \A p \in 1..(HEAD_TOTAL_LEN + l[j]) : st[j] + p \in 1..Len(r)
      <4> DEFINE a == st[j]
                 b == HEAD_TOTAL_LEN + l[j]
                 c == st[j + 1]
                 d == Len(r)
      <4>1. a \in Nat /\ b \in Nat /\ c \in Nat /\ d \in Nat /\ c <= d /\ c = a + b
        BY <1>3, <3>4
      <4> HIDE DEF a, b, c, d
      <4>2. \A p \in 1..b : a + p \in 1..d
        BY <4>1
      <4> QED
        BY <4>2 DEF a, b, d
    <3>6. \A p \in 1..(HEAD_TOTAL_LEN + l[j]) : q[st[j] + p] = [frame |-> j, pos |-> p]
      BY <1>3, <1>6, <3>1, <3>5
    <3> QED
      BY <3>2, <3>4, <3>6
  <2> QED
    BY <2>1, <2>2
<1>10. IsFraming(t, q, m, k)
  <2>1. Len(m) + 1 = n + 2
    BY <1>1, <1>2
  <2>2. t[k + 1] = 0
    BY <1>1, <1>5, <1>6, <1>7
  <2> QED
    BY <1>2, <1>3, <1>7, <1>8, <1>9, <2>1, <2>2 DEF IsFraming
<1>11. k <= Len(m)
  BY <1>1, <1>2, <1>5
<1> QED
  BY <1>10, <1>11 DEF Framed, q, m

LEMMA FramedAppend ==
  ASSUME NEW r \in Seq(Byte), NEW l \in Seq(BodyLen), NEW k \in Nat, NEW len \in BodyLen,
         Framed(r, l, k), Len(l) < MaxFrames
  PROVE  /\ FrameBytes(Len(l) + 1, len) \in Seq(Byte)
         /\ Framed(r \o FrameBytes(Len(l) + 1, len), Append(l, len), k)
<1> DEFINE f == FrameBytes(Len(l) + 1, len)
<1>1. Len(l) + 1 \in 1..MaxFrames
  BY FramesAssumption
<1>2. f \in Seq(Byte) /\ IsFrame(f, Len(l) + 1, len)
  BY <1>1, FrameBytesType, FrameBytesAt
<1> HIDE DEF f
<1>3. Framed(r \o f, Append(l, len), k)
  BY <1>2, FramedConcat
<1> QED
  BY <1>2, <1>3 DEF f

\* A stream that is not empty begins with a whole frame.
LEMMA FramedHead ==
  ASSUME NEW r \in Seq(Byte), NEW l \in Seq(BodyLen), NEW k \in Nat, Framed(r, l, k), r # << >>
  PROVE  /\ k + 1 \in 1..Len(l)
         /\ HEAD_TOTAL_LEN + l[k + 1] <= Len(r)
         /\ \A p \in 1..(HEAD_TOTAL_LEN + l[k + 1]) : r[p] = [frame |-> k + 1, pos |-> p]
<1> DEFINE n == Len(l)
<1>1. PICK st : IsFraming(st, r, l, k)
  BY DEF Framed
<1>2. k <= n /\ n \in Nat
  BY DEF Framed
<1>3. Len(r) \in Nat /\ Len(r) # 0
  OBVIOUS
<1>4. /\ st \in [(k + 1)..(n + 1) -> Nat]
      /\ st[k + 1] = 0 /\ st[n + 1] = Len(r)
      /\ \A i, j \in (k + 1)..(n + 1) : i <= j => st[i] <= st[j]
      /\ \A j \in (k + 1)..n :
           /\ st[j + 1] = st[j] + (HEAD_TOTAL_LEN + l[j])
           /\ \A p \in 1..(HEAD_TOTAL_LEN + l[j]) : r[st[j] + p] = [frame |-> j, pos |-> p]
  BY <1>1 DEF IsFraming
<1>5. k # n
  BY <1>3, <1>4
<1> HIDE DEF n
<1>6. /\ k + 1 \in (k + 1)..n /\ k + 1 \in 1..n /\ (k + 1) + 1 \in (k + 1)..(n + 1)
      /\ n + 1 \in (k + 1)..(n + 1) /\ (k + 1) + 1 <= n + 1
  BY <1>2, <1>5
<1>7. l[k + 1] \in BodyLen
  BY <1>6 DEF n
<1>8. HEAD_TOTAL_LEN + l[k + 1] \in Nat
  BY <1>7, FrameLength
<1>9. HEAD_TOTAL_LEN + l[k + 1] <= Len(r)
  <2>1. /\ st[(k + 1) + 1] <= Len(r)
        /\ st[(k + 1) + 1] = 0 + (HEAD_TOTAL_LEN + l[k + 1])
    BY <1>4, <1>6
  <2> QED
    BY <1>8, <2>1
<1>10. \A p \in 1..(HEAD_TOTAL_LEN + l[k + 1]) : r[0 + p] = [frame |-> k + 1, pos |-> p]
  BY <1>4, <1>6
<1> QED
  BY <1>6, <1>8, <1>9, <1>10 DEF n

\* Positions behind the first h bytes, counted from there.
Shifted(x, h, b, d) == \A p \in 1..b : (x - h) + p \in 1..(d - h) /\ h + ((x - h) + p) = x + p

LEMMA ShiftBack ==
  ASSUME NEW x \in Nat, NEW h \in Nat, NEW b \in Nat, NEW d \in Nat,
         h <= x, x + b <= d
  PROVE  Shifted(x, h, b, d)
BY DEF Shifted

\* Without its first frame it is still cut into frames.
LEMMA FramedPop ==
  ASSUME NEW r \in Seq(Byte), NEW l \in Seq(BodyLen), NEW k \in Nat, Framed(r, l, k), r # << >>,
         NEW q \in Seq(Byte), NEW h \in Nat, h = HEAD_TOTAL_LEN + l[k + 1],
         Len(q) = Len(r) - h, \A i \in 1..Len(q) : q[i] = r[h + i]
  PROVE  Framed(q, l, k + 1)
<1> DEFINE n == Len(l)
           d == Len(r)
<1>1. PICK st : IsFraming(st, r, l, k)
  BY DEF Framed
<1>2. k + 1 <= n /\ n \in Nat /\ h <= d /\ d \in Nat
  BY FramedHead
<1>3. /\ st \in [(k + 1)..(n + 1) -> Nat]
      /\ st[k + 1] = 0 /\ st[n + 1] = d
      /\ \A i, j \in (k + 1)..(n + 1) : i <= j => st[i] <= st[j]
      /\ \A j \in (k + 1)..n :
           /\ st[j + 1] = st[j] + (HEAD_TOTAL_LEN + l[j])
           /\ \A p \in 1..(HEAD_TOTAL_LEN + l[j]) : r[st[j] + p] = [frame |-> j, pos |-> p]
  BY <1>1 DEF IsFraming
<1>4. \A j \in (k + 1)..n : HEAD_TOTAL_LEN + l[j] \in Nat
  <2> SUFFICES ASSUME NEW j \in (k + 1)..n PROVE HEAD_TOTAL_LEN + l[j] \in Nat
    OBVIOUS
  <2>1. l[j] \in BodyLen
    BY <1>2
  <2> QED
    BY <2>1, FrameLength
<1>5. Len(q) = d - h /\ \A i \in 1..(d - h) : q[i] = r[h + i]
  OBVIOUS
<1> HIDE DEF n, d
<1> DEFINE lo == (k + 1) + 1
           t == [j \in lo..(n + 1) |-> st[j] - h]
<1>6. /\ lo \in Nat /\ lo <= n + 1 /\ lo \in (k + 1)..(n + 1) /\ n + 1 \in lo..(n + 1)
      /\ \A j \in lo..(n + 1) : j \in (k + 1)..(n + 1) /\ lo <= j
      /\ \A j \in lo..n : j \in (k + 1)..n /\ j \in lo..(n + 1) /\ j + 1 \in lo..(n + 1)
  BY <1>2
<1>7. st[lo] = h
  <2>1. k + 1 \in (k + 1)..n
    BY <1>2
  <2>2. st[(k + 1) + 1] = 0 + h
    BY <1>3, <2>1
  <2> QED
    BY <2>2
<1>8. \A j \in lo..(n + 1) : t[j] = st[j] - h
  OBVIOUS
<1> HIDE DEF lo
<1>9. \A j \in lo..(n + 1) : st[j] \in Nat /\ h <= st[j] /\ st[j] - h \in Nat
  <2> SUFFICES ASSUME NEW j \in lo..(n + 1)
               PROVE  st[j] \in Nat /\ h <= st[j] /\ st[j] - h \in Nat
    OBVIOUS
  <2>1. st[j] \in Nat /\ st[lo] <= st[j]
    BY <1>3, <1>6
  <2> QED
    BY <1>7, <2>1
<1>10. t \in [lo..(n + 1) -> Nat]
  <2>1. \A j \in lo..(n + 1) : st[j] - h \in Nat
    BY <1>9
  <2> QED
    BY <2>1, Zenon
<1> HIDE DEF t
<1>11. t[lo] = 0 /\ t[n + 1] = d - h
  BY <1>3, <1>6, <1>7, <1>8
<1>12. \A i, j \in lo..(n + 1) : i <= j => t[i] <= t[j]
  <2> SUFFICES ASSUME NEW i \in lo..(n + 1), NEW j \in lo..(n + 1), i <= j
               PROVE  t[i] <= t[j]
    OBVIOUS
  <2>1. st[i] \in Nat /\ st[j] \in Nat /\ st[i] <= st[j]
    BY <1>3, <1>6, <1>9
  <2>2. t[i] = st[i] - h /\ t[j] = st[j] - h
    BY <1>8
  <2> QED
    BY <2>1, <2>2
<1>13. ASSUME NEW j \in lo..n
       PROVE  /\ t[j + 1] = t[j] + (HEAD_TOTAL_LEN + l[j])
              /\ \A p \in 1..(HEAD_TOTAL_LEN + l[j]) : q[t[j] + p] = [frame |-> j, pos |-> p]
  <2> DEFINE b == HEAD_TOTAL_LEN + l[j]
             x == st[j]
             y == st[j + 1]
  <2>1. /\ b \in Nat /\ x \in Nat /\ y \in Nat /\ y = x + b /\ h <= x /\ y <= d
        /\ t[j] = x - h /\ t[j + 1] = y - h
        /\ \A p \in 1..b : r[x + p] = [frame |-> j, pos |-> p]
    <3>1. /\ j \in (k + 1)..n /\ j \in lo..(n + 1) /\ j + 1 \in lo..(n + 1)
          /\ n + 1 \in (k + 1)..(n + 1) /\ j + 1 \in (k + 1)..(n + 1) /\ j + 1 <= n + 1
      BY <1>2, <1>6
    <3> QED
      BY <1>3, <1>4, <1>8, <1>9, <3>1
  <2> HIDE DEF b, x, y
  <2>2. (y - h) = (x - h) + b
    BY <2>1
  <2>3. \A p \in 1..b : (x - h) + p \in 1..(d - h) /\ h + ((x - h) + p) = x + p
    <3>1. b \in Nat /\ x \in Nat /\ h <= x /\ x + b <= d /\ d \in Nat
      BY <1>2, <2>1
    <3>2. Shifted(x, h, b, d)
      BY <3>1, ShiftBack
    <3> QED
      BY <3>2 DEF Shifted
  <2>4. \A p \in 1..b : q[(x - h) + p] = [frame |-> j, pos |-> p]
    BY <1>5, <2>1, <2>3
  <2> QED
    BY <2>1, <2>2, <2>4 DEF b
<1>14. IsFraming(t, q, l, k + 1)
  BY <1>5, <1>10, <1>11, <1>12, <1>13 DEF IsFraming, lo, n
<1> QED
  BY <1>2, <1>14 DEF Framed, n

-----------------------------------------------------------------------------
(* What the turns of the loop do to the bytes that are not posted yet.      *)

\* The bytes received or on their way, apart from those of a split body.
Rest(s) == recv_head[s] \o (data[s] \o net[s])

\* The two parts of a sequence make the sequence.
LEMMA CutConcat ==
  ASSUME NEW S, NEW q \in Seq(S), NEW m \in Nat, m <= Len(q)
  PROVE  SubSeq(q, 1, m) \o SubSeq(q, m + 1, Len(q)) = q
<1>1. Len(q) \in Nat
  OBVIOUS
<1>2. 1 \in 1..Len(q) + 1 /\ m \in 1 - 1..Len(q) /\ Len(q) \in m..Len(q)
  BY <1>1
<1>3. SubSeq(q, 1, m) \o SubSeq(q, m + 1, Len(q)) = SubSeq(q, 1, Len(q))
  BY <1>2, ConcatAdjacentSubSeq
<1> QED
  BY <1>3, SubSeqFull

\* Concatenation is associative.
Associates(a, b, c) == (a \o b) \o c = a \o (b \o c)

LEMMA Associate ==
  ASSUME NEW S, NEW a \in Seq(S), NEW b \in Seq(S), NEW c \in Seq(S)
  PROVE  Associates(a, b, c)
BY ConcatAssociative DEF Associates

\* The middle of three sequences may be split between its neighbours.
Regrouped(a, b, c, d) == a \o ((b \o c) \o d) = (a \o b) \o (c \o d)

LEMMA Regroup ==
  ASSUME NEW S, NEW a \in Seq(S), NEW b \in Seq(S), NEW c \in Seq(S), NEW d \in Seq(S)
  PROVE  Regrouped(a, b, c, d)
<1> DEFINE e == c \o d
<1>1. Associates(b, c, d)
  BY Associate
<1>2. e \in Seq(S)
  BY ConcatProperties
<1> HIDE DEF e
<1>3. Associates(a, b, e)
  BY <1>2, Associate
<1>4. (b \o c) \o d = b \o e /\ (a \o b) \o e = a \o (b \o e)
  BY <1>1, <1>3, Zenon DEF Associates, e
<1> QED
  BY <1>4, Zenon DEF Regrouped, e

\* A complete head and what follows it.
LEMMA RestCut ==
  ASSUME NEW s \in Session, FInv(s), HeadComplete(s)
  PROVE  /\ Rest(s) = Head4(s) \o (AfterHead(s) \o net[s])
         /\ Rest(s) \in Seq(Byte) /\ Rest(s) # << >>
         /\ AfterHead(s) \o net[s] \in Seq(Byte)
<1> DEFINE a == recv_head[s]
           b == SubSeq(data[s], 1, HeadRemain(s))
           c == AfterHead(s)
           d == net[s]
<1>1. /\ a \in Seq(Byte) /\ d \in Seq(Byte) /\ data[s] \in Seq(Byte)
      /\ HeadRemain(s) \in Nat /\ HeadRemain(s) <= Len(data[s])
      /\ c \in Seq(Byte) /\ Head4(s) \in Seq(Byte) /\ Len(Head4(s)) = HEAD_TOTAL_LEN
  BY HeadCut DEF FInv
<1>2. b \in Seq(Byte) /\ b \o c = data[s]
  BY <1>1, Cut, CutConcat DEF AfterHead
<1>3. Head4(s) = a \o b
  BY DEF Head4
<1> HIDE DEF a, b, c, d
<1>4. a \o ((b \o c) \o d) = (a \o b) \o (c \o d) /\ c \o d \in Seq(Byte)
  <2>1. a \in Seq(Byte) /\ b \in Seq(Byte) /\ c \in Seq(Byte) /\ d \in Seq(Byte)
    BY <1>1, <1>2
  <2>2. c \o d \in Seq(Byte)
    BY <2>1, ConcatProperties
  <2>3. Regrouped(a, b, c, d)
    BY <2>1, Regroup
  <2> QED
    BY <2>2, <2>3, Zenon DEF Regrouped
<1>5. Rest(s) = Head4(s) \o (c \o d)
  BY <1>2, <1>3, <1>4 DEF Rest, a, d
<1>6. /\ Head4(s) \o (c \o d) \in Seq(Byte)
      /\ Len(Head4(s) \o (c \o d)) = HEAD_TOTAL_LEN + Len(c \o d)
  BY <1>1, <1>4, ConcatProperties
<1>7. Len(c \o d) \in Nat
  BY <1>4
<1>8. Head4(s) \o (c \o d) # << >>
  <2> DEFINE q == Head4(s) \o (c \o d)
             n == Len(c \o d)
  <2>1. Len(q) = HEAD_TOTAL_LEN + n /\ n \in Nat
    BY <1>6, <1>7
  <2> HIDE DEF q, n
  <2>2. Len(q) # 0
    BY <2>1, HeadAssumption
  <2> QED
    BY <2>2 DEF q
<1> QED
  BY <1>4, <1>5, <1>6, <1>8 DEF c, d

\* The head of frame k, byte by byte.
LEMMA FrameHeadAt ==
  ASSUME NEW k
  PROVE  /\ \A i \in 1..HEAD_TOTAL_LEN : FrameHead(k)[i] = [frame |-> k, pos |-> i]
         /\ \E S : FrameHead(k) \in Seq(S)
         /\ Len(FrameHead(k)) = HEAD_TOTAL_LEN
<1>1. \A i \in 1..HEAD_TOTAL_LEN : FrameBytes(k, 0)[i] = [frame |-> k, pos |-> i]
  <2>1. HEAD_TOTAL_LEN + 0 = HEAD_TOTAL_LEN
    BY HeadAssumption
  <2>2. FrameBytes(k, 0) = [p \in 1..HEAD_TOTAL_LEN |-> [frame |-> k, pos |-> p]]
    BY Zenon, <2>1 DEF FrameBytes
  <2> QED
    BY Zenon, <2>2
<1> DEFINE bytes == {FrameBytes(k, 0)[i] : i \in 1..HEAD_TOTAL_LEN}
<1>2. \A i \in 1..HEAD_TOTAL_LEN : FrameBytes(k, 0)[i] \in bytes
  OBVIOUS
<1> HIDE DEF bytes
<1>3. /\ FrameHead(k) \in Seq(bytes) /\ Len(FrameHead(k)) = HEAD_TOTAL_LEN
      /\ \A i \in 1..HEAD_TOTAL_LEN : FrameHead(k)[i] = FrameBytes(k, 0)[i]
  <2> DEFINE f == FrameBytes(k, 0)
  <2> HIDE DEF f
  <2>1. /\ SubSeq(f, 1, HEAD_TOTAL_LEN) \in Seq(bytes)
        /\ Len(SubSeq(f, 1, HEAD_TOTAL_LEN)) =
             IF 1 <= HEAD_TOTAL_LEN THEN HEAD_TOTAL_LEN - 1 + 1 ELSE 0
        /\ \A i \in 1..HEAD_TOTAL_LEN - 1 + 1 : SubSeq(f, 1, HEAD_TOTAL_LEN)[i] = f[1 + i - 1]
    BY <1>2, HeadAssumption, SubSeqProperties DEF f
  <2>2. HEAD_TOTAL_LEN - 1 + 1 = HEAD_TOTAL_LEN /\ 1 <= HEAD_TOTAL_LEN
        /\ \A i \in 1..HEAD_TOTAL_LEN : 1 + i - 1 = i
    BY HeadAssumption
  <2> QED
    BY <2>1, <2>2 DEF FrameHead, f
<1>4. \A i \in 1..HEAD_TOTAL_LEN : FrameHead(k)[i] = [frame |-> k, pos |-> i]
  BY <1>1, <1>3
<1> QED
  BY <1>3, <1>4

\* The bytes at the beginning of a concatenation are those of its first part.
LEMMA HeadOfConcat ==
  ASSUME NEW S, NEW a \in Seq(S), NEW b \in Seq(S), NEW i \in 1..Len(a)
  PROVE  (a \o b)[i] = a[i]
BY ConcatAt

\* Two heads of which all bytes are those of frame k.
LEMMA HeadIsFrameHead ==
  ASSUME NEW h \in Seq(Byte), NEW k, Len(h) = HEAD_TOTAL_LEN,
         \A i \in 1..HEAD_TOTAL_LEN : h[i] = [frame |-> k, pos |-> i]
  PROVE  h = FrameHead(k)
<1>1. PICK S : FrameHead(k) \in Seq(S)
  BY FrameHeadAt
<1>2. /\ Len(FrameHead(k)) = HEAD_TOTAL_LEN
      /\ \A i \in 1..HEAD_TOTAL_LEN : FrameHead(k)[i] = [frame |-> k, pos |-> i]
  BY FrameHeadAt
<1> DEFINE g == FrameHead(k)
<1>3. g \in Seq(S) /\ Len(g) = Len(h) /\ \A i \in 1..Len(h) : g[i] = h[i]
  BY <1>1, <1>2
<1> HIDE DEF g
<1>4. g = h
  BY <1>3
<1> QED
  BY <1>4 DEF g

\* While the stream is cut into frames, a complete head is that of the next one
\* and is decoded to the length its peer wrote.
LEMMA HeadDecoded ==
  ASSUME NEW s \in Session, FInv(s), HeadComplete(s),
         NEW k \in Nat, Framed(Rest(s), lens[s], k)
  PROVE  /\ k + 1 \in 1..Len(lens[s])
         /\ lens[s][k + 1] \in BodyLen
         /\ Head4(s) = FrameHead(k + 1)
         /\ Decode(s, Head4(s)) = {lens[s][k + 1]}
<1> DEFINE h == Head4(s)
           r == Rest(s)
           n == HEAD_TOTAL_LEN + lens[s][k + 1]
<1>1. /\ h \in Seq(Byte) /\ Len(h) = HEAD_TOTAL_LEN
      /\ r \in Seq(Byte) /\ r # << >> /\ r = h \o (AfterHead(s) \o net[s])
      /\ AfterHead(s) \o net[s] \in Seq(Byte)
  BY HeadCut, RestCut
<1>2. lens[s] \in Seq(BodyLen)
  BY DEF FInv
<1>3. /\ k + 1 \in 1..Len(lens[s])
      /\ \A p \in 1..n : r[p] = [frame |-> k + 1, pos |-> p]
  BY <1>1, <1>2, FramedHead
<1>4. lens[s][k + 1] \in BodyLen
  BY <1>2, <1>3
<1>5. \A p \in 1..HEAD_TOTAL_LEN : p \in 1..n
  <2>1. lens[s][k + 1] \in Nat
    BY <1>4, FrameLength
  <2> QED
    BY <2>1, HeadAssumption
<1> HIDE DEF h, r, n
<1>6. \A p \in 1..HEAD_TOTAL_LEN : r[p] = h[p]
  <2> SUFFICES ASSUME NEW p \in 1..HEAD_TOTAL_LEN PROVE r[p] = h[p]
    OBVIOUS
  <2>1. (h \o (AfterHead(s) \o net[s]))[p] = h[p]
    BY <1>1, HeadOfConcat
  <2> QED
    BY <1>1, <2>1
<1>7. \A p \in 1..HEAD_TOTAL_LEN : h[p] = [frame |-> k + 1, pos |-> p]
  BY <1>3, <1>5, <1>6
<1>8. h = FrameHead(k + 1)
  BY <1>1, <1>7, HeadIsFrameHead
<1>9. h[1].frame = k + 1
  <2>1. 1 \in 1..HEAD_TOTAL_LEN
    BY HeadAssumption
  <2>2. h[1] = [frame |-> k + 1, pos |-> 1]
    BY <1>7, <2>1, Zenon
  <2> QED
    BY <2>2
<1>10. k + 1 \in DOMAIN lens[s]
  BY <1>2, <1>3
<1>11. Decode(s, h) = {lens[s][k + 1]}
  BY <1>8, <1>9, <1>10 DEF Decode
<1> QED
  BY <1>3, <1>4, <1>8, <1>11 DEF h

-----------------------------------------------------------------------------
(* As long as no body was split, what is not posted yet is whole frames.    *)

Exact(s) == /\ ~b_head_parse[s]
            /\ Framed(Rest(s), lens[s], Len(posted[s]))
            /\ \A k \in DOMAIN posted[s] : NodeIsFrame(s, k)
            /\ handler[s] = "stopped" => b_close[s]
            /\ recv_msg[s].total >= HEAD_TOTAL_LEN

EInv(s) == /\ handler[s] = "reading" => data[s] = << >>
           /\ ~split[s] => Exact(s)

\* Steps that move bytes between the buffers, and steps of other sessions.
LEMMA ExactKept ==
  ASSUME NEW s \in Session, EInv(s),
         Rest(s)' = Rest(s), lens'[s] = lens[s], posted'[s] = posted[s],
         recv_msg'[s] = recv_msg[s],
         b_head_parse'[s] = b_head_parse[s], split'[s] = split[s],
         b_close[s] => b_close'[s],
         handler'[s] = "stopped" => handler[s] = "stopped" \/ b_close'[s],
         handler'[s] = "reading" => data'[s] = << >>
  PROVE  EInv(s)'
BY DEF EInv, Exact, NodeIsFrame

\* A frame the peer writes comes behind the others.
LEMMA PeerWritesExact ==
  ASSUME IInv, NEW s \in Session, NEW len \in BodyLen, PeerWrites(s, len), EInv(s)
  PROVE  EInv(s)'
<1>1. FInv(s) /\ TypeOK
  BY OfSession
<1>2. /\ lens'[s] = Append(lens[s], len)
      /\ net'[s] = net[s] \o FrameBytes(Len(lens[s]) + 1, len)
      /\ UNCHANGED <<handler, data, recv_head, recv_msg, b_head_parse, b_close, posted, split>>
      /\ Len(lens[s]) < MaxFrames
  BY <1>1 DEF PeerWrites, TypeOK
<1> DEFINE f == FrameBytes(Len(lens[s]) + 1, len)
<1>3. ASSUME Exact(s) PROVE Exact(s)'
  <2>1. /\ recv_head[s] \in Seq(Byte) /\ data[s] \in Seq(Byte) /\ net[s] \in Seq(Byte)
        /\ lens[s] \in Seq(BodyLen) /\ posted[s] \in Seq(Posting)
    BY <1>1 DEF FInv
  <2>2. data[s] \o net[s] \in Seq(Byte) /\ Rest(s) \in Seq(Byte)
    BY <2>1, ConcatProperties DEF Rest
  <2>3. Len(posted[s]) \in Nat
    BY <2>1
  <2>4. f \in Seq(Byte) /\ Framed(Rest(s) \o f, Append(lens[s], len), Len(posted[s]))
    BY <1>2, <1>3, <2>1, <2>2, <2>3, FramedAppend DEF Exact
  <2> HIDE DEF f
  <2>5. Rest(s)' = Rest(s) \o f
    <3>1. /\ Associates(data[s], net[s], f)
          /\ Associates(recv_head[s], data[s] \o net[s], f)
      BY <2>1, <2>2, <2>4, Associate
    <3>2. Rest(s) \o f = recv_head[s] \o (data[s] \o (net[s] \o f))
      BY <3>1, Zenon DEF Rest, Associates
    <3> QED
      BY <1>2, <3>2, Zenon DEF Rest, f
  <2>6. \A k \in DOMAIN posted[s] : NodeIsFrame(s, k)'
    <3> SUFFICES ASSUME NEW k \in DOMAIN posted[s] PROVE NodeIsFrame(s, k)'
      OBVIOUS
    <3>1. k \in 1..Len(posted[s]) /\ NodeIsFrame(s, k)
      BY <1>3, <2>1 DEF Exact
    <3>2. k \in 1..Len(lens[s])
      BY <2>1, <3>1 DEF NodeIsFrame
    <3>3. lens'[s][k] = lens[s][k] /\ k <= Len(lens'[s])
      BY <1>2, <2>1, <3>2
    <3> QED
      BY <1>2, <3>1, <3>3 DEF NodeIsFrame
  <2> QED
    BY <1>2, <1>3, <2>4, <2>5, <2>6 DEF Exact
<1> QED
  BY <1>2, <1>3 DEF EInv

\* The chunk is cut off the front of what is on its way.
LEMMA ReceiveExact ==
  ASSUME IInv, NEW s \in Session, Receive(s), EInv(s)
  PROVE  EInv(s)'
<1>1. FInv(s) /\ TypeOK
  BY OfSession
<1>2. PICK n \in 1..MAX_LENGTH : n <= Len(net[s]) /\ ReadCompletes(s, n)
  BY DEF Receive
<1>3. n \in Nat
  BY LengthAssumption
<1>4. /\ data'[s] = SubSeq(net[s], 1, n) /\ net'[s] = SubSeq(net[s], n + 1, Len(net[s]))
      /\ handler[s] = "reading" /\ handler'[s] = "parsing"
      /\ UNCHANGED <<lens, recv_head, recv_msg, b_head_parse, b_close, posted, split>>
  BY <1>1, <1>2 DEF ReadCompletes, TypeOK, peer
<1>5. data[s] = << >>
  BY <1>4 DEF EInv
<1>6. net[s] \in Seq(Byte) /\ << >> \o net[s] = net[s]
  BY <1>1, ConcatEmptySeq DEF FInv
<1>7. SubSeq(net[s], 1, n) \o SubSeq(net[s], n + 1, Len(net[s])) = net[s]
  BY <1>2, <1>3, <1>6, CutConcat
<1>8. Rest(s)' = Rest(s)
  BY <1>4, <1>5, <1>6, <1>7, Zenon DEF Rest
<1> QED
  BY <1>4, <1>8, ExactKept

\* The chunk joins the bytes of the head.
LEMMA HeadPartialExact ==
  ASSUME IInv, NEW s \in Session, HeadPartial(s), EInv(s)
  PROVE  EInv(s)'
<1>1. FInv(s) /\ TypeOK
  BY OfSession
<1>2. /\ recv_head'[s] = recv_head[s] \o data[s] /\ data'[s] = << >>
      /\ handler'[s] = "reading"
      /\ UNCHANGED <<lens, net, recv_msg, b_head_parse, b_close, posted, split>>
  BY <1>1 DEF HeadPartial, ReadAgain, TypeOK, peer
<1>3. recv_head[s] \in Seq(Byte) /\ data[s] \in Seq(Byte) /\ net[s] \in Seq(Byte)
  BY <1>1 DEF FInv
<1>4. << >> \o net[s] = net[s]
  BY <1>3, ConcatEmptySeq
<1>5. Associates(recv_head[s], data[s], net[s])
  BY <1>3, Associate
<1>6. Rest(s)' = Rest(s)
  BY <1>2, <1>4, <1>5, Zenon DEF Rest, Associates
<1> QED
  BY <1>2, <1>6, ExactKept

\* As long as no body was split, what is decoded is a length the peer wrote.
LEMMA DecodedExact ==
  ASSUME IInv, NEW s \in Session, HeadComplete(s), EInv(s), ~split[s],
         NEW len \in Decode(s, Head4(s))
  PROVE  len \in Nat /\ len <= MAX_LENGTH
<1>1. FInv(s)
  BY OfSession
<1>2. Len(posted[s]) \in Nat /\ Framed(Rest(s), lens[s], Len(posted[s]))
  BY <1>1 DEF EInv, Exact, FInv
<1>3. len \in BodyLen
  BY <1>1, <1>2, HeadDecoded
<1> QED
  BY <1>3, LengthAssumption

\* So no head is refused, and none throws.
LEMMA StopsExact ==
  ASSUME IInv, NEW s \in Session, NEW len \in Short,
         InvalidHead(s, len) \/ NodeThrows(s, len), EInv(s)
  PROVE  EInv(s)'
<1>1. TypeOK
  BY DEF IInv
<1>2. HeadComplete(s) /\ len \in Decode(s, Head4(s)) /\ len \in Int
  BY ShortAssumption DEF InvalidHead, NodeThrows, Stops
<1>3. split[s]
  <2> SUFFICES ASSUME ~split[s] PROVE FALSE
    BY <1>1 DEF TypeOK
  <2>1. len \in Nat /\ len <= MAX_LENGTH
    BY <1>2, DecodedExact
  <2> QED
    BY <2>1, HeadAssumption, LengthAssumption DEF InvalidHead, NodeThrows, NodeSize
<1>4. handler'[s] = "stopped" /\ split' = split
  BY <1>1 DEF InvalidHead, NodeThrows, Stops, TypeOK
<1> QED
  BY <1>3, <1>4 DEF EInv

\* A split body ends what the invariant promises, and a negative length, which
\* does not count as one, is not decoded before.
LEMMA BodyPartialExact ==
  ASSUME IInv, NEW s \in Session, NEW len \in Short, BodyPartial(s, len), EInv(s)
  PROVE  EInv(s)'
<1>1. TypeOK
  BY DEF IInv
<1>2. split'[s] /\ data'[s] = << >>
  <2>1. (split[s] \/ len >= 0 => split'[s]) /\ data'[s] = << >>
    BY <1>1 DEF BodyPartial, TypeOK
  <2>2. HeadComplete(s) /\ len \in Decode(s, Head4(s)) /\ split[s] \in BOOLEAN
    BY <1>1 DEF BodyPartial, TypeOK
  <2>3. CASE ~split[s]
    <3>1. len \in Nat
      BY <2>2, <2>3, DecodedExact
    <3> QED
      BY <2>1, <3>1
  <2> QED
    BY <2>1, <2>2, <2>3
<1> QED
  BY <1>2 DEF EInv

\* Only a split body is ever continued.
LEMMA RestExact ==
  ASSUME IInv, NEW s \in Session, MoreBody(s) \/ RestOfBody(s), EInv(s)
  PROVE  EInv(s)'
<1>1. FInv(s) /\ TypeOK
  BY OfSession
<1>2. split[s] /\ split' = split
  BY <1>1 DEF MoreBody, RestOfBody, EInv, Exact, TypeOK
<1>3. CASE MoreBody(s)
  BY <1>1, <1>2, <1>3 DEF MoreBody, EInv, TypeOK
<1>4. CASE RestOfBody(s)
  <2>1. handler'[s] = "reading" => data'[s] = << >>
    BY <1>1, <1>4 DEF RestOfBody, Post, ReadAgain, Parsing, TypeOK
  <2> QED
    BY <1>2, <2>1 DEF EInv
<1> QED
  BY <1>3, <1>4

\* x is what follows the first h elements of r.
Follows(x, h, r) == /\ h \in Nat /\ Len(x) = Len(r) - h
                    /\ \A i \in 1..Len(x) : x[i] = r[h + i]

LEMMA Behind ==
  ASSUME NEW S, NEW f \in Seq(S), NEW x \in Seq(S)
  PROVE  Follows(x, Len(f), f \o x)
<1>1. /\ Len(f) \in Nat /\ Len(x) \in Nat /\ Len(f \o x) = Len(f) + Len(x)
      /\ \A i \in 1..Len(x) : (f \o x)[Len(f) + i] = x[i]
  BY ConcatAt
<1> DEFINE m == Len(f)
           n == Len(x)
           c == f \o x
           d == Len(c)
<1>2. m \in Nat /\ n \in Nat /\ d = m + n /\ \A i \in 1..n : c[m + i] = x[i]
  BY <1>1
<1> HIDE DEF m, n, c, d
<1>3. n = d - m
  BY <1>2
<1> QED
  BY <1>2, <1>3 DEF Follows, m, n, c, d

\* The bytes behind the head of a frame are its body.
LEMMA BodyBehindHead ==
  ASSUME NEW h \in Seq(Byte), NEW b \in Seq(Byte), NEW f, NEW k, NEW len \in BodyLen,
         f = h \o b, Len(h) = HEAD_TOTAL_LEN, Len(b) = len, IsFrame(f, k, len)
  PROVE  b = FrameBody(k, len)
<1>a. \A p \in 1..(HEAD_TOTAL_LEN + len) : f[p] = [frame |-> k, pos |-> p]
  BY DEF IsFrame
<1>1. Follows(b, HEAD_TOTAL_LEN, f)
  BY Behind
<1>2. \A i \in 1..len : b[i] = f[HEAD_TOTAL_LEN + i]
  BY <1>1 DEF Follows
<1>3. \A i \in 1..len : HEAD_TOTAL_LEN + i \in 1..(HEAD_TOTAL_LEN + len)
  BY FrameLength
<1>4. \A i \in 1..len : b[i] = [frame |-> k, pos |-> HEAD_TOTAL_LEN + i]
  BY <1>a, <1>2, <1>3, Zenon
<1>5. b = [i \in 1..len |-> b[i]]
  <2>1. DOMAIN b = 1..Len(b)
    OBVIOUS
  <2>2. b = [i \in DOMAIN b |-> b[i]]
    OBVIOUS
  <2> QED
    BY <2>1, <2>2, Zenon
<1>6. [i \in 1..len |-> b[i]] = [p \in 1..len |-> [frame |-> k, pos |-> HEAD_TOTAL_LEN + p]]
  BY <1>4, Zenon
<1> QED
  BY <1>5, <1>6, Zenon DEF FrameBody

\* A body that arrived with its head is that of the next frame.
LEMMA BodyCompleteExact ==
  ASSUME IInv, NEW s \in Session, NEW len \in Short, BodyComplete(s, len), EInv(s)
  PROVE  EInv(s)'
<1> DEFINE h == Head4(s)
           rest == AfterHead(s)
           b == SubSeq(rest, 1, len)
           q == SubSeq(rest, len + 1, Len(rest))
           w == net[s]
           m == Len(posted[s])
           f == h \o b
           x == q \o w
<1>1. FInv(s) /\ TypeOK /\ HeadComplete(s)
  BY OfSession DEF BodyComplete
<1>2. /\ recv_head'[s] = << >> /\ data'[s] = q
      /\ posted'[s] = Append(posted[s], [head |-> h, data |-> b])
      /\ b_head_parse'[s] = FALSE
      /\ handler'[s] = IF q = << >> THEN "reading" ELSE handler[s]
      /\ handler[s] = "parsing"
      /\ UNCHANGED <<lens, net, b_close, split>>
  BY <1>1 DEF BodyComplete, Post, ReadAgain, HeadComplete, Parsing, TypeOK, peer
<1>3. /\ h \in Seq(Byte) /\ Len(h) = HEAD_TOTAL_LEN /\ rest \in Seq(Byte)
      /\ len \in Nat /\ len <= Len(rest) /\ w \in Seq(Byte)
  BY <1>1, HeadCut, NotLess, ShortAssumption DEF BodyComplete, FInv
<1>4. /\ b \in Seq(Byte) /\ Len(b) = len /\ q \in Seq(Byte) /\ rest = b \o q
  BY <1>3, Cut, CutConcat
<1>5. Rest(s) = h \o (rest \o w) /\ Rest(s) \in Seq(Byte) /\ Rest(s) # << >>
  BY <1>1, RestCut
<1>6. m \in Nat /\ posted[s] \in Seq(Posting) /\ lens[s] \in Seq(BodyLen)
  BY <1>1 DEF FInv
<1>7. len \in Decode(s, h)
  BY DEF BodyComplete
<1> HIDE DEF h, rest, b, q, w, m
<1>8. Rest(s) = f \o x /\ f \in Seq(Byte) /\ x \in Seq(Byte) /\ Len(f) = HEAD_TOTAL_LEN + len
  <2>1. Regrouped(h, b, q, w)
    BY <1>3, <1>4, Regroup
  <2>2. f \in Seq(Byte) /\ Len(f) = HEAD_TOTAL_LEN + len
    BY <1>3, <1>4, ConcatProperties
  <2>3. x \in Seq(Byte)
    BY <1>3, <1>4, ConcatProperties
  <2>4. Rest(s) = f \o x
    BY <1>4, <1>5, <2>1, Zenon DEF Regrouped
  <2> QED
    BY <2>2, <2>3, <2>4
<1> HIDE DEF f, x
<1>9. Rest(s)' = x
  <2>1. x \in Seq(Byte) /\ << >> \o x = x
    BY <1>8, ConcatEmptySeq
  <2> QED
    BY <1>2, <2>1, Zenon DEF Rest, x, w
<1>10. ASSUME Exact(s) PROVE Exact(s)'
  <2>1. Framed(Rest(s), lens[s], m)
    BY <1>10 DEF Exact, m
  <2>2. /\ m + 1 \in 1..Len(lens[s]) /\ len = lens[s][m + 1] /\ len \in BodyLen
    BY <1>1, <1>6, <1>7, <2>1, HeadDecoded DEF h
  <2>3. \A p \in 1..(HEAD_TOTAL_LEN + len) : Rest(s)[p] = [frame |-> m + 1, pos |-> p]
    BY <1>5, <1>6, <2>1, <2>2, FramedHead
  <2>4. \A p \in 1..(HEAD_TOTAL_LEN + len) : Rest(s)[p] = f[p]
    BY <1>8, HeadOfConcat
  <2>5. b = FrameBody(m + 1, len)
    <3>1. IsFrame(f, m + 1, len)
      BY <1>8, <2>3, <2>4, Zenon DEF IsFrame
    <3>2. f = h \o b
      BY DEF f
    <3>3. /\ h \in Seq(Byte) /\ b \in Seq(Byte) /\ len \in BodyLen
          /\ Len(h) = HEAD_TOTAL_LEN /\ Len(b) = len
      BY <1>3, <1>4, <2>2
    <3> QED
      BY <3>1, <3>2, <3>3, BodyBehindHead
  <2>6. Framed(x, lens[s], m + 1)
    <3>1. Follows(x, Len(f), Rest(s))
      BY <1>8, Behind
    <3> QED
      BY <1>5, <1>6, <1>8, <2>1, <2>2, <3>1, FramedPop DEF Follows
  <2>7. /\ Len(posted'[s]) = m + 1 /\ DOMAIN posted'[s] = 1..(m + 1)
        /\ \A k \in 1..m : posted'[s][k] = posted[s][k]
        /\ posted'[s][m + 1].data = b
    <3>1. [head |-> h, data |-> b] \in Posting
      BY <1>3, <1>4 DEF Posting
    <3> QED
      BY <1>2, <1>6, <3>1 DEF m
  <2>8. \A k \in 1..(m + 1) : NodeIsFrame(s, k)'
    <3> SUFFICES ASSUME NEW k \in 1..(m + 1) PROVE NodeIsFrame(s, k)'
      OBVIOUS
    <3>1. CASE k = m + 1
      <4>1. m + 1 <= Len(lens[s]) /\ posted'[s][m + 1].data = FrameBody(m + 1, lens[s][m + 1])
        BY <2>2, <2>5, <2>7
      <4> QED
        BY <1>2, <3>1, <4>1 DEF NodeIsFrame
    <3>2. CASE k # m + 1
      <4>1. k \in 1..m
        BY <1>6, <3>2
      <4>2. k \in DOMAIN posted[s]
        BY <1>6, <4>1 DEF m
      <4>3. NodeIsFrame(s, k)
        BY <1>10, <4>2 DEF Exact
      <4> QED
        BY <1>2, <2>7, <4>1, <4>3 DEF NodeIsFrame
    <3> QED
      BY <3>1, <3>2
  <2>9. handler'[s] # "stopped" /\ recv_msg'[s].total >= HEAD_TOTAL_LEN
    <3>1. recv_msg'[s].total = len + HEAD_TOTAL_LEN
      BY <1>1 DEF BodyComplete, TypeOK
    <3> QED
      BY <1>2, <1>3, <3>1, HeadAssumption
  <2>10. Framed(Rest(s), lens[s], Len(posted[s]))'
    BY <1>2, <1>9, <2>6, <2>7
  <2> QED
    BY <1>2, <2>7, <2>8, <2>9, <2>10 DEF Exact
<1>11. handler'[s] = "reading" => data'[s] = << >>
  BY <1>2
<1> QED
  BY <1>2, <1>10, <1>11 DEF EInv

\* What an action of session s leaves alone in another one.
SameE(r) == /\ Same(r) /\ b_close'[r] = b_close[r] /\ split'[r] = split[r]

LEMMA OtherExact ==
  ASSUME NEW r \in Session, SameE(r), EInv(r)
  PROVE  EInv(r)'
BY ExactKept DEF SameE, Same, EInv, Rest

LEMMA StepExact ==
  ASSUME IInv, NEW s \in Session, StepOf(s), EInv(s)
  PROVE  EInv(s)'
<1>1. TypeOK
  BY DEF IInv
<1>2. CASE PeerLeaves(s)
  BY <1>2, ExactKept DEF PeerLeaves, EInv, Rest
<1>3. CASE ReadFails(s)
  <2>1. /\ b_close'[s] /\ handler'[s] = "stopped"
        /\ UNCHANGED <<lens, net, data, recv_head, recv_msg, b_head_parse, posted, split>>
    BY <1>1, <1>3 DEF ReadFails, TypeOK, peer
  <2> QED
    BY <2>1, ExactKept DEF Rest
<1> QED
  BY <1>2, <1>3, PeerWritesExact, ReceiveExact, HeadPartialExact, StopsExact,
     BodyPartialExact, BodyCompleteExact, RestExact DEF StepOf, Turn

LEMMA StepOther ==
  ASSUME IInv, NEW s \in Session, StepOf(s), NEW r \in Session \ {s}
  PROVE  SameE(r)
<1>1. TypeOK
  BY DEF IInv
<1>2. ASSUME NEW len \in BodyLen, PeerWrites(s, len) PROVE SameE(r)
  BY <1>1, <1>2 DEF PeerWrites, SameE, Same, TypeOK
<1>3. CASE PeerLeaves(s) \/ ReadFails(s)
  BY <1>1, <1>3 DEF PeerLeaves, ReadFails, SameE, Same, TypeOK, peer
<1>4. CASE Receive(s)
  BY <1>1, <1>4 DEF Receive, ReadCompletes, SameE, Same, TypeOK, peer
<1>5. CASE HeadPartial(s)
  BY <1>1, <1>5 DEF HeadPartial, ReadAgain, SameE, Same, TypeOK, peer
<1>10. ASSUME NEW len \in Short, InvalidHead(s, len) \/ NodeThrows(s, len) PROVE SameE(r)
  BY <1>1, <1>10 DEF InvalidHead, NodeThrows, Stops, SameE, Same, TypeOK, peer
<1>6. ASSUME NEW len \in Short, BodyPartial(s, len) PROVE SameE(r)
  BY <1>1, <1>6 DEF BodyPartial, ReadAgain, SameE, Same, TypeOK, peer
<1>7. ASSUME NEW len \in Short, BodyComplete(s, len) PROVE SameE(r)
  BY <1>1, <1>7 DEF BodyComplete, Post, ReadAgain, SameE, Same, TypeOK, peer
<1>8. CASE MoreBody(s)
  BY <1>1, <1>8 DEF MoreBody, ReadAgain, SameE, Same, TypeOK, peer
<1>9. CASE RestOfBody(s)
  BY <1>1, <1>9 DEF RestOfBody, Post, ReadAgain, SameE, Same, TypeOK, peer
<1> QED
  BY <1>2, <1>3, <1>4, <1>5, <1>6, <1>7, <1>8, <1>9, <1>10 DEF StepOf, Turn

AllExact == \A s \in Session : EInv(s)

LEMMA InitExact == Init => AllExact
<1> SUFFICES ASSUME Init, NEW s \in Session PROVE EInv(s)
  BY DEF AllExact
<1>1. /\ lens[s] = << >> /\ net[s] = << >> /\ data[s] = << >> /\ recv_head[s] = << >>
      /\ posted[s] = << >> /\ handler[s] = "reading" /\ ~b_head_parse[s]
      /\ recv_msg[s].total >= HEAD_TOTAL_LEN
  BY HeadAssumption DEF Init
<1>2. Rest(s) = << >>
  BY <1>1 DEF Rest
<1>3. Len(posted[s]) = 0 /\ DOMAIN posted[s] = {}
  BY <1>1
<1>4. Framed(Rest(s), lens[s], 0)
  BY <1>1, <1>2, FramedEmpty
<1> QED
  BY <1>1, <1>3, <1>4 DEF EInv, Exact

LEMMA StepsExact == IInv /\ AllExact /\ [Steps]_vars => AllExact'
<1> SUFFICES ASSUME IInv, AllExact, [Steps]_vars, NEW r \in Session PROVE EInv(r)'
  BY DEF AllExact
<1>1. EInv(r)
  BY DEF AllExact
<1>2. CASE UNCHANGED vars
  BY <1>1, <1>2, ExactKept DEF vars, EInv, Rest
<1>3. ASSUME NEW s \in Session, StepOf(s) PROVE EInv(r)'
  <2>1. CASE r = s
    BY <1>1, <1>3, <2>1, StepExact
  <2>2. CASE r # s
    <3>1. SameE(r)
      BY <1>3, <2>2, StepOther
    <3> QED
      BY <1>1, <3>1, OtherExact
  <2> QED
    BY <2>1, <2>2
<1> QED
  BY <1>2, <1>3 DEF Steps

LEMMA NextExact == IInv /\ AllExact /\ [Next]_vars => AllExact'
BY StepsExact, NextSteps

\* As long as every body arrived with the end of its head, the nodes posted are
\* the frames the peer wrote, one by one and in their order, whatever the
\* chunks that cut or joined the heads and frames; and only the peer's leaving
\* ends a session (CSession.cpp:92, the first half of the loop).
THEOREM ExactAlways == Spec => []ExactUnlessSplit
<1>1. AllExact => ExactUnlessSplit
  BY DEF AllExact, EInv, Exact, ExactUnlessSplit
<1> QED
  BY <1>1, InitInv, NextInv, InitExact, NextExact, PTL DEF Spec

\* No copy of a turn puts more into a node than it has bytes, whatever the lengths
\* of head, body and chunks and however the stream is cut, also after the framing
\* was lost, but for the nodes of negative lengths; and as long as no body was
\* split there is no such node (CSession.cpp:152, 164, 196).
THEOREM CopiesStayInside == Spec => []CopiesFit
<1>1. IInv /\ AllExact => CopiesFit
  BY DEF IInv, AllExact, EInv, Exact, Fits, CopiesFit
<1> QED
  BY <1>1, InitInv, NextInv, InitExact, NextExact, PTL DEF Spec

\* The types and the copies, which is all that the run checks of the memory.
THEOREM SafeAlways == Spec => []Safe
<1> QED
  BY TypeCorrect, CopiesStayInside, PTL DEF Safe

-----------------------------------------------------------------------------
(* FlattenSeq of a sequence to which something is appended.                 *)

\* Induction over a set of numbers, from the well-foundedness of <.
LEMMA SetInduction ==
  ASSUME NEW S, 0 \in S, \A n \in Nat : n \in S => n + 1 \in S
  PROVE  Nat \subseteq S
<1> SUFFICES ASSUME Nat \ S # {} PROVE FALSE
  OBVIOUS
<1> DEFINE R == OpToRel(<, Nat)
           T == Nat \ S
<1>1. IsWellFoundedOn(R, Nat)
  BY NatLessThanWellFounded
<1>2. T \subseteq Nat /\ T # {}
  OBVIOUS
<1>3. \A y \in Nat, x \in Nat : y < x => <<y, x>> \in R
  BY DEF OpToRel
<1> HIDE DEF R, T
<1>4. PICK x \in T : \A y \in T : ~(<<y, x>> \in R)
  BY <1>1, <1>2, WFMin
<1>5. x \in Nat /\ x # 0
  BY <1>2 DEF T
<1>6. x - 1 \in Nat /\ x - 1 < x
  BY <1>5
<1>7. x - 1 \notin T
  BY <1>3, <1>4, <1>5, <1>6
<1>8. (x - 1) + 1 \in S
  BY <1>6, <1>7 DEF T
<1> QED
  BY <1>5, <1>8 DEF T

\* f[i] is the concatenation of the first i elements of q, for i up to n.
IsFlatten(f, q, n) ==
  f = [i \in 1..n |-> IF i = 1 THEN q[i] ELSE f[i - 1] \o q[i]]

\* The function FlattenSeq chooses exists,
LEMMA FlattenExists ==
  ASSUME NEW q
  PROVE  \A n \in Nat : \E f : IsFlatten(f, q, n)
<1> DEFINE S == {n \in Nat : \E f : IsFlatten(f, q, n)}
<1>1. 0 \in S
  <2>1. IsFlatten([i \in 1..0 |-> 0], q, 0)
    BY DEF IsFlatten
  <2> QED
    BY <2>1
<1>2. ASSUME NEW n \in Nat, n \in S PROVE n + 1 \in S
  <2>1. PICK f : IsFlatten(f, q, n)
    BY <1>2
  <2> DEFINE g == [i \in 1..(n + 1) |->
                     IF i <= n THEN f[i] ELSE IF i = 1 THEN q[i] ELSE f[i - 1] \o q[i]]
  <2>2. \A i \in 1..n : f[i] = IF i = 1 THEN q[i] ELSE f[i - 1] \o q[i]
    BY <2>1, Zenon DEF IsFlatten
  <2>3. \A i \in 1..(n + 1) : g[i] = IF i = 1 THEN q[i] ELSE g[i - 1] \o q[i]
    <3>1. \A i \in 1..n : g[i] = f[i]
      OBVIOUS
    <3>2. g[n + 1] = IF n + 1 = 1 THEN q[n + 1] ELSE f[(n + 1) - 1] \o q[n + 1]
      OBVIOUS
    <3> HIDE DEF g
    <3> SUFFICES ASSUME NEW i \in 1..(n + 1)
                 PROVE  g[i] = IF i = 1 THEN q[i] ELSE g[i - 1] \o q[i]
      OBVIOUS
    <3>3. i = 1 \/ i - 1 \in 1..n
      OBVIOUS
    <3>4. CASE i \in 1..n
      <4>1. g[i] = IF i = 1 THEN q[i] ELSE f[i - 1] \o q[i]
        BY <2>2, <3>1, <3>4
      <4> QED
        BY <3>1, <3>3, <4>1
    <3>5. CASE i = n + 1
      BY <3>1, <3>2, <3>3, <3>5
    <3> QED
      BY <3>4, <3>5
  <2>4. IsFlatten(g, q, n + 1)
    BY <2>3, Zenon DEF IsFlatten
  <2> QED
    BY <2>4
<1> HIDE DEF S
<1>3. Nat \subseteq S
  BY <1>1, <1>2, SetInduction
<1> QED
  BY <1>3 DEF S

\* and depends on no more of q than it concatenates.
LEMMA FlattenUnique ==
  ASSUME NEW q, NEW r, NEW f, NEW g, NEW n \in Nat, NEW m \in Nat, n <= m,
         IsFlatten(f, q, n), IsFlatten(g, r, m), \A i \in 1..n : q[i] = r[i]
  PROVE  \A i \in 1..n : f[i] = g[i]
<1> DEFINE S == {i \in Nat : i \in 1..n => f[i] = g[i]}
<1>1. 0 \in S
  OBVIOUS
<1>2. ASSUME NEW i \in Nat, i \in S PROVE i + 1 \in S
  <2> SUFFICES ASSUME i + 1 \in 1..n PROVE f[i + 1] = g[i + 1]
    OBVIOUS
  <2>1. i + 1 \in 1..m
    OBVIOUS
  <2>2. /\ f[i + 1] = IF i + 1 = 1 THEN q[i + 1] ELSE f[(i + 1) - 1] \o q[i + 1]
        /\ g[i + 1] = IF i + 1 = 1 THEN r[i + 1] ELSE g[(i + 1) - 1] \o r[i + 1]
    BY <2>1, Zenon DEF IsFlatten
  <2>3. (i + 1) - 1 = i /\ (i + 1 # 1 => i \in 1..n)
    OBVIOUS
  <2> QED
    BY <1>2, <2>2, <2>3
<1> HIDE DEF S
<1>3. Nat \subseteq S
  BY <1>1, <1>2, SetInduction
<1> QED
  BY <1>3 DEF S

\* So FlattenSeq is its last value,
LEMMA FlattenValue ==
  ASSUME NEW q, Len(q) \in Nat \ {0}
  PROVE  \E f : IsFlatten(f, q, Len(q)) /\ FlattenSeq(q) = f[Len(q)]
<1> DEFINE flatten == CHOOSE f : IsFlatten(f, q, Len(q))
<1>1. IsFlatten(flatten, q, Len(q))
  <2>1. Len(q) \in Nat
    OBVIOUS
  <2>2. \E f : IsFlatten(f, q, Len(q))
    BY <2>1, FlattenExists
  <2> QED
    BY <2>2, Zenon
<1>2. FlattenSeq(q) = flatten[Len(q)]
  BY Zenon DEF FlattenSeq, IsFlatten
<1> QED
  BY <1>1, <1>2

\* and one more element comes behind what was there.
LEMMA FlattenGrows ==
  ASSUME NEW q, NEW r, NEW n \in Nat \ {0}, NEW m \in Nat, m = n + 1,
         Len(q) = n, Len(r) = m, \A i \in 1..n : q[i] = r[i]
  PROVE  FlattenSeq(r) = FlattenSeq(q) \o r[m]
<1>1. n <= m /\ n \in 1..n /\ m \in 1..m /\ m # 1 /\ m - 1 = n /\ m \in Nat \ {0}
  OBVIOUS
<1>2. PICK f : IsFlatten(f, q, n) /\ FlattenSeq(q) = f[n]
  BY FlattenValue
<1>3. PICK g : IsFlatten(g, r, m) /\ FlattenSeq(r) = g[m]
  BY <1>1, FlattenValue
<1>4. \A i \in 1..n : f[i] = g[i]
  BY <1>1, <1>2, <1>3, FlattenUnique
<1>5. g[m] = IF m = 1 THEN r[m] ELSE g[m - 1] \o r[m]
  BY <1>1, <1>3, Zenon DEF IsFlatten
<1> QED
  BY <1>1, <1>2, <1>3, <1>4, <1>5

\* Append commutes with flattening.
LEMMA FlattenAppend ==
  ASSUME NEW S, NEW q \in Seq(Seq(S)), NEW x \in Seq(S)
  PROVE  FlattenSeq(Append(q, x)) = FlattenSeq(q) \o x
<1> DEFINE n == Len(q)
           r == Append(q, x)
<1>1. /\ r \in Seq(Seq(S)) /\ Len(r) = n + 1 /\ n \in Nat /\ r[n + 1] = x
      /\ \A i \in 1..n : q[i] = r[i]
  OBVIOUS
<1>2. CASE n = 0
  <2>1. FlattenSeq(q) = << >>
    BY <1>2 DEF FlattenSeq
  <2>2. Len(r) \in Nat \ {0} /\ Len(r) = 1
    BY <1>1, <1>2
  <2>3. PICK g : IsFlatten(g, r, 1) /\ FlattenSeq(r) = g[1]
    BY <2>2, FlattenValue
  <2>4. g[1] = r[1]
    BY <2>3 DEF IsFlatten
  <2> QED
    BY <1>1, <1>2, <2>1, <2>3, <2>4
<1>3. CASE n # 0
  <2>1. n \in Nat \ {0}
    BY <1>1, <1>3
  <2> HIDE DEF n, r
  <2>2. Len(q) = n
    BY DEF n
  <2>3. FlattenSeq(r) = FlattenSeq(q) \o r[n + 1]
    <3>1. Len(r) = n + 1 /\ n + 1 \in Nat /\ \A i \in 1..n : q[i] = r[i]
      BY <1>1
    <3> QED
      BY <2>1, <2>2, <3>1, FlattenGrows, Zenon
  <2> QED
    BY <1>1, <2>3 DEF r
<1> QED
  BY <1>2, <1>3
\* Flattening sequences over S makes a sequence over S.
LEMMA FlattenType ==
  ASSUME NEW S, NEW q \in Seq(Seq(S))
  PROVE  FlattenSeq(q) \in Seq(S)
<1> DEFINE n == Len(q)
<1>1. n \in Nat /\ \A i \in 1..n : q[i] \in Seq(S)
  OBVIOUS
<1>2. CASE n = 0
  <2>1. FlattenSeq(q) = << >>
    BY <1>2 DEF FlattenSeq
  <2> QED
    BY <2>1
<1>3. CASE n # 0
  <2>1. Len(q) \in Nat \ {0}
    BY <1>1, <1>3
  <2>2. PICK f : IsFlatten(f, q, n) /\ FlattenSeq(q) = f[n]
    BY <2>1, FlattenValue
  <2> HIDE DEF n
  <2>3. \A i \in 1..n : f[i] = IF i = 1 THEN q[i] ELSE f[i - 1] \o q[i]
    BY <2>2, Zenon DEF IsFlatten
  <2> DEFINE T == {i \in Nat : i \in 1..n => f[i] \in Seq(S)}
  <2>4. 0 \in T
    OBVIOUS
  <2>5. ASSUME NEW i \in Nat, i \in T PROVE i + 1 \in T
    <3> SUFFICES ASSUME i + 1 \in 1..n PROVE f[i + 1] \in Seq(S)
      OBVIOUS
    <3>1. /\ f[i + 1] = IF i + 1 = 1 THEN q[i + 1] ELSE f[(i + 1) - 1] \o q[i + 1]
          /\ q[i + 1] \in Seq(S)
      BY <1>1, <2>3
    <3>2. (i + 1) - 1 = i /\ (i + 1 # 1 => i \in 1..n)
      BY <1>1
    <3>3. CASE i + 1 = 1
      BY <3>1, <3>3
    <3>4. CASE i + 1 # 1
      <4>1. f[i + 1] = f[i] \o q[i + 1] /\ f[i] \in Seq(S)
        BY <2>5, <3>1, <3>2, <3>4
      <4>2. f[i] \o q[i + 1] \in Seq(S)
        BY <3>1, <4>1, ConcatProperties
      <4> QED
        BY <4>1, <4>2
    <3> QED
      BY <3>3, <3>4
  <2> HIDE DEF T
  <2>6. Nat \subseteq T
    BY <2>4, <2>5, SetInduction
  <2>7. n \in T /\ n \in 1..n
    BY <1>1, <1>3, <2>6
  <2> QED
    BY <2>2, <2>7 DEF T
<1> QED
  BY <1>2, <1>3

-----------------------------------------------------------------------------
(* No byte is lost, copied twice or moved past another, also by a session   *)
(* that has lost its framing: what changes at one end of the line a byte    *)
(* travels changes at the other.                                            *)

Frames(l) == [k \in DOMAIN l |-> FrameBytes(k, l[k])]
Nodes(p) == [k \in DOMAIN p |-> p[k].head \o p[k].data]

\* The half-filled head and node, the chunk, and what is on its way.
Partial(s) == recv_head[s] \o (IF b_head_parse[s] THEN recv_msg[s].data ELSE << >>)
Stream(s) == Partial(s) \o (data[s] \o net[s])

Conserved(s) == FlattenSeq(Frames(lens[s])) = FlattenSeq(Nodes(posted[s])) \o Stream(s)

CInv(s) == Len(lens[s]) <= MaxFrames /\ Conserved(s)

LEMMA FramesType ==
  ASSUME NEW l \in Seq(BodyLen), Len(l) <= MaxFrames
  PROVE  Frames(l) \in Seq(Seq(Byte)) /\ Len(Frames(l)) = Len(l)
<1>1. DOMAIN l = 1..Len(l) /\ Len(l) \in Nat
  OBVIOUS
<1>2. ASSUME NEW k \in 1..Len(l) PROVE FrameBytes(k, l[k]) \in Seq(Byte)
  <2>1. k \in 1..MaxFrames /\ l[k] \in BodyLen
    BY <1>1, FramesAssumption
  <2> QED
    BY <2>1, FrameBytesType
<1> QED
  BY <1>1, <1>2 DEF Frames

LEMMA FramesGrow ==
  ASSUME NEW l \in Seq(BodyLen), Len(l) < MaxFrames, NEW len \in BodyLen
  PROVE  Frames(Append(l, len)) = Append(Frames(l), FrameBytes(Len(l) + 1, len))
<1> DEFINE m == Append(l, len)
           n == Len(l)
           f == FrameBytes(n + 1, len)
           u == Frames(m)
           v == Append(Frames(l), f)
<1>1. /\ m \in Seq(BodyLen) /\ Len(m) = n + 1 /\ n \in Nat /\ m[n + 1] = len
      /\ \A k \in 1..n : m[k] = l[k]
  OBVIOUS
<1>2. n + 1 \in 1..MaxFrames /\ n + 1 <= MaxFrames /\ n <= MaxFrames
  BY <1>1, FramesAssumption
<1>3. f \in Seq(Byte)
  BY <1>2, FrameBytesType
<1>4. u \in Seq(Seq(Byte)) /\ Len(u) = n + 1
  BY <1>1, <1>2, FramesType
<1>5. Frames(l) \in Seq(Seq(Byte)) /\ Len(Frames(l)) = n
  BY <1>2, FramesType
<1>6. DOMAIN m = 1..(n + 1) /\ DOMAIN l = 1..n
  BY <1>1
<1>7. \A k \in 1..(n + 1) : u[k] = FrameBytes(k, m[k])
  BY <1>6, Zenon DEF Frames
<1>8. \A k \in 1..n : Frames(l)[k] = FrameBytes(k, l[k])
  BY <1>6, Zenon DEF Frames
<1> HIDE DEF f, m, u
<1>9. /\ v \in Seq(Seq(Byte)) /\ Len(v) = n + 1 /\ v[n + 1] = f
      /\ \A k \in 1..n : v[k] = Frames(l)[k]
  BY <1>3, <1>5
<1> HIDE DEF v, n
<1>10. ASSUME NEW k \in 1..(n + 1) PROVE u[k] = v[k]
  <2>1. CASE k = n + 1
    BY <1>1, <1>7, <1>9, <2>1 DEF f
  <2>2. CASE k # n + 1
    <3>1. k \in 1..n
      BY <1>1, <2>2
    <3> QED
      BY <1>1, <1>7, <1>8, <1>9, <3>1, Zenon
  <2> QED
    BY <2>1, <2>2
<1>11. u = v
  BY <1>4, <1>9, <1>10
<1> QED
  BY <1>11 DEF u, v, m, f, n

LEMMA NodesType ==
  ASSUME NEW p \in Seq(Posting)
  PROVE  Nodes(p) \in Seq(Seq(Byte)) /\ Len(Nodes(p)) = Len(p)
<1>1. DOMAIN p = 1..Len(p) /\ Len(p) \in Nat
  OBVIOUS
<1>2. ASSUME NEW k \in 1..Len(p) PROVE p[k].head \o p[k].data \in Seq(Byte)
  <2>1. p[k] \in Posting
    OBVIOUS
  <2>2. p[k].head \in Seq(Byte) /\ p[k].data \in Seq(Byte)
    BY <2>1 DEF Posting
  <2> QED
    BY <2>2, ConcatProperties
<1> QED
  BY <1>1, <1>2 DEF Nodes

LEMMA NodesGrow ==
  ASSUME NEW p \in Seq(Posting), NEW h \in Seq(Byte), NEW b \in Seq(Byte)
  PROVE  Nodes(Append(p, [head |-> h, data |-> b])) = Append(Nodes(p), h \o b)
<1> DEFINE e == [head |-> h, data |-> b]
           m == Append(p, e)
           n == Len(p)
           u == Nodes(m)
           f == h \o b
           v == Append(Nodes(p), f)
<1>1. e \in Posting /\ e.head = h /\ e.data = b
  BY DEF Posting
<1> HIDE DEF e
<1>2. /\ m \in Seq(Posting) /\ Len(m) = n + 1 /\ n \in Nat /\ m[n + 1] = e
      /\ \A k \in 1..n : m[k] = p[k]
  BY <1>1
<1>3. f \in Seq(Byte)
  BY ConcatProperties
<1>4. u \in Seq(Seq(Byte)) /\ Len(u) = n + 1
  BY <1>2, NodesType
<1>5. Nodes(p) \in Seq(Seq(Byte)) /\ Len(Nodes(p)) = n
  BY NodesType
<1>6. DOMAIN m = 1..(n + 1) /\ DOMAIN p = 1..n
  BY <1>2
<1>7. \A k \in 1..(n + 1) : u[k] = m[k].head \o m[k].data
  BY <1>6, Zenon DEF Nodes
<1>8. \A k \in 1..n : Nodes(p)[k] = p[k].head \o p[k].data
  BY <1>6, Zenon DEF Nodes
<1> HIDE DEF f, m, u
<1>9. /\ v \in Seq(Seq(Byte)) /\ Len(v) = n + 1 /\ v[n + 1] = f
      /\ \A k \in 1..n : v[k] = Nodes(p)[k]
  BY <1>3, <1>5
<1> HIDE DEF v, n
<1>10. ASSUME NEW k \in 1..(n + 1) PROVE u[k] = v[k]
  <2>1. CASE k = n + 1
    BY <1>1, <1>2, <1>7, <1>9, <2>1, Zenon DEF f
  <2>2. CASE k # n + 1
    <3>1. k \in 1..n
      BY <1>2, <2>2
    <3> QED
      BY <1>2, <1>7, <1>8, <1>9, <3>1, Zenon
  <2> QED
    BY <2>1, <2>2
<1>11. u = v
  BY <1>4, <1>9, <1>10
<1> QED
  BY <1>11 DEF u, v, m, f, e, n

\* What a session holds, as sequences.
LEMMA Parts ==
  ASSUME NEW s \in Session, FInv(s)
  PROVE  /\ recv_head[s] \in Seq(Byte) /\ data[s] \in Seq(Byte) /\ net[s] \in Seq(Byte)
         /\ recv_msg[s].data \in Seq(Byte) /\ data[s] \o net[s] \in Seq(Byte)
         /\ Partial(s) \in Seq(Byte) /\ Stream(s) \in Seq(Byte)
         /\ FlattenSeq(Nodes(posted[s])) \in Seq(Byte)
         /\ ~b_head_parse[s] => Partial(s) = recv_head[s] /\ Stream(s) = Rest(s)
<1>1. /\ recv_head[s] \in Seq(Byte) /\ data[s] \in Seq(Byte) /\ net[s] \in Seq(Byte)
      /\ recv_msg[s].data \in Seq(Byte) /\ posted[s] \in Seq(Posting)
  BY DEF FInv, Node
<1>2. (IF b_head_parse[s] THEN recv_msg[s].data ELSE << >>) \in Seq(Byte)
  BY <1>1
<1>3. data[s] \o net[s] \in Seq(Byte) /\ Partial(s) \in Seq(Byte)
  BY <1>1, <1>2, ConcatProperties DEF Partial
<1>4. Stream(s) \in Seq(Byte)
  BY <1>3, ConcatProperties DEF Stream
<1>5. FlattenSeq(Nodes(posted[s])) \in Seq(Byte)
  BY <1>1, NodesType, FlattenType
<1>6. recv_head[s] \o << >> = recv_head[s]
  BY <1>1, ConcatEmptySeq
<1>7. ~b_head_parse[s] => Partial(s) = recv_head[s]
  BY <1>6, Zenon DEF Partial
<1> QED
  BY <1>1, <1>3, <1>4, <1>5, <1>7, Zenon DEF Stream, Rest

\* Steps that move bytes along, and steps of other sessions.
LEMMA ConservedKept ==
  ASSUME NEW s \in Session, CInv(s), Stream(s)' = Stream(s),
         lens'[s] = lens[s], posted'[s] = posted[s]
  PROVE  CInv(s)'
BY DEF CInv, Conserved

\* A node leaves the stream at its front.
LEMMA PostConserved ==
  ASSUME NEW s \in Session, FInv(s), CInv(s), lens'[s] = lens[s],
         NEW h \in Seq(Byte), NEW b \in Seq(Byte), NEW x \in Seq(Byte),
         posted'[s] = Append(posted[s], [head |-> h, data |-> b]),
         Stream(s) = (h \o b) \o x, Stream(s)' = x
  PROVE  CInv(s)'
<1> DEFINE o == FlattenSeq(Nodes(posted[s]))
           p == FlattenSeq(Nodes(posted'[s]))
           f == h \o b
<1>1. f \in Seq(Byte) /\ o \in Seq(Byte)
  BY Parts, ConcatProperties
<1>2. p = o \o f
  <2>1. posted[s] \in Seq(Posting)
    BY DEF FInv
  <2>2. Nodes(posted'[s]) = Append(Nodes(posted[s]), f)
    BY <2>1, NodesGrow
  <2>3. Nodes(posted[s]) \in Seq(Seq(Byte))
    BY <2>1, NodesType
  <2> HIDE DEF f
  <2>4. FlattenSeq(Append(Nodes(posted[s]), f)) = FlattenSeq(Nodes(posted[s])) \o f
    BY <1>1, <2>3, FlattenAppend
  <2> QED
    BY <2>2, <2>4, Zenon
<1>3. Associates(o, f, x)
  <2> HIDE DEF o, f
  <2> QED
    BY <1>1, Associate
<1>4. FlattenSeq(Frames(lens[s])) = o \o Stream(s)
  BY DEF CInv, Conserved
<1> HIDE DEF o, p
<1>5. FlattenSeq(Frames(lens[s])) = p \o x
  BY <1>2, <1>3, <1>4, Zenon DEF Associates
<1> QED
  BY <1>5, Zenon DEF CInv, Conserved, p

\* A frame enters the stream at its end.
LEMMA PeerWritesConserved ==
  ASSUME IInv, NEW s \in Session, NEW len \in BodyLen, PeerWrites(s, len), CInv(s)
  PROVE  CInv(s)'
<1> DEFINE f == FrameBytes(Len(lens[s]) + 1, len)
           o == FlattenSeq(Nodes(posted[s]))
           d == data[s]
           n == net[s]
<1>1. FInv(s) /\ TypeOK
  BY OfSession
<1>2. /\ lens'[s] = Append(lens[s], len) /\ net'[s] = n \o f
      /\ UNCHANGED <<data, recv_head, recv_msg, b_head_parse, posted>>
      /\ Len(lens[s]) < MaxFrames
  BY <1>1 DEF PeerWrites, TypeOK
<1>3. lens[s] \in Seq(BodyLen) /\ Len(lens[s]) \in Nat /\ Len(lens[s]) <= MaxFrames
      /\ Len(lens[s]) + 1 \in 1..MaxFrames /\ Len(lens'[s]) <= MaxFrames
  BY <1>1, <1>2, FramesAssumption DEF FInv
<1>4. f \in Seq(Byte)
  BY <1>3, FrameBytesType
<1>5. /\ d \in Seq(Byte) /\ n \in Seq(Byte) /\ d \o n \in Seq(Byte)
      /\ Partial(s) \in Seq(Byte) /\ Stream(s) \in Seq(Byte) /\ o \in Seq(Byte)
  BY <1>1, Parts
<1>6. FlattenSeq(Frames(lens'[s])) = FlattenSeq(Frames(lens[s])) \o f
  <2>1. Frames(lens'[s]) = Append(Frames(lens[s]), f)
    BY <1>2, <1>3, FramesGrow
  <2>2. Frames(lens[s]) \in Seq(Seq(Byte))
    BY <1>3, FramesType
  <2> HIDE DEF f
  <2>3. FlattenSeq(Append(Frames(lens[s]), f)) = FlattenSeq(Frames(lens[s])) \o f
    BY <1>4, <2>2, FlattenAppend
  <2> QED
    BY <2>1, <2>3, Zenon
<1> HIDE DEF f, o, d, n
<1>7. /\ Associates(d, n, f) /\ Associates(Partial(s), d \o n, f)
      /\ Associates(o, Stream(s), f)
  BY <1>4, <1>5, Associate
<1>8. Stream(s)' = Stream(s) \o f
  <2>1. Partial(s)' = Partial(s)
    BY <1>2 DEF Partial
  <2>2. Partial(s) \o (d \o (n \o f)) = (Partial(s) \o (d \o n)) \o f
    BY <1>7, Zenon DEF Associates
  <2> QED
    BY <1>2, <2>1, <2>2, Zenon DEF Stream, d, n
<1>9. FlattenSeq(Frames(lens[s])) \o f = o \o (Stream(s) \o f)
  BY <1>7, Zenon DEF CInv, Conserved, Associates, o
<1> QED
  BY <1>2, <1>3, <1>6, <1>8, <1>9, Zenon DEF CInv, Conserved, o

\* A chunk is cut off what is on its way.
LEMMA ReceiveConserved ==
  ASSUME IInv, NEW s \in Session, Receive(s), EInv(s), CInv(s)
  PROVE  CInv(s)'
<1>1. FInv(s) /\ TypeOK
  BY OfSession
<1>2. PICK n \in 1..MAX_LENGTH : n <= Len(net[s]) /\ ReadCompletes(s, n)
  BY DEF Receive
<1>3. n \in Nat
  BY LengthAssumption
<1>4. /\ data'[s] = SubSeq(net[s], 1, n) /\ net'[s] = SubSeq(net[s], n + 1, Len(net[s]))
      /\ handler[s] = "reading"
      /\ UNCHANGED <<lens, recv_head, recv_msg, b_head_parse, posted>>
  BY <1>1, <1>2 DEF ReadCompletes, TypeOK, peer
<1>5. data[s] = << >>
  BY <1>4 DEF EInv
<1>6. net[s] \in Seq(Byte) /\ << >> \o net[s] = net[s]
  BY <1>1, ConcatEmptySeq DEF FInv
<1>7. SubSeq(net[s], 1, n) \o SubSeq(net[s], n + 1, Len(net[s])) = net[s]
  BY <1>2, <1>3, <1>6, CutConcat
<1>8. Partial(s)' = Partial(s)
  BY <1>4 DEF Partial
<1>9. Stream(s)' = Stream(s)
  BY <1>4, <1>5, <1>6, <1>7, <1>8, Zenon DEF Stream
<1> QED
  BY <1>4, <1>9, ConservedKept

\* The chunk joins the bytes of a head that is still short.
LEMMA HeadPartialConserved ==
  ASSUME IInv, NEW s \in Session, HeadPartial(s), CInv(s)
  PROVE  CInv(s)'
<1>1. FInv(s) /\ TypeOK /\ ~b_head_parse[s]
  BY OfSession DEF HeadPartial
<1>2. /\ recv_head'[s] = recv_head[s] \o data[s] /\ data'[s] = << >>
      /\ UNCHANGED <<lens, net, b_head_parse, posted>>
  BY <1>1 DEF HeadPartial, TypeOK, peer
<1>3. recv_head[s] \in Seq(Byte) /\ data[s] \in Seq(Byte) /\ net[s] \in Seq(Byte)
      /\ Stream(s) = Rest(s)
  BY <1>1, Parts
<1>4. recv_head[s] \o data[s] \in Seq(Byte) /\ << >> \o net[s] = net[s]
  BY <1>3, ConcatProperties, ConcatEmptySeq
<1>5. (recv_head[s] \o data[s]) \o << >> = recv_head[s] \o data[s]
  BY <1>4, ConcatEmptySeq
<1>6. Associates(recv_head[s], data[s], net[s])
  BY <1>3, Associate
<1>7. Stream(s)' = (recv_head[s] \o data[s]) \o net[s]
  BY <1>1, <1>2, <1>4, <1>5, Zenon DEF Stream, Partial
<1>8. Stream(s)' = Stream(s)
  BY <1>3, <1>6, <1>7, Zenon DEF Rest, Associates
<1> QED
  BY <1>2, <1>8, ConservedKept

\* A head that ends the loop stays where it is.
LEMMA StopsConserved ==
  ASSUME IInv, NEW s \in Session, NEW len \in Short,
         InvalidHead(s, len) \/ NodeThrows(s, len), CInv(s)
  PROVE  CInv(s)'
<1>1. FInv(s) /\ TypeOK /\ HeadComplete(s) /\ ~b_head_parse[s]
  BY OfSession DEF InvalidHead, NodeThrows, Stops, HeadComplete
<1>2. /\ recv_head'[s] = Head4(s) /\ data'[s] = AfterHead(s)
      /\ UNCHANGED <<lens, net, b_head_parse, posted>>
  BY <1>1 DEF InvalidHead, NodeThrows, Stops, TypeOK, peer
<1>3. Stream(s) = Head4(s) \o (AfterHead(s) \o net[s])
  BY <1>1, Parts, RestCut
<1>4. Head4(s) \o << >> = Head4(s)
  BY <1>1, HeadCut, ConcatEmptySeq
<1>5. Stream(s)' = Stream(s)
  BY <1>1, <1>2, <1>3, <1>4, Zenon DEF Stream, Partial
<1> QED
  BY <1>2, <1>5, ConservedKept

\* The chunk moves to head and node.
LEMMA BodyPartialConserved ==
  ASSUME IInv, NEW s \in Session, NEW len \in Short, BodyPartial(s, len), CInv(s)
  PROVE  CInv(s)'
<1>1. FInv(s) /\ TypeOK /\ HeadComplete(s) /\ ~b_head_parse[s]
  BY OfSession DEF BodyPartial, HeadComplete
<1>2. /\ recv_head'[s] = Head4(s) /\ data'[s] = << >>
      /\ recv_msg'[s].data = AfterHead(s) /\ b_head_parse'[s] = TRUE
      /\ UNCHANGED <<lens, net, posted>>
  BY <1>1 DEF BodyPartial, TypeOK, peer
<1>3. Stream(s) = Head4(s) \o (AfterHead(s) \o net[s])
  BY <1>1, Parts, RestCut
<1>4. Head4(s) \in Seq(Byte) /\ AfterHead(s) \in Seq(Byte) /\ net[s] \in Seq(Byte)
  BY <1>1, HeadCut, Parts
<1>5. << >> \o net[s] = net[s] /\ Associates(Head4(s), AfterHead(s), net[s])
  BY <1>4, Associate, ConcatEmptySeq
<1>6. Stream(s)' = (Head4(s) \o AfterHead(s)) \o net[s]
  BY <1>2, <1>5, Zenon DEF Stream, Partial
<1>7. Stream(s)' = Stream(s)
  BY <1>3, <1>5, <1>6, Zenon DEF Associates
<1> QED
  BY <1>2, <1>7, ConservedKept

\* Head and body are posted; the rest of the chunk stays.
LEMMA BodyCompleteConserved ==
  ASSUME IInv, NEW s \in Session, NEW len \in Short, BodyComplete(s, len), CInv(s)
  PROVE  CInv(s)'
<1> DEFINE h == Head4(s)
           rest == AfterHead(s)
           b == SubSeq(rest, 1, len)
           q == SubSeq(rest, len + 1, Len(rest))
           w == net[s]
<1>1. FInv(s) /\ TypeOK /\ HeadComplete(s) /\ ~b_head_parse[s]
  BY OfSession DEF BodyComplete, HeadComplete
<1>2. /\ recv_head'[s] = << >> /\ data'[s] = q /\ b_head_parse'[s] = FALSE
      /\ posted'[s] = Append(posted[s], [head |-> h, data |-> b])
      /\ UNCHANGED <<lens, net>>
  BY <1>1 DEF BodyComplete, Post, TypeOK, peer
<1>3. /\ h \in Seq(Byte) /\ rest \in Seq(Byte) /\ w \in Seq(Byte)
      /\ len \in Nat /\ len <= Len(rest)
  BY <1>1, HeadCut, NotLess, ShortAssumption DEF BodyComplete, FInv
<1>4. b \in Seq(Byte) /\ q \in Seq(Byte) /\ rest = b \o q
  BY <1>3, Cut, CutConcat
<1>5. Stream(s) = h \o (rest \o w)
  BY <1>1, Parts, RestCut
<1> HIDE DEF h, rest, b, q, w
<1>6. Stream(s) = (h \o b) \o (q \o w) /\ q \o w \in Seq(Byte)
  <2>1. Regrouped(h, b, q, w)
    BY <1>3, <1>4, Regroup
  <2> QED
    BY <1>3, <1>4, <1>5, <2>1, ConcatProperties DEF Regrouped
<1>7. Stream(s)' = q \o w
  <2>1. /\ \A x \in Seq(Byte) : << >> \o x = x
        /\ << >> \o << >> = << >>
    BY ConcatEmptySeq
  <2>2. Partial(s)' = << >>
    BY <1>2, <2>1, Zenon DEF Partial
  <2> QED
    BY <1>2, <1>6, <2>1, <2>2, Zenon DEF Stream, w
<1> QED
  BY <1>1, <1>2, <1>3, <1>4, <1>6, <1>7, PostConserved

\* The chunk moves to the node.
LEMMA MoreBodyConserved ==
  ASSUME IInv, NEW s \in Session, MoreBody(s), CInv(s)
  PROVE  CInv(s)'
<1> DEFINE h == recv_head[s]
           b == recv_msg[s].data
           d == data[s]
           n == net[s]
<1>1. FInv(s) /\ TypeOK /\ b_head_parse[s]
  BY OfSession DEF MoreBody
<1>2. recv_msg'[s].data = b \o d
  <2>1. recv_msg[s] \in Node /\ recv_msg \in [Session -> Node]
    BY <1>1 DEF FInv, TypeOK, Node
  <2>2. recv_msg' = [recv_msg EXCEPT ![s] = [recv_msg[s] EXCEPT !.data = b \o d]]
    BY DEF MoreBody
  <2>3. [recv_msg[s] EXCEPT !.data = b \o d] = [total |-> recv_msg[s].total, data |-> b \o d]
    BY <2>1, NodeExcept
  <2>4. recv_msg'[s] = [recv_msg[s] EXCEPT !.data = b \o d]
    BY <2>1, <2>2
  <2> HIDE DEF b, d
  <2> QED
    BY <2>3, <2>4
<1>3. /\ data'[s] = << >>
      /\ UNCHANGED <<lens, net, recv_head, b_head_parse, posted>>
  BY <1>1 DEF MoreBody, TypeOK, peer
<1>4. h \in Seq(Byte) /\ b \in Seq(Byte) /\ d \in Seq(Byte) /\ n \in Seq(Byte)
  BY <1>1, Parts
<1>5. Stream(s) = (h \o b) \o (d \o n)
  BY <1>1, Zenon DEF Stream, Partial
<1>6. Stream(s)' = (h \o (b \o d)) \o (<< >> \o n)
  BY <1>1, <1>2, <1>3, Zenon DEF Stream, Partial
<1> HIDE DEF h, b, d, n
<1>7. << >> \o n = n /\ h \o b \in Seq(Byte)
  BY <1>4, ConcatProperties, ConcatEmptySeq
<1>8. Associates(h, b, d) /\ Associates(h \o b, d, n)
  BY <1>4, <1>7, Associate
<1>9. Stream(s)' = Stream(s)
  BY <1>5, <1>6, <1>7, <1>8, Zenon DEF Associates
<1> QED
  BY <1>3, <1>9, ConservedKept

\* The node and what it still lacked are posted.
LEMMA RestOfBodyConserved ==
  ASSUME IInv, NEW s \in Session, RestOfBody(s), CInv(s)
  PROVE  CInv(s)'
<1> DEFINE h == recv_head[s]
           b == recv_msg[s].data
           m == RemainMsg(s)
           d == SubSeq(data[s], 1, m)
           q == SubSeq(data[s], m + 1, Len(data[s]))
           w == net[s]
<1>1. FInv(s) /\ TypeOK /\ b_head_parse[s]
  BY OfSession DEF RestOfBody
<1>2. /\ recv_head'[s] = << >> /\ data'[s] = q /\ b_head_parse'[s] = FALSE
      /\ posted'[s] = Append(posted[s], [head |-> h, data |-> b \o d])
      /\ UNCHANGED <<lens, net>>
  BY <1>1 DEF RestOfBody, Post, TypeOK, peer
<1>3. m \in Nat /\ m <= Len(data[s])
  <2>1. m \in Int /\ Len(data[s]) \in Nat
    BY <1>1 DEF FInv, Node, RemainMsg
  <2>2. ~SizeLess(Len(data[s]), m)
    BY DEF RestOfBody
  <2> HIDE DEF m
  <2> QED
    BY <2>1, <2>2, NotLess
<1>4. h \in Seq(Byte) /\ b \in Seq(Byte) /\ data[s] \in Seq(Byte) /\ w \in Seq(Byte)
  BY <1>1, Parts
<1>5. d \in Seq(Byte) /\ q \in Seq(Byte) /\ data[s] = d \o q
  <2> HIDE DEF m
  <2> QED
    BY <1>3, <1>4, Cut, CutConcat
<1>6. Stream(s) = (h \o b) \o (data[s] \o w)
  BY <1>1, Zenon DEF Stream, Partial
<1> HIDE DEF h, b, m, d, q, w
<1>7. /\ h \o b \in Seq(Byte) /\ b \o d \in Seq(Byte) /\ q \o w \in Seq(Byte)
  BY <1>4, <1>5, ConcatProperties
<1>8. Regrouped(h \o b, d, q, w) /\ Associates(h, b, d)
  BY <1>4, <1>5, <1>7, Regroup, Associate
<1>9. Stream(s) = (h \o (b \o d)) \o (q \o w)
  BY <1>5, <1>6, <1>8, Zenon DEF Regrouped, Associates
<1>10. Stream(s)' = q \o w
  <2>1. /\ \A x \in Seq(Byte) : << >> \o x = x
        /\ << >> \o << >> = << >>
    BY ConcatEmptySeq
  <2>2. Partial(s)' = << >>
    BY <1>2, <2>1, Zenon DEF Partial
  <2> QED
    BY <1>2, <1>7, <2>1, <2>2, Zenon DEF Stream, w
<1> QED
  BY <1>1, <1>2, <1>4, <1>7, <1>9, <1>10, PostConserved

LEMMA StepConserved ==
  ASSUME IInv, NEW s \in Session, StepOf(s), EInv(s), CInv(s)
  PROVE  CInv(s)'
<1>1. CASE PeerLeaves(s) \/ ReadFails(s)
  <2>1. UNCHANGED <<lens, net, data, recv_head, recv_msg, b_head_parse, posted>>
    BY <1>1 DEF PeerLeaves, ReadFails, peer
  <2> QED
    BY <2>1, ConservedKept DEF Stream, Partial
<1> QED
  BY <1>1, PeerWritesConserved, ReceiveConserved, HeadPartialConserved, StopsConserved,
     BodyPartialConserved, BodyCompleteConserved, MoreBodyConserved, RestOfBodyConserved
  DEF StepOf, Turn

AllConserved == \A s \in Session : CInv(s)

LEMMA InitConserved == Init => AllConserved
<1> SUFFICES ASSUME Init, NEW s \in Session PROVE CInv(s)
  BY DEF AllConserved
<1>1. /\ lens[s] = << >> /\ net[s] = << >> /\ data[s] = << >> /\ recv_head[s] = << >>
      /\ posted[s] = << >> /\ ~b_head_parse[s]
  BY DEF Init
<1>2. << >> \o << >> = << >>
  OBVIOUS
<1>3. Stream(s) = << >>
  BY <1>1, <1>2, Zenon DEF Stream, Partial
<1>5. DOMAIN lens[s] = {} /\ DOMAIN posted[s] = {} /\ Len(lens[s]) = 0
  BY <1>1
<1>6. Frames(lens[s]) = << >> /\ Nodes(posted[s]) = << >>
  BY <1>5 DEF Frames, Nodes
<1>7. FlattenSeq(<< >>) = << >>
  BY DEF FlattenSeq
<1>8. Len(lens[s]) <= MaxFrames
  BY <1>5, FramesAssumption
<1> QED
  BY <1>2, <1>3, <1>6, <1>7, <1>8, Zenon DEF CInv, Conserved

LEMMA NextConserved == IInv /\ AllExact /\ AllConserved /\ [Next]_vars => AllConserved'
<1> SUFFICES ASSUME IInv, AllExact, AllConserved, [Next]_vars, NEW r \in Session
             PROVE  CInv(r)'
  BY DEF AllConserved
<1>1. CInv(r) /\ EInv(r)
  BY DEF AllConserved, AllExact
<1>2. CASE UNCHANGED vars
  BY <1>1, <1>2, ConservedKept DEF vars, Stream, Partial
<1>3. ASSUME NEW s \in Session, StepOf(s) PROVE CInv(r)'
  <2>1. CASE r = s
    BY <1>1, <1>3, <2>1, StepConserved
  <2>2. CASE r # s
    <3>1. Same(r)
      BY <1>3, <2>2, StepOther DEF SameE
    <3> QED
      BY <1>1, <3>1, ConservedKept DEF Same, Stream, Partial
  <2> QED
    BY <2>1, <2>2
<1> QED
  BY <1>2, <1>3 DEF Next, StepOf

\* What AllConserved says of the bytes, in the order of BytesConserved.
LEMMA ConservedIsBytesConserved == IInv /\ AllConserved => BytesConserved
<1> SUFFICES ASSUME IInv, AllConserved, NEW s \in Session
             PROVE  FlattenSeq(Frames(lens[s]))
                      = FlattenSeq(Nodes(posted[s])) \o Partial(s) \o data[s] \o net[s]
  BY Zenon DEF BytesConserved, Frames, Nodes, Partial
<1> DEFINE o == FlattenSeq(Nodes(posted[s]))
           a == Partial(s)
           d == data[s]
           n == net[s]
<1>1. FInv(s)
  BY OfSession
<1>2. o \in Seq(Byte) /\ a \in Seq(Byte) /\ d \in Seq(Byte) /\ n \in Seq(Byte)
  BY <1>1, Parts
<1>3. FlattenSeq(Frames(lens[s])) = o \o (a \o (d \o n))
  BY DEF AllConserved, CInv, Conserved, Stream
<1> HIDE DEF o, a, d, n
<1>4. o \o a \in Seq(Byte) /\ d \o n \in Seq(Byte)
  BY <1>2, ConcatProperties
<1>5. Associates(o, a, d \o n) /\ Associates(o \o a, d, n)
  BY <1>2, <1>4, Associate
<1>6. FlattenSeq(Frames(lens[s])) = ((o \o a) \o d) \o n
  BY <1>3, <1>5, Zenon DEF Associates
<1> QED
  BY <1>6 DEF o, a, d, n

\* Every byte the peer wrote is in exactly one place and in its order: posted,
\* in the half-filled head or node, in the chunk or on its way; for every way
\* the stream is cut, and also after a wrong head has lost the framing, for as
\* long as no copy has left the node it was made to (CSession.cpp:92).
THEOREM NoByteIsLost == Spec => []BytesConserved
<1> QED
  BY InitInv, NextInv, InitExact, NextExact, InitConserved, NextConserved,
     ConservedIsBytesConserved, PTL DEF Spec

=============================================================================
