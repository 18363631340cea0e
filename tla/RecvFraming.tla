---------------------------- MODULE RecvFraming ----------------------------
(***************************************************************************)
(* The receiving half of a session of asio/Async: CSession::HandleRead      *)
(* cuts the byte stream of its socket, which async_read_some delivers in    *)
(* chunks of any size, into a head of HEAD_TOTAL_LEN bytes and a body of    *)
(* the length the head announces, and posts each message to the logic      *)
(* queue.                                                                   *)
(*                                                                          *)
(* A byte is known by the frame it belongs to and its place in it, so that  *)
(* it can be told which bytes end up where; a head is decoded to the length *)
(* its peer wrote only if its bytes are the head of one frame, and to any   *)
(* signed number otherwise.  One turn of the handler's while loop is one    *)
(* step: it posts to the logic queue, so other threads do run between two   *)
(* turns.  A copy past the end of a node is undefined: the state it leads   *)
(* to is in the model, and what the process does from there is not.         *)
(***************************************************************************)
EXTENDS SequencesExt, Integers

CONSTANTS
  Session,         \* sessions, each with its socket
  HEAD_TOTAL_LEN,  \* bytes of a head
  MAX_LENGTH,      \* bytes async_read_some delivers at most
  BodyLen,         \* lengths of the bodies the peers write
  Short,           \* what text can be read as: the values of a signed short
  MaxFrames        \* bound: frames a peer writes

ASSUME HeadAssumption == HEAD_TOTAL_LEN \in Nat \ {0}
ASSUME LengthAssumption == MAX_LENGTH \in Nat \ {0} /\ BodyLen \subseteq 0..MAX_LENGTH
ASSUME ShortAssumption == Short \subseteq Int /\ BodyLen \subseteq Short
ASSUME FramesAssumption == MaxFrames \in Nat

VARIABLES
  lens,          \* lens[s][k]: body length of the k-th frame the peer wrote
  net,           \* net[s]: bytes the peer wrote that no read has delivered
  gone,          \* gone[s]: the peer has closed or reset the connection
  handler,       \* handler[s]: "reading" if a read is outstanding, "parsing"
                 \*   inside the while loop, "stopped" if neither
  data,          \* data[s]: bytes of _data the running handler has not copied
  recv_head,     \* recv_head[s]: bytes copied to _recv_head_node
  recv_msg,      \* recv_msg[s]: _recv_msg_node, its _total_len and bytes
  b_head_parse,  \* b_head_parse[s]: _b_head_parse
  b_close,       \* b_close[s]: Close() was called
  sessions,      \* keys of the server's map _session
  posted,        \* history: posted[s], head and bytes of each node posted
  split          \* history: split[s], some body did not arrive with its head

vars == <<lens, net, gone, handler, data, recv_head, recv_msg, b_head_parse,
          b_close, sessions, posted, split>>
peer == <<lens, gone>>

Byte == [frame : 1..MaxFrames, pos : 1..(HEAD_TOTAL_LEN + MAX_LENGTH)]

\* The bytes of frame k with a body of length len, head first.
FrameBytes(k, len) == [p \in 1..(HEAD_TOTAL_LEN + len) |-> [frame |-> k, pos |-> p]]
FrameHead(k) == SubSeq(FrameBytes(k, 0), 1, HEAD_TOTAL_LEN)
FrameBody(k, len) == [p \in 1..len |-> [frame |-> k, pos |-> HEAD_TOTAL_LEN + p]]

Init == /\ lens = [s \in Session |-> << >>]
        /\ net = [s \in Session |-> << >>]
        /\ gone = [s \in Session |-> FALSE]
        /\ handler = [s \in Session |-> "reading"]
        /\ data = [s \in Session |-> << >>]
        /\ recv_head = [s \in Session |-> << >>]
        /\ recv_msg = [s \in Session |-> [total |-> HEAD_TOTAL_LEN, data |-> << >>]]
        /\ b_head_parse = [s \in Session |-> FALSE]
        /\ b_close = [s \in Session |-> FALSE]
        /\ sessions = Session
        /\ posted = [s \in Session |-> << >>]
        /\ split = [s \in Session |-> FALSE]

-----------------------------------------------------------------------------
(* The peer and the socket. *)

PeerWrites(s, len) ==
  /\ ~gone[s]
  /\ Len(lens[s]) < MaxFrames
  /\ lens' = [lens EXCEPT ![s] = Append(@, len)]
  /\ net' = [net EXCEPT ![s] = @ \o FrameBytes(Len(lens[s]) + 1, len)]
  /\ UNCHANGED <<gone, handler, data, recv_head, recv_msg, b_head_parse, b_close,
                 sessions, posted, split>>

PeerLeaves(s) ==
  /\ ~gone[s]
  /\ gone' = [gone EXCEPT ![s] = TRUE]
  /\ UNCHANGED <<lens, net, handler, data, recv_head, recv_msg, b_head_parse, b_close,
                 sessions, posted, split>>

\* memset and the next async_read_some.
ReadAgain(s) == handler' = [handler EXCEPT ![s] = "reading"]

\* HandleRead is called with n bytes in _data.
ReadCompletes(s, n) ==
  /\ handler[s] = "reading"
  /\ handler' = [handler EXCEPT ![s] = "parsing"]
  /\ data' = [data EXCEPT ![s] = SubSeq(net[s], 1, n)]
  /\ net' = [net EXCEPT ![s] = SubSeq(@, n + 1, Len(@))]
  /\ UNCHANGED <<peer, recv_head, recv_msg, b_head_parse, b_close, sessions, posted, split>>

\* HandleRead with an error: Close, ClearSession, and no further read.
ReadFails(s) ==
  /\ handler[s] = "reading"
  /\ gone[s]
  /\ handler' = [handler EXCEPT ![s] = "stopped"]
  /\ b_close' = [b_close EXCEPT ![s] = TRUE]
  /\ sessions' = sessions \ {s}
  /\ UNCHANGED <<peer, net, data, recv_head, recv_msg, b_head_parse, posted, split>>

-----------------------------------------------------------------------------
(* Turns of the while loop with !_b_head_parse. *)

Parsing(s) == handler[s] = "parsing"

HeadShort(s) == Len(data[s]) + Len(recv_head[s]) < HEAD_TOTAL_LEN

\* Fewer bytes than the head still lacks: keep them and read again.
HeadPartial(s) ==
  /\ Parsing(s) /\ ~b_head_parse[s]
  /\ HeadShort(s)
  /\ recv_head' = [recv_head EXCEPT ![s] = @ \o data[s]]
  /\ data' = [data EXCEPT ![s] = << >>]
  /\ ReadAgain(s)
  /\ UNCHANGED <<peer, net, recv_msg, b_head_parse, b_close, sessions, posted, split>>

HeadComplete(s) == Parsing(s) /\ ~b_head_parse[s] /\ ~HeadShort(s)

HeadRemain(s) == HEAD_TOTAL_LEN - Len(recv_head[s])
Head4(s) == recv_head[s] \o SubSeq(data[s], 1, HeadRemain(s))
AfterHead(s) == SubSeq(data[s], HeadRemain(s) + 1, Len(data[s]))

\* What network_to_host_short can make of the four bytes h: the length the
\* peer wrote if they are the head of a frame, otherwise text read as two
\* numbers of any sign.
Decode(s, h) == IF \E k \in DOMAIN lens[s] : h = FrameHead(k)
                THEN {lens[s][h[1].frame]}
                ELSE Short

\* The loop ends with a head that was decoded to len, and nothing reads any more.
Stops(s, len) ==
  /\ HeadComplete(s)
  /\ len \in Decode(s, Head4(s))
  /\ recv_head' = [recv_head EXCEPT ![s] = Head4(s)]
  /\ data' = [data EXCEPT ![s] = AfterHead(s)]
  /\ handler' = [handler EXCEPT ![s] = "stopped"]

\* msg_id or msg_len above MAX_LENGTH: the session leaves the map; the socket is
\* not closed.
InvalidHead(s, len) ==
  /\ Stops(s, len)
  /\ len > MAX_LENGTH
  /\ sessions' = sessions \ {s}
  /\ UNCHANGED <<peer, net, recv_msg, b_head_parse, b_close, posted, split>>

\* new char[_total_len + 1] of a new RecvNode; it throws if that is negative.
NodeSize(len) == len + HEAD_TOTAL_LEN + 1

\* The exception ends in the catch of HandleRead: the session stays in the map.
NodeThrows(s, len) ==
  /\ Stops(s, len)
  /\ NodeSize(len) < 0
  /\ UNCHANGED <<peer, net, recv_msg, b_head_parse, b_close, sessions, posted, split>>

\* n < m, as HandleRead compares its size_t with a short or an int: a negative
\* one is converted to more than any chunk has.
SizeLess(n, m) == m < 0 \/ n < m

\* The chunk ends before the body does, or the length is negative and passed for
\* one: a new node takes what there is, whether it has room for it or not.
BodyPartial(s, len) ==
  /\ HeadComplete(s)
  /\ len \in Decode(s, Head4(s)) /\ len <= MAX_LENGTH /\ NodeSize(len) >= 0
  /\ SizeLess(Len(AfterHead(s)), len)
  /\ recv_head' = [recv_head EXCEPT ![s] = Head4(s)]
  /\ recv_msg' = [recv_msg EXCEPT ![s] = [total |-> len + HEAD_TOTAL_LEN, data |-> AfterHead(s)]]
  /\ data' = [data EXCEPT ![s] = << >>]
  /\ b_head_parse' = [b_head_parse EXCEPT ![s] = TRUE]
  /\ ReadAgain(s)
  /\ split' = [split EXCEPT ![s] = @ \/ len >= 0]
  /\ UNCHANGED <<peer, net, b_close, sessions, posted>>

\* Mutant of Post: the rest of the chunk is dropped by a return that should be a
\* continue.
PostReturns(s, head, body, rest) ==
  /\ posted' = [posted EXCEPT ![s] = Append(@, [head |-> head, data |-> body])]
  /\ b_head_parse' = [b_head_parse EXCEPT ![s] = FALSE]
  /\ recv_head' = [recv_head EXCEPT ![s] = << >>]
  /\ data' = [data EXCEPT ![s] = << >>]
  /\ ReadAgain(s)

\* PostMsgToQue, then _recv_head_node->Clear() and on with the rest of the
\* chunk, or with another read if there is none.
Post(s, head, body, rest) ==
  /\ posted' = [posted EXCEPT ![s] = Append(@, [head |-> head, data |-> body])]
  /\ b_head_parse' = [b_head_parse EXCEPT ![s] = FALSE]
  /\ recv_head' = [recv_head EXCEPT ![s] = << >>]
  /\ data' = [data EXCEPT ![s] = rest]
  /\ IF rest = << >> THEN ReadAgain(s) ELSE UNCHANGED handler

\* Head and body are both there.
BodyComplete(s, len) ==
  LET rest == AfterHead(s) IN
  /\ HeadComplete(s)
  /\ len \in Decode(s, Head4(s)) /\ len <= MAX_LENGTH
  /\ ~SizeLess(Len(rest), len)
  /\ recv_msg' = [recv_msg EXCEPT ![s] = [total |-> len + HEAD_TOTAL_LEN, data |-> SubSeq(rest, 1, len)]]
  /\ Post(s, Head4(s), SubSeq(rest, 1, len), SubSeq(rest, len + 1, Len(rest)))
  /\ UNCHANGED <<peer, net, b_close, sessions, split>>

-----------------------------------------------------------------------------
(* Turns of the while loop with _b_head_parse: the rest of a split body. *)

\* remain_msg, from a _total_len that counts the head's bytes as well; it is
\* negative once a copy has filled the place of the zero behind the node.
\* Mutant: what has been copied is not subtracted.
RemainTotal(s) == recv_msg[s].total
RemainMsg(s) == recv_msg[s].total - Len(recv_msg[s].data)

MoreBody(s) ==
  /\ Parsing(s) /\ b_head_parse[s]
  /\ SizeLess(Len(data[s]), RemainMsg(s))
  /\ recv_msg' = [recv_msg EXCEPT ![s].data = @ \o data[s]]
  /\ data' = [data EXCEPT ![s] = << >>]
  /\ ReadAgain(s)
  /\ UNCHANGED <<peer, net, recv_head, b_head_parse, b_close, sessions, posted, split>>

RestOfBody(s) ==
  LET body == recv_msg[s].data \o SubSeq(data[s], 1, RemainMsg(s)) IN
  /\ Parsing(s) /\ b_head_parse[s]
  /\ ~SizeLess(Len(data[s]), RemainMsg(s))
  /\ recv_msg' = [recv_msg EXCEPT ![s].data = body]
  /\ Post(s, recv_head[s], body, SubSeq(data[s], RemainMsg(s) + 1, Len(data[s])))
  /\ UNCHANGED <<peer, net, b_close, sessions, split>>

-----------------------------------------------------------------------------
Receive(s) == \E n \in 1..MAX_LENGTH : n <= Len(net[s]) /\ ReadCompletes(s, n)

Turn(s) == \/ HeadPartial(s)
           \/ \E len \in Short : \/ InvalidHead(s, len) \/ NodeThrows(s, len)
                                 \/ BodyPartial(s, len) \/ BodyComplete(s, len)
           \/ MoreBody(s)
           \/ RestOfBody(s)

\* The node m has the memory that was written for it, the zero behind its
\* _total_len bytes included.
Holds(m) == m.total >= 0 /\ Len(m.data) <= m.total + 1
InBounds == \A s \in Session : Holds(recv_msg[s])

Next == /\ InBounds
        /\ \E s \in Session :
             \/ \E len \in BodyLen : PeerWrites(s, len)
             \/ PeerLeaves(s)
             \/ Receive(s)
             \/ ReadFails(s)
             \/ Turn(s)

\* Sockets deliver what was written and handlers run to their end.
Fairness == \A s \in Session : /\ WF_vars(InBounds /\ Receive(s))
                               /\ WF_vars(InBounds /\ ReadFails(s))
                               /\ WF_vars(InBounds /\ Turn(s))

Spec == Init /\ [][Next]_vars /\ Fairness

-----------------------------------------------------------------------------
\* The types; and that _recv_head_node never holds more bytes than it has.
TypeOK == /\ lens \in [Session -> Seq(BodyLen)]
          /\ net \in [Session -> Seq(Byte)]
          /\ gone \in [Session -> BOOLEAN]
          /\ handler \in [Session -> {"reading", "parsing", "stopped"}]
          /\ data \in [Session -> Seq(Byte)]
          /\ recv_head \in [Session -> Seq(Byte)]
          /\ \A s \in Session : Len(recv_head[s]) <= HEAD_TOTAL_LEN
          /\ recv_msg \in [Session -> [total : Int, data : Seq(Byte)]]
          /\ b_head_parse \in [Session -> BOOLEAN]
          /\ b_close \in [Session -> BOOLEAN]
          /\ sessions \subseteq Session
          /\ posted \in [Session -> Seq([head : Seq(Byte), data : Seq(Byte)])]
          /\ split \in [Session -> BOOLEAN]

\* HandleRead puts no more into a node than the _total_len bytes of it, and fewer
\* while more are awaited, for every way the stream is cut and also after it has
\* lost its framing: all but the nodes of a negative length, and none is made for
\* one as long as no body was split.  And the loop never turns on an empty chunk.
CopiesFit ==
  \A s \in Session : /\ recv_msg[s].total >= HEAD_TOTAL_LEN =>
                          /\ Len(recv_msg[s].data) <= recv_msg[s].total
                          /\ b_head_parse[s] => Len(recv_msg[s].data) < recv_msg[s].total
                     /\ ~split[s] => recv_msg[s].total >= HEAD_TOTAL_LEN
                     /\ Parsing(s) => data[s] # << >>

\* What keeps the copies of HandleRead in the memory of their nodes.
Safe == TypeOK /\ CopiesFit

\* Every byte the peer wrote is in exactly one place, in the order of writing:
\* in a posted node or its head, in the half-filled head or node, in the rest
\* of the chunk or on its way; also after the stream has lost its framing, until
\* a copy leaves its node.
BytesConserved ==
  \A s \in Session : Holds(recv_msg[s]) =>
     LET Written == [k \in DOMAIN lens[s] |-> FrameBytes(k, lens[s][k])]
         Posted == [k \in DOMAIN posted[s] |-> posted[s][k].head \o posted[s][k].data]
         Partial == recv_head[s] \o (IF b_head_parse[s] THEN recv_msg[s].data ELSE << >>)
     IN FlattenSeq(Written) = FlattenSeq(Posted) \o Partial \o data[s] \o net[s]

\* The k-th node posted holds the body of the k-th frame the peer wrote.
NodeIsFrame(s, k) == /\ k <= Len(lens[s])
                     /\ posted[s][k].data = FrameBody(k, lens[s][k])

\* As long as every body arrived in the same chunk as the end of its head, the
\* posted nodes are the frames, also when heads are cut anywhere and chunks
\* hold several frames; and no valid head is refused.
ExactUnlessSplit ==
  \A s \in Session : ~split[s] =>
     /\ \A k \in DOMAIN posted[s] : NodeIsFrame(s, k)
     /\ handler[s] = "stopped" => b_close[s]

\* A frame is posted once it has been received, unless some body was split, the
\* peer went away, or a copy of some session has left its node.
FrameIsPosted ==
  \A s \in Session : \A k \in 1..MaxFrames :
     (k <= Len(lens[s])) ~> (k <= Len(posted[s]) \/ split[s] \/ gone[s] \/ ~InBounds)

\* The rest of a body whose beginning was received by an earlier read completes
\* the node with that body (the comments on the second half of the loop).
PostedIsFrame == \A s \in Session : \A k \in DOMAIN posted[s] : NodeIsFrame(s, k)
=============================================================================
