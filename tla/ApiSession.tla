----------------------------- MODULE ApiSession -----------------------------
(***************************************************************************)
(* The session of the API notes in asio/Asycapi.cpp: a queue of messages    *)
(* sent by writes that may be partial, and a node filled by reads.  Calls   *)
(* and handlers run on the thread of the io_context; a caller keeps its     *)
(* string until the first transfer, whose buffer it is.  The nodes are made *)
(* as the two constructors of MsgNode intend.                               *)
(***************************************************************************)
EXTENDS SequencesExt, Naturals

CONSTANTS
  MaxLen,    \* bound: length of a message
  MaxMsgs,   \* bound: messages
  RECVSIZE,  \* size of a node that is read into
  MaxRecv    \* bound: bytes the peer sends

ApiSessionAssumption == /\ {MaxLen, MaxMsgs, MaxRecv} \subseteq Nat
                        /\ RECVSIZE \in Nat \ {0}

VARIABLES
  _send_queue,    \* nodes: message number, _total_len and _cur_len
  _send_pending,
  writing,        \* bytes the outstanding write offers, as <<message, from, to>>, or << >>
  wire,           \* bytes written, as <<message, offset>>
  sent,           \* messages handed in
  _recv_node,     \* _cur_len of the node, in a sequence that is empty for a null pointer
  _recv_pending,
  reading,        \* the handler of the outstanding read: "some", "all" or "none"
  arrived,        \* bytes the peer has sent, read or not
  eof             \* the peer has closed

send == <<_send_queue, _send_pending, writing, wire, sent>>
recv == <<_recv_node, _recv_pending, reading, arrived, eof>>
vars == <<send, recv>>

Init == /\ _send_queue = << >> /\ _send_pending = FALSE
        /\ writing = << >> /\ wire = << >> /\ sent = 0
        /\ _recv_node = << >> /\ _recv_pending = FALSE
        /\ reading = "none" /\ arrived = 0 /\ eof = FALSE

-----------------------------------------------------------------------------
MsgNode(len) == [msg |-> sent + 1, _total_len |-> len, _cur_len |-> 0]
Rest(node) == <<node.msg, node._cur_len, node._total_len>>

WriteToSocket(len) ==
  /\ sent < MaxMsgs
  /\ sent' = sent + 1
  /\ _send_queue' = Append(_send_queue, MsgNode(len))
  /\ IF _send_pending
     THEN UNCHANGED <<_send_pending, writing>>
     ELSE _send_pending' = TRUE /\ writing' = Rest(MsgNode(len))
  /\ UNCHANGED <<wire, recv>>

\* async_send is async_write_some for a stream, and its handler is the same.
WriteAllToSocket(len) == WriteToSocket(len)

\* Mutant of WriteRest: the write starts over from the head of the node.
WriteWhole(node) == IF node._cur_len < node._total_len
                    THEN <<node.msg, 0, node._total_len>> ELSE << >>

\* A node that is given the bytes of a transfer, and the write of what is left,
\* if there is any.
Counted(node, bytes) == [node EXCEPT !._cur_len = @ + bytes]
WriteRest(node) == IF node._cur_len < node._total_len THEN Rest(node) ELSE << >>

\* WriteCallBack, with the transfer it reports.
WriteCallBack(bytes) ==
  LET node == Counted(_send_queue[1], bytes)
      rest == Tail(_send_queue) IN
    /\ wire' = wire \o [i \in 1..bytes |-> <<writing[1], writing[2] + i>>]
    /\ IF node._cur_len < node._total_len
       THEN /\ _send_queue' = [_send_queue EXCEPT ![1] = node]
            /\ writing' = WriteRest(node)
            /\ UNCHANGED _send_pending
       ELSE IF rest = << >>
       THEN _send_queue' = << >> /\ _send_pending' = FALSE /\ writing' = << >>
       ELSE LET next == Counted(rest[1], bytes) IN
              /\ _send_queue' = [rest EXCEPT ![1] = next]
              /\ writing' = WriteRest(next)
              /\ UNCHANGED _send_pending
    /\ UNCHANGED <<sent, recv>>

\* An error code ends the handler before it does anything.
WriteFails == /\ writing # << >>
              /\ writing' = << >>
              /\ UNCHANGED <<_send_queue, _send_pending, wire, sent, recv>>

Written == \E bytes \in 1..MaxLen : /\ writing # << >>
                                    /\ bytes <= writing[3] - writing[2]
                                    /\ WriteCallBack(bytes)

-----------------------------------------------------------------------------
Read(handler) == /\ ~_recv_pending
                 /\ _recv_node' = <<0>>
                 /\ reading' = handler
                 /\ _recv_pending' = TRUE
                 /\ UNCHANGED <<arrived, eof, send>>

ReadFromSocket == Read("some")
ReadAllFromSocket == Read("all")

\* A read ends with some of the bytes there are, or with none and an error,
\* which neither handler looks at.
Transfers == IF reading = "none" THEN {}
             ELSE IF arrived > 0
             THEN {b \in 1..arrived : b <= RECVSIZE - _recv_node[1]}
             ELSE IF eof THEN {0} ELSE {}

ReadCallBack(b) == /\ reading = "some"
                   /\ _recv_node' = <<_recv_node[1] + b>>
                   /\ IF _recv_node'[1] < RECVSIZE
                      THEN UNCHANGED <<reading, _recv_pending>>
                      ELSE reading' = "none" /\ _recv_pending' = FALSE
                   /\ arrived' = arrived - b
                   /\ UNCHANGED <<eof, send>>

ReadAllCallBack(b) == /\ reading = "all"
                      /\ _recv_node' = << >>
                      /\ reading' = "none" /\ _recv_pending' = FALSE
                      /\ arrived' = arrived - b
                      /\ UNCHANGED <<eof, send>>

Peer == /\ ~eof
        /\ \/ (arrived < MaxRecv /\ arrived' = arrived + 1 /\ UNCHANGED eof)
           \/ (eof' = TRUE /\ UNCHANGED arrived)
        /\ UNCHANGED <<_recv_node, _recv_pending, reading, send>>

Next == \/ \E len \in 1..MaxLen : WriteToSocket(len) \/ WriteAllToSocket(len)
        \/ Written \/ WriteFails
        \/ ReadFromSocket \/ ReadAllFromSocket
        \/ \E b \in Transfers : ReadCallBack(b) \/ ReadAllCallBack(b)
        \/ Peer

Spec == Init /\ [][Next]_vars

-----------------------------------------------------------------------------
Before(x, y) == x[1] < y[1] \/ (x[1] = y[1] /\ x[2] < y[2])

\* Partial transfers and messages queued behind them never put a byte on the
\* wire twice or ahead of an earlier one, although the count carried over to
\* the next node makes its first bytes be skipped; a write only ever offers the
\* bytes of the front node, and the session is pending, for good, when it has
\* stopped writing (Asycapi.cpp:67, 83, 96).  A read has a node to read into
\* that has room.
ApiSessionSafe ==
  /\ \A i \in 1..Len(wire) - 1 : Before(wire[i], wire[i + 1])
  /\ writing # << >> => _send_pending /\ writing = Rest(_send_queue[1])
  /\ _send_queue # << >> => _send_pending
  /\ reading # "none" => _recv_pending /\ _recv_node # << >> /\ _recv_node[1] < RECVSIZE
=============================================================================
