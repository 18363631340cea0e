----------------------------- MODULE SendQueue -----------------------------
(***************************************************************************)
(* The sending half of a session of asio/Async (CSession.cpp): Send, called *)
(* on the logic thread, puts a node on _send_que and starts an async_write  *)
(* when the queue was empty; HandleWrite, called on the session's strand    *)
(* when that write has completed, pops the node and starts the next write.  *)
(* Both take _send_lock, so each is one step here.                          *)
(*                                                                          *)
(* An async_write is not a step: it transfers its buffer, which is the      *)
(* memory of a node the queue owns, in several pieces, while the logic      *)
(* thread goes on calling Send.  Two outstanding writes would interleave    *)
(* their pieces on the wire, so a session keeps a sequence of outstanding   *)
(* writes here and the model leaves it to the code to keep it short.        *)
(***************************************************************************)
EXTENDS SequencesExt, Naturals

CONSTANTS
  Session,      \* sessions, each with its socket
  Node,         \* nodes the callbacks make; each is sent once
  MAX_SENDQUE,  \* the limit Send compares the queue's size with
  Pieces        \* into how many pieces the transport cuts a node

ASSUME LimitAssumption == MAX_SENDQUE \in Nat
ASSUME PiecesAssumption == Pieces \in Nat \ {0}

VARIABLES
  send_que,   \* send_que[s]: _send_que of session s
  writes,     \* writes[s]: its async_writes whose handler has not run
  wire,       \* wire[s]: what its socket has transferred, piece by piece
  reading,    \* reading[s]: an async_read_some is outstanding
  broken,     \* broken[s]: the peer is gone, the socket can only fail
  b_close,    \* b_close[s]: Close() was called, the socket is closed
  sessions,   \* keys of the server's map _session
  accepted,   \* history: accepted[s], the nodes Send has queued
  refused     \* history: refused[s], the nodes Send has dropped

vars == <<send_que, writes, wire, reading, broken, b_close, sessions, accepted, refused>>

Piece == [node : Node, part : 1..Pieces]
\* An async_write: its buffer, the pieces transferred, and whether it still
\* runs or its handler is queued on the strand with success or an error.
Write == [node : Node, sent : 0..Pieces, status : {"running", "ok", "error"}]

Init == /\ send_que = [s \in Session |-> << >>]
        /\ writes = [s \in Session |-> << >>]
        /\ wire = [s \in Session |-> << >>]
        /\ reading = [s \in Session |-> TRUE]
        /\ broken = [s \in Session |-> FALSE]
        /\ b_close = [s \in Session |-> FALSE]
        /\ sessions = Session
        /\ accepted = [s \in Session |-> << >>]
        /\ refused = [s \in Session |-> << >>]

\* async_write of the node in front of the queue q.
WriteFront(q) == [node |-> Head(q), sent |-> 0, status |-> "running"]

-----------------------------------------------------------------------------
(* CSession::Send, by its three ways out. *)

IsNew(n) == \A s \in Session : n \notin ToSet(accepted[s]) \cup ToSet(refused[s])

\* if (send_que_size > MAX_SENDQUE) ... return.
Full(s) == Len(send_que[s]) > MAX_SENDQUE

\* !(send_que_size > 0).  Mutant: the front is not counted.
NothingBehindFront(s) == Len(send_que[s]) <= 1
Starts(s) == send_que[s] = << >>

SendRefused(s, n) ==
  /\ Full(s)
  /\ refused' = [refused EXCEPT ![s] = Append(@, n)]
  /\ UNCHANGED <<send_que, writes, wire, reading, broken, b_close, sessions, accepted>>

\* The queue was not empty: HandleWrite will come to the node.
SendQueued(s, n) ==
  /\ ~Full(s)
  /\ ~Starts(s)
  /\ send_que' = [send_que EXCEPT ![s] = Append(@, n)]
  /\ accepted' = [accepted EXCEPT ![s] = Append(@, n)]
  /\ UNCHANGED <<writes, wire, reading, broken, b_close, sessions, refused>>

\* The queue was empty: Send starts the write of its front itself.
SendWritten(s, n) ==
  /\ ~Full(s)
  /\ Starts(s)
  /\ send_que' = [send_que EXCEPT ![s] = Append(@, n)]
  /\ writes' = [writes EXCEPT ![s] = Append(@, WriteFront(send_que'[s]))]
  /\ accepted' = [accepted EXCEPT ![s] = Append(@, n)]
  /\ UNCHANGED <<wire, reading, broken, b_close, sessions, refused>>

Send(s, n) == SendRefused(s, n) \/ SendQueued(s, n) \/ SendWritten(s, n)

-----------------------------------------------------------------------------
(* What the socket does with an outstanding write or read. *)

Transfer(s, i) ==
  LET w == writes[s][i] IN
  /\ w.status = "running"
  /\ ~broken[s] /\ ~b_close[s]
  /\ wire' = [wire EXCEPT ![s] = Append(@, [node |-> w.node, part |-> w.sent + 1])]
  /\ writes' = [writes EXCEPT ![s][i] =
       [node |-> w.node, sent |-> w.sent + 1,
        status |-> IF w.sent + 1 = Pieces THEN "ok" ELSE "running"]]
  /\ UNCHANGED <<send_que, reading, broken, b_close, sessions, accepted, refused>>

WriteFails(s, i) ==
  /\ writes[s][i].status = "running"
  /\ broken[s] \/ b_close[s]
  /\ writes' = [writes EXCEPT ![s][i].status = "error"]
  /\ UNCHANGED <<send_que, wire, reading, broken, b_close, sessions, accepted, refused>>

PeerGone(s) ==
  /\ ~broken[s]
  /\ broken' = [broken EXCEPT ![s] = TRUE]
  /\ UNCHANGED <<send_que, writes, wire, reading, b_close, sessions, accepted, refused>>

-----------------------------------------------------------------------------
(* The handlers. *)

\* The write HandleWrite starts when q is what the pop has left.  Mutant: the
\* last node is taken for an empty queue.
NextWriteOfMany(q) == IF Len(q) <= 1 THEN << >> ELSE <<WriteFront(q)>>
NextWrite(q) == IF q = << >> THEN << >> ELSE <<WriteFront(q)>>

\* Mutant of HandleWrite: it writes the front without having popped.
HandleWriteKeeps(s, i) ==
  /\ writes[s][i].status = "ok"
  /\ writes' = [writes EXCEPT ![s] = RemoveAt(@, i) \o NextWrite(send_que[s])]
  /\ UNCHANGED <<send_que, wire, reading, broken, b_close, sessions, accepted, refused>>

\* HandleWrite, if (!error): pop, and write the next front if there is one.
HandleWrite(s, i) ==
  /\ writes[s][i].status = "ok"
  /\ send_que' = [send_que EXCEPT ![s] = Tail(@)]
  /\ writes' = [writes EXCEPT ![s] = RemoveAt(@, i) \o NextWrite(send_que'[s])]
  /\ UNCHANGED <<wire, reading, broken, b_close, sessions, accepted, refused>>

\* Close() and _server->ClearSession(_uuid).
CloseAndClear(s) ==
  /\ b_close' = [b_close EXCEPT ![s] = TRUE]
  /\ sessions' = sessions \ {s}

\* Mutant of HandleWriteError: it tries the front again.
HandleWriteErrorRetries(s, i) ==
  /\ writes[s][i].status = "error"
  /\ writes' = [writes EXCEPT ![s] = RemoveAt(@, i) \o NextWrite(send_que[s])]
  /\ CloseAndClear(s)
  /\ UNCHANGED <<send_que, wire, reading, broken, accepted, refused>>

\* HandleWrite, else: the queue is left as it is and no write is started.
HandleWriteError(s, i) ==
  /\ writes[s][i].status = "error"
  /\ writes' = [writes EXCEPT ![s] = RemoveAt(@, i)]
  /\ CloseAndClear(s)
  /\ UNCHANGED <<send_que, wire, reading, broken, accepted, refused>>

\* HandleRead, else: no further read is started.
HandleReadError(s) ==
  /\ reading[s]
  /\ broken[s] \/ b_close[s]
  /\ reading' = [reading EXCEPT ![s] = FALSE]
  /\ CloseAndClear(s)
  /\ UNCHANGED <<send_que, writes, wire, broken, accepted, refused>>

WriteStep(s) ==
  \E i \in DOMAIN writes[s] :
     Transfer(s, i) \/ WriteFails(s, i) \/ HandleWrite(s, i) \/ HandleWriteError(s, i)

Next == \E s \in Session :
          \/ \E n \in Node : IsNew(n) /\ Send(s, n)
          \/ WriteStep(s)
          \/ PeerGone(s)
          \/ HandleReadError(s)

\* Sockets make progress and queued handlers run; nobody owes a Send.
Fairness == \A s \in Session : WF_vars(WriteStep(s)) /\ WF_vars(HandleReadError(s))

Spec == Init /\ [][Next]_vars /\ Fairness

-----------------------------------------------------------------------------
(* The pieces of a sequence of nodes, each from its first to its last. *)
Frames(q) == [k \in 1..(Len(q) * Pieces) |->
               [node |-> q[((k - 1) \div Pieces) + 1], part |-> ((k - 1) % Pieces) + 1]]

\* The types; and that a queue never holds more than one node beyond the limit
\* Send compares its size with.
TypeOK == /\ send_que \in [Session -> Seq(Node)]
          /\ \A s \in Session : Len(send_que[s]) <= MAX_SENDQUE + 1
          /\ writes \in [Session -> Seq(Write)]
          /\ wire \in [Session -> Seq(Piece)]
          /\ reading \in [Session -> BOOLEAN]
          /\ broken \in [Session -> BOOLEAN]
          /\ b_close \in [Session -> BOOLEAN]
          /\ sessions \subseteq Session
          /\ accepted \in [Session -> Seq(Node)]
          /\ refused \in [Session -> Seq(Node)]

\* A session never has two async_writes outstanding, although Send and
\* HandleWrite, on two threads, both start them.
OneWrite == \A s \in Session : Len(writes[s]) <= 1

\* The buffer of an outstanding write is the memory of the node at the front
\* of the queue, which is destroyed when it is popped: no handler pops a node
\* whose write is outstanding, and none writes a node that is not in front.
BufferIsFront ==
  \A s \in Session : \A i \in DOMAIN writes[s] :
     /\ send_que[s] # << >>
     /\ writes[s][i].node = Head(send_que[s])

\* What a peer receives is the nodes Send has queued, each whole, in the order
\* of the calls, and nothing between the pieces of a node.
WireInOrder == \A s \in Session : IsPrefix(wire[s], Frames(accepted[s]))

\* A queue with nodes always has a write to drain it, until the session is
\* closed: after that Send keeps queueing nodes nobody will ever write.
NoStall == \A s \in Session : send_que[s] # << >> => writes[s] # << >> \/ b_close[s]

\* The safety of Send and HandleWrite together: one write at a time, from a live
\* buffer, and never a queue that nothing drains.
Safe == TypeOK /\ OneWrite /\ BufferIsFront /\ NoStall

\* A node Send has queued is transferred to its last piece, unless the peer
\* goes away.
AcceptedIsSent ==
  \A s \in Session : \A n \in Node :
     (n \in ToSet(accepted[s])) ~>
        ([node |-> n, part |-> Pieces] \in ToSet(wire[s]) \/ broken[s])
=============================================================================
