------------------------ MODULE AsioPrograms_proofs ------------------------
(***************************************************************************)
(* Proofs about the programs under src/asio beside asio/Async: each of them *)
(* keeps an invariant of its own, and rests while another one runs.         *)
(***************************************************************************)
EXTENDS AsioPrograms, SequenceTheorems, TLAPS

-----------------------------------------------------------------------------
(* A step of the one that runs leaves the variables of the others alone.    *)

LEMMA StepsOfOne ==
  ASSUME [Next]_vars
  PROVE  /\ [A!Next]_(A!vars) /\ [S!Next]_(S!vars) /\ [E!Next]_(E!vars)
         /\ [C!Next]_(C!vars) /\ [W!Next]_(W!vars)
BY DEF Next, vars, api, sync, echo, coro, http, ws, A!vars, A!send, A!recv, S!vars,
       E!vars, C!vars, W!vars

-----------------------------------------------------------------------------
(***************************************************************************)
(* WsServer.  Nothing was heard or written for a connection before its read *)
(* has ended; a write finds in the queue the message that was heard, and    *)
(* nothing else.  A connection is in the map from its handshake on, until   *)
(* an operation fails.                                                      *)
(***************************************************************************)

Quiet(c) == /\ _send_que[c] = << >> /\ buffer[c] = << >>
            /\ written[c] = << >> /\ heard[c] = << >>

Writing(c) == \E m \in Message : /\ _send_que[c] = <<m>> /\ heard[c] = <<m>>
                                 /\ buffer[c] \in {<<m>>, <<Junk>>}
                                 /\ written[c] = << >>

WsConnection(c) ==
  /\ op[c] \in {"none", "handshake", "read", "write"}
  /\ c \notin accepted => op[c] = "none" /\ c \notin _map_cons /\ Quiet(c)
  /\ op[c] = "handshake" => c \notin _map_cons /\ Quiet(c)
  /\ op[c] = "read" => c \in _map_cons /\ Quiet(c)
  /\ op[c] = "write" => c \in _map_cons /\ Writing(c)
  /\ op[c] = "none" => IF c \in _map_cons THEN Len(written[c]) = 1 ELSE written[c] = << >>
  /\ _send_que[c] \in Seq(Message) /\ Len(_send_que[c]) <= 1
  /\ written[c] \in {<< >>, <<Junk>>, heard[c]}

WsInv == /\ DOMAIN op = Connection /\ DOMAIN _send_que = Connection
         /\ DOMAIN buffer = Connection /\ DOMAIN written = Connection
         /\ DOMAIN heard = Connection
         /\ \A c \in Connection : WsConnection(c)

LEMMA WsInvInit == W!Init => WsInv
<1> SUFFICES ASSUME W!Init, NEW c \in Connection PROVE WsConnection(c)
  BY DEF W!Init, WsInv
<1> QED
  BY DEF W!Init, WsConnection, Quiet

LEMMA WsInvSafe == WsInv => W!WsServerSafe
<1> SUFFICES ASSUME WsInv, NEW c \in Connection, WsConnection(c)
             PROVE  /\ c \in _map_cons /\ op[c] = "none" => Len(written[c]) = 1
                    /\ c \notin _map_cons => op[c] \in {"none", "handshake"} /\ written[c] = << >>
                    /\ Len(_send_que[c]) <= 1
                    /\ written[c] \in {<< >>, <<Junk>>, heard[c]}
  BY DEF WsInv, W!WsServerSafe
<1> QED
  BY DEF WsConnection, Quiet

\* What a step leaves alone.
Untouched(c) == /\ op'[c] = op[c] /\ (c \in accepted') = (c \in accepted)
                /\ (c \in _map_cons') = (c \in _map_cons)
                /\ _send_que'[c] = _send_que[c] /\ buffer'[c] = buffer[c]
                /\ written'[c] = written[c] /\ heard'[c] = heard[c]

LEMMA WsUntouched ==
  ASSUME NEW c \in Connection, WsConnection(c), Untouched(c)
  PROVE  WsConnection(c)'
BY DEF WsConnection, Untouched, Quiet, Writing

LEMMA WsInvStep == WsInv /\ [W!Next]_(W!vars) => WsInv'
<1> SUFFICES ASSUME WsInv, [W!Next]_(W!vars) PROVE WsInv'
  OBVIOUS
<1> USE DEF WsInv
<1>1. CASE UNCHANGED W!vars
  <2>1. \A c \in Connection : Untouched(c)
    BY <1>1 DEF W!vars, Untouched
  <2> QED
    BY <1>1, <2>1, WsUntouched DEF W!vars
<1>2. CASE W!Next
  <2>1. PICK d \in Connection : \/ W!Accept(d) \/ W!Handshake(d) \/ W!Fails(d)
                                \/ W!Read(d) \/ W!Written(d)
    BY <1>2 DEF W!Next
  <2> WsConnection(d)
    OBVIOUS
  <2>2. CASE W!Accept(d)
    <3>1. WsConnection(d)'
      BY <2>2 DEF W!Accept, WsConnection, Quiet
    <3> QED
      BY <2>2, <3>1, WsUntouched DEF W!Accept, Untouched
  <2>3. CASE W!Handshake(d)
    <3>1. WsConnection(d)'
      BY <2>3 DEF W!Handshake, WsConnection, Quiet
    <3> QED
      BY <2>3, <3>1, WsUntouched DEF W!Handshake, Untouched
  <2>4. CASE W!Fails(d)
    <3>1. WsConnection(d)'
      BY <2>4 DEF W!Fails, WsConnection, Quiet, Writing
    <3> QED
      BY <2>4, <3>1, WsUntouched DEF W!Fails, Untouched
  <2>5. CASE W!Read(d)
    <3>1. PICK m \in Message : /\ heard' = [heard EXCEPT ![d] = <<m>>]
                               /\ _send_que' = [_send_que EXCEPT ![d] = Append(@, m)]
                               /\ W!Write(d, m)
      BY <2>5 DEF W!Read, WsConnection, Quiet
    <3>2. op[d] = "read" /\ UNCHANGED <<accepted, _map_cons, written>> /\ Quiet(d)
      BY <2>5 DEF W!Read, WsConnection
    <3>3. op'[d] = "write" /\ heard'[d] = <<m>> /\ buffer'[d] \in {<<m>>, <<Junk>>}
      BY <3>1 DEF W!Write
    <3>4. _send_que'[d] = <<m>>
      BY <3>1, <3>2 DEF Quiet
    <3>5. d \in accepted /\ d \in _map_cons /\ written[d] = << >>
      BY <3>2 DEF WsConnection, Quiet
    <3>6. WsConnection(d)'
      BY <3>2, <3>3, <3>4, <3>5 DEF WsConnection, Writing
    <3>7. \A c \in Connection \ {d} : Untouched(c)
      BY <3>1, <3>2 DEF W!Write, Untouched
    <3> QED
      BY <3>1, <3>2, <3>6, <3>7, WsUntouched DEF W!Write
  <2>6. CASE W!Written(d)
    <3>1. PICK m \in Message : /\ _send_que[d] = <<m>> /\ heard[d] = <<m>>
                               /\ buffer[d] \in {<<m>>, <<Junk>>} /\ written[d] = << >>
      BY <2>6 DEF W!Written, WsConnection, Writing
    <3>2. /\ op' = [op EXCEPT ![d] = "none"]
          /\ buffer' = [buffer EXCEPT ![d] = << >>]
          /\ _send_que' = [_send_que EXCEPT ![d] = Tail(@)]
          /\ written' = [written EXCEPT ![d] = @ \o buffer[d]]
          /\ UNCHANGED <<accepted, _map_cons, heard>>
      BY <2>6, <3>1 DEF W!Written
    <3>3. d \in accepted /\ d \in _map_cons
      BY <2>6 DEF W!Written, WsConnection
    <3>4. _send_que'[d] = << >> /\ written'[d] \in {<<m>>, <<Junk>>}
      BY <3>1, <3>2
    <3>5. WsConnection(d)'
      BY <3>1, <3>2, <3>3, <3>4 DEF WsConnection
    <3>6. \A c \in Connection \ {d} : Untouched(c)
      BY <3>2 DEF Untouched
    <3> QED
      BY <3>2, <3>5, <3>6, WsUntouched
  <2> QED
    BY <2>1, <2>2, <2>3, <2>4, <2>5, <2>6
<1> QED
  BY <1>1, <1>2

\* A connection that nothing is outstanding for stays in the map only if it has
\* echoed its one message, its queue never holds a second one, and it writes its
\* message or released memory, whatever the other connections do
\* (Connection.h:62, 95, 105, 113).
THEOREM WsServerSafeAlways == Spec => []WsServerSafe
<1>1. Init => WsInv
  BY WsInvInit DEF Init
<1>2. WsInv /\ [Next]_vars => WsInv'
  BY StepsOfOne, WsInvStep
<1>3. WsInv => WsServerSafe
  BY WsInvSafe DEF WsServerSafe
<1> QED
  BY <1>1, <1>2, <1>3, PTL DEF Spec

-----------------------------------------------------------------------------
(***************************************************************************)
(* SyncSocket.  A function that only connects never comes to a transfer,    *)
(* and a transfer goes on only while there is something left of it.         *)
(***************************************************************************)

SyncInv == /\ S!SyncSocketSafe
           /\ call \in S!Connectors \cup S!Senders \cup S!Readers
           /\ pc \in {"connect", "transfer", "returned", "caught", "undefined", "terminated"}
           /\ total \in Nat /\ socket \in Nat
           /\ pc = "transfer" => call \notin S!Connectors

LEMMA SyncSizeType ==
  ASSUME S!SyncSocketAssumption
  PROVE  S!Size \in Nat \ {0}
BY DEF S!SyncSocketAssumption, S!Size

LEMMA SyncInvInit ==
  ASSUME S!SyncSocketAssumption
  PROVE  S!Init => SyncInv
BY SyncSizeType DEF S!Init, SyncInv, S!SyncSocketSafe

\* What a transfer leaves behind.
LEMMA SyncTransfers ==
  ASSUME S!SyncSocketAssumption, SyncInv, NEW n \in 1..S!Size, S!Transfers(n)
  PROVE  /\ total' \in Nat /\ socket' \in Nat /\ total' <= S!Size
         /\ call' = call /\ call \notin S!Connectors /\ S!Size' = S!Size
         /\ S!Size \in Nat
<1>1. S!Size \in Nat
  BY SyncSizeType
<1>2. /\ pc = "transfer" /\ n <= socket /\ n <= S!Size - total
      /\ socket' = socket - n /\ total' = total + n /\ call' = call
  BY DEF S!Transfers
<1>3. S!Size' = S!Size
  BY <1>2 DEF S!Size
<1> HIDE DEF S!Size
<1> QED
  BY <1>1, <1>2, <1>3 DEF SyncInv

\* A loop is over when everything is transferred.
LEMMA SyncLoop ==
  ASSUME S!SyncSocketAssumption, SyncInv, NEW n \in 1..S!Size, S!Loop(n)
  PROVE  SyncInv'
<1>1. S!Transfers(n) /\ pc' = IF total' = S!Size THEN S!End ELSE "transfer"
  BY DEF S!Loop
<1>2. /\ total' \in Nat /\ socket' \in Nat /\ total' <= S!Size
      /\ call' = call /\ call \notin S!Connectors /\ S!Size' = S!Size
  BY <1>1, SyncTransfers
<1> QED
  BY <1>1, <1>2 DEF SyncInv, S!SyncSocketSafe, S!End, S!Looping, S!Readers, S!Senders, S!Connectors

LEMMA SyncOnce ==
  ASSUME S!SyncSocketAssumption, SyncInv, NEW n \in 1..S!Size, S!Once(n),
         call \in {"send_data_by_send", "read_data_by_receive"}
  PROVE  SyncInv'
<1>1. S!Transfers(n) /\ pc' = S!End
  BY DEF S!Once
<1>2. /\ total' \in Nat /\ socket' \in Nat /\ total' <= S!Size
      /\ call' = call /\ call \notin S!Connectors /\ S!Size' = S!Size
  BY <1>1, SyncTransfers
<1> QED
  BY <1>1, <1>2 DEF SyncInv, S!SyncSocketSafe, S!End, S!Looping, S!Readers, S!Senders, S!Connectors

LEMMA SyncInvStep ==
  ASSUME S!SyncSocketAssumption
  PROVE  SyncInv /\ [S!Next]_(S!vars) => SyncInv'
<1> SUFFICES ASSUME SyncInv, [S!Next]_(S!vars) PROVE SyncInv'
  OBVIOUS
<1>1. CASE UNCHANGED S!vars
  BY <1>1 DEF S!vars, SyncInv, S!SyncSocketSafe, S!Size
<1>2. CASE S!Connect
  BY <1>2 DEF S!Connect, SyncInv, S!SyncSocketSafe, S!Size, S!Looping, S!Readers, S!Senders,
              S!Connectors
<1>3. CASE S!Throws
  BY <1>3 DEF S!Throws, S!Caught, SyncInv, S!SyncSocketSafe, S!Size
<1>4. CASE S!Peer
  BY <1>4 DEF S!Peer, SyncInv, S!SyncSocketSafe, S!Size
<1>5. ASSUME NEW n \in 1..S!Size,
             \/ S!send_data_by_write_some(n) \/ S!send_data_by_send(n)
             \/ S!send_data_by_write(n) \/ S!read_data_by_read_some(n)
             \/ S!read_data_by_receive(n) \/ S!read_data_by_read(n)
      PROVE  SyncInv'
  <2>1. \/ S!Loop(n)
        \/ S!Once(n) /\ call \in {"send_data_by_send", "read_data_by_receive"}
    BY <1>5 DEF S!send_data_by_write_some, S!send_data_by_send, S!send_data_by_write,
                S!read_data_by_read_some, S!read_data_by_receive, S!read_data_by_read
  <2> QED
    BY <2>1, SyncLoop, SyncOnce
<1> QED
  BY <1>1, <1>2, <1>3, <1>4, <1>5 DEF S!Next

LEMMA SyncInvSafe == SyncInv => S!SyncSocketSafe
BY DEF SyncInv

\* However the transfers are cut, the functions that loop, or let the library do
\* so, end with the whole message and none with a byte more, for every length of
\* it; no reader ends in a defined way, and no other function takes the process
\* down with it (socket.cpp:175, 256, 275, 279).
THEOREM SyncSocketSafeAlways == Spec => []SyncSocketSafe
<1>1. Init => SyncInv
  BY AsioAssumption, SyncInvInit DEF Init, AsioAssumption
<1>2. SyncInv /\ [Next]_vars => SyncInv'
  BY AsioAssumption, StepsOfOne, SyncInvStep DEF AsioAssumption
<1>3. SyncInv => SyncSocketSafe
  BY AsioAssumption, SyncInvSafe DEF SyncSocketSafe, AsioAssumption
<1> QED
  BY <1>1, <1>2, <1>3, PTL DEF Spec

-----------------------------------------------------------------------------
(***************************************************************************)
(* CoServer.  The handler of the accept holds the session until it is       *)
(* released, and before that the session is in the map unless it has closed *)
(* already: while the coroutine has not come to Close, one of the two holds *)
(* it.  The thread locks itself out only when nothing but the map does,     *)
(* when HandleAccept is over.  A coroutine that gets past Close has closed  *)
(* while the handler held the session.                                      *)
(***************************************************************************)

CoReading == co \in {"spawned", "reading", "rejecting", "catching"}

CoInv == /\ main \in {"accepting", "starting", "inserting", "releasing", "running",
                      "joining", "returned"}
         /\ CoReading \/ co \in {"none", "rejected", "ended", "relocking"}
         /\ handler \in BOOLEAN /\ mapped \in BOOLEAN /\ raced \in BOOLEAN
         /\ main \in {"accepting", "starting"} => co = "none"
         /\ main \in {"accepting", "starting", "inserting", "releasing"} => handler = TRUE
         /\ CoReading => IF main = "inserting" THEN handler = TRUE ELSE mapped = TRUE
         /\ main = "returned" => co \in {"none", "ended"}
         /\ co = "relocking" => handler = FALSE
         /\ co \in {"rejected", "ended"} => raced = TRUE
         /\ process = "exited" => co = "none" \/ raced = TRUE

LEMMA CoInvInit == C!Init => CoInv
BY DEF C!Init, CoInv, CoReading

LEMMA CoInvSafe == CoInv => C!CoServerSafe
BY DEF CoInv, CoReading, C!CoServerSafe, C!Alive, C!Locked

LEMMA CoInvStep == CoInv /\ [C!Next]_(C!vars) => CoInv'
<1> SUFFICES ASSUME CoInv, [C!Next]_(C!vars) PROVE CoInv'
  OBVIOUS
<1> USE DEF CoInv, CoReading
<1>1. CASE UNCHANGED C!vars
  BY <1>1 DEF C!vars
<1>2. CASE C!Next
  <2> process = "up"
    BY <1>2 DEF C!Next
  <2>1. CASE C!Accepted
    BY <2>1 DEF C!Accepted
  <2>2. CASE C!AcceptFails
    BY <2>2 DEF C!AcceptFails
  <2>3. CASE C!Start
    BY <2>3 DEF C!Start
  <2>4. CASE C!Insert
    BY <2>4 DEF C!Insert, C!Locked
  <2>5. CASE C!Release
    BY <2>5 DEF C!Release, C!Locked
  <2>6. CASE C!PeerActs
    BY <2>6 DEF C!PeerActs
  <2>7. CASE C!ReadHead
    BY <2>7 DEF C!ReadHead
  <2>8. CASE C!HeadIsValid
    BY <2>8 DEF C!HeadIsValid
  <2>9. CASE C!HeadIsInvalid
    BY <2>9 DEF C!HeadIsInvalid
  <2>10. CASE C!Throws
    BY <2>10 DEF C!Throws
  <2>11. CASE C!Close
    BY <2>11 DEF C!Close, C!Erase
  <2>12. CASE C!ClearSession
    BY <2>12 DEF C!ClearSession, C!Erase
  <2>13. CASE C!Signal
    BY <2>13 DEF C!Signal
  <2>14. CASE C!Stop
    BY <2>14 DEF C!Stop, C!Alive
  <2> QED
    BY <1>2, <2>1, <2>2, <2>3, <2>4, <2>5, <2>6, <2>7,
       <2>8, <2>9, <2>10, <2>11, <2>12, <2>13, <2>14 DEF C!Next
<1> QED
  BY <1>1, <1>2

\* The coroutine is never left reading without a session, although it holds no
\* reference to it; the thread that has locked itself out never keeps
\* HandleAccept from the mutex; and a normal exit after an accept there is only
\* if the session closed before HandleAccept had returned
\* (CSession.h:60, Cserver.h:23, 34).
THEOREM CoServerSafeAlways == Spec => []CoServerSafe
<1>1. Init => CoInv
  BY CoInvInit DEF Init
<1>2. CoInv /\ [Next]_vars => CoInv'
  BY StepsOfOne, CoInvStep
<1>3. CoInv => CoServerSafe
  BY CoInvSafe DEF CoServerSafe
<1> QED
  BY <1>1, <1>2, <1>3, PTL DEF Spec

-----------------------------------------------------------------------------
(***************************************************************************)
(* ApiSession.  The bytes on the wire are ascending, and the last of them   *)
(* is at most the one before what the front node holds: a partial transfer  *)
(* moves that on, and a node that is popped is followed by one of a later   *)
(* message, whatever its count carries over.                                *)
(***************************************************************************)

Node == [msg : Nat, _total_len : Nat, _cur_len : Nat]
Position == Nat \X Nat

\* A byte that is on the wire before what the node has left.
Past(x, node) == x[1] < node.msg \/ (x[1] = node.msg /\ x[2] <= node._cur_len)

\* The queue, and a wire that it has not overtaken.
Queued(q, w, n) ==
  /\ q \in Seq(Node) /\ w \in Seq(Position)
  /\ \A i, j \in 1..Len(q) : i < j => q[i].msg < q[j].msg
  /\ \A i \in 1..Len(q) : q[i].msg <= n
  /\ \A i \in 1..Len(w) : w[i][1] <= n
  /\ q # << >> => \A i \in 1..Len(w) : Past(w[i], q[1])
  /\ \A i \in 1..Len(w) - 1 : A!Before(w[i], w[i + 1])

ApiSend == /\ Queued(_send_queue, wire, sent) /\ sent \in Nat
           /\ _send_pending \in BOOLEAN
           /\ writing # << >> => /\ _send_pending = TRUE /\ _send_queue # << >>
                                 /\ writing = A!Rest(_send_queue[1])
           /\ _send_queue # << >> => _send_pending = TRUE

ApiRecv == /\ _recv_pending \in BOOLEAN
           /\ _recv_node = << >> \/ \E n \in Nat : _recv_node = <<n>>
           /\ reading # "none" => /\ _recv_pending = TRUE /\ _recv_node # << >>
                                  /\ _recv_node[1] < RECVSIZE
           /\ arrived \in Nat

ApiInv == ApiSend /\ ApiRecv

LEMMA QueuedEmpty == Queued(<< >>, << >>, 0)
BY DEF Queued

LEMMA ApiInvInit == A!Init => ApiInv
<1> SUFFICES ASSUME A!Init PROVE ApiInv
  OBVIOUS
<1>1. Queued(_send_queue, wire, sent)
  BY QueuedEmpty, Zenon DEF A!Init
<1> QED
  BY <1>1 DEF A!Init, ApiInv, ApiSend, ApiRecv

LEMMA ApiInvSafe == ApiInv => A!ApiSessionSafe
BY DEF ApiInv, ApiSend, ApiRecv, Queued, A!ApiSessionSafe

-----------------------------------------------------------------------------
(* What WriteToSocket and WriteCallBack do to the queue and the wire. *)

\* The node of a new message is behind all others, and no byte of it is written.
LEMMA QueuedAppend ==
  ASSUME NEW q, NEW w, NEW n \in Nat, Queued(q, w, n),
         NEW node \in Node, node.msg = n + 1
  PROVE  Queued(Append(q, node), w, n + 1)
<1> DEFINE r == Append(q, node)
<1>1. /\ q \in Seq(Node) /\ Len(q) \in Nat /\ w \in Seq(Position)
      /\ r \in Seq(Node) /\ Len(r) = Len(q) + 1 /\ r[Len(q) + 1] = node
      /\ \A i \in 1..Len(q) : r[i] = q[i] /\ q[i] \in Node
  BY DEF Queued
<1> HIDE DEF r
<1>2. \A i \in 1..Len(q) : q[i].msg \in Nat
  BY <1>1 DEF Node
<1>3. \A i \in 1..Len(w) : w[i][1] \in Nat /\ w[i][1] <= n
  BY <1>1 DEF Queued, Position
<1>4. \A i \in 1..Len(r) : r[i].msg <= n + 1
  <2> SUFFICES ASSUME NEW i \in 1..Len(r) PROVE r[i].msg <= n + 1
    OBVIOUS
  <2>1. CASE i = Len(q) + 1
    BY <2>1, <1>1
  <2>2. CASE i \in 1..Len(q)
    BY <2>2, <1>1, <1>2 DEF Queued
  <2> QED
    BY <1>1, <2>1, <2>2
<1>5. \A i, j \in 1..Len(r) : i < j => r[i].msg < r[j].msg
  <2> SUFFICES ASSUME NEW i \in 1..Len(r), NEW j \in 1..Len(r), i < j
               PROVE  r[i].msg < r[j].msg
    OBVIOUS
  <2>1. i \in 1..Len(q) /\ r[i] = q[i] /\ q[i].msg \in Nat /\ q[i].msg <= n
    BY <1>1, <1>2 DEF Queued
  <2>2. CASE j = Len(q) + 1
    BY <2>1, <2>2, <1>1
  <2>3. CASE j \in 1..Len(q)
    BY <2>1, <2>3, <1>1 DEF Queued
  <2> QED
    BY <1>1, <2>2, <2>3
<1>6. \A i \in 1..Len(w) : Past(w[i], r[1])
  <2>1. CASE q = << >>
    <3>1. r[1].msg = n + 1
      BY <2>1, <1>1
    <3> QED
      BY <3>1, <1>3 DEF Past
  <2>2. CASE q # << >>
    <3>1. r[1] = q[1]
      BY <2>2, <1>1
    <3> QED
      BY <2>2, <3>1 DEF Queued
  <2> QED
    BY <2>1, <2>2
<1>7. \A i \in 1..Len(w) : w[i][1] <= n + 1
  BY <1>3
<1>8. Queued(r, w, n + 1)
  BY <1>1, <1>4, <1>5, <1>6, <1>7 DEF Queued
<1> QED
  BY <1>8 DEF r

\* The node after a transfer, and the rest of it.
LEMMA CountedNode ==
  ASSUME NEW node \in Node, NEW bytes \in Nat
  PROVE  /\ A!Counted(node, bytes) \in Node
         /\ A!Counted(node, bytes).msg = node.msg
         /\ A!Counted(node, bytes)._cur_len = node._cur_len + bytes
         /\ A!Counted(node, bytes)._total_len = node._total_len
         /\ A!Rest(node)[1] = node.msg /\ A!Rest(node)[2] = node._cur_len
         /\ A!Rest(node)[3] = node._total_len
BY DEF Node, A!Counted, A!Rest

\* The bytes of a transfer, behind those that are on the wire.
Transferred(node, bytes) == [i \in 1..bytes |-> <<node.msg, node._cur_len + i>>]

LEMMA TransferredBytes ==
  ASSUME NEW node \in Node, NEW bytes \in Nat
  PROVE  /\ Transferred(node, bytes) \in Seq(Position)
         /\ Len(Transferred(node, bytes)) = bytes
         /\ \A i \in 1..bytes : Transferred(node, bytes)[i] = <<node.msg, node._cur_len + i>>
<1> DEFINE t == Transferred(node, bytes)
<1>1. node.msg \in Nat /\ node._cur_len \in Nat
  BY DEF Node
<1>2. \A i \in 1..bytes : <<node.msg, node._cur_len + i>> \in Position
  BY <1>1 DEF Position
<1>3. t \in [1..bytes -> Position]
  BY <1>2, Zenon DEF Transferred
<1>4. \A i \in 1..bytes : t[i] = <<node.msg, node._cur_len + i>>
  BY Zenon DEF Transferred
<1> HIDE DEF t
<1>5. t \in Seq(Position) /\ Len(t) = bytes
  BY <1>3
<1> QED
  BY <1>4, <1>5 DEF t

\* A concatenation, element by element.
IsJoined(v, s, t) == /\ Len(v) = Len(s) + Len(t)
                     /\ \A i \in 1..Len(s) : v[i] = s[i]
                     /\ \A i \in 1..Len(t) : v[Len(s) + i] = t[i]

LEMMA Joined ==
  ASSUME NEW T, NEW s \in Seq(T), NEW t \in Seq(T)
  PROVE  s \o t \in Seq(T) /\ IsJoined(s \o t, s, t)
<1>1. s \o t \in Seq(T) /\ Len(s \o t) = Len(s) + Len(t)
  BY ConcatProperties
<1>2. \A i \in 1..Len(s) : (s \o t)[i] = s[i]
  OBVIOUS
<1>3. ASSUME NEW i \in 1..Len(t) PROVE (s \o t)[Len(s) + i] = t[i]
  OBVIOUS
<1> QED
  BY <1>1, <1>2, <1>3 DEF IsJoined

LEMMA WireGrows ==
  ASSUME NEW q, NEW w, NEW n \in Nat, Queued(q, w, n), q # << >>, NEW bytes \in Nat \ {0}
  PROVE  LET v == w \o Transferred(q[1], bytes) IN
         /\ v \in Seq(Position)
         /\ \A i \in 1..Len(v) : v[i][1] <= n /\ v[i] \in Position
         /\ \A i \in 1..Len(v) : Past(v[i], A!Counted(q[1], bytes))
         /\ \A i \in 1..Len(v) - 1 : A!Before(v[i], v[i + 1])
<1> DEFINE node == q[1]
           t == Transferred(node, bytes)
           v == w \o t
<1>1. /\ q \in Seq(Node) /\ Len(q) \in Nat \ {0} /\ w \in Seq(Position) /\ Len(w) \in Nat
      /\ node \in Node /\ node.msg <= n
      /\ \A i \in 1..Len(w) : w[i] \in Position /\ w[i][1] <= n /\ Past(w[i], node)
  BY DEF Queued
<1>2. /\ t \in Seq(Position) /\ Len(t) = bytes
      /\ \A i \in 1..bytes : t[i] = <<node.msg, node._cur_len + i>>
  BY <1>1, TransferredBytes
<1>3. node.msg \in Nat /\ node._cur_len \in Nat
  BY <1>1 DEF Node
<1>4. /\ A!Counted(node, bytes).msg = node.msg
      /\ A!Counted(node, bytes)._cur_len = node._cur_len + bytes
  BY <1>1, CountedNode
<1> HIDE DEF t, node
<1>5. /\ v \in Seq(Position) /\ Len(v) = Len(w) + bytes
      /\ \A i \in 1..Len(w) : v[i] = w[i]
      /\ \A i \in 1..bytes : v[Len(w) + i] = t[i]
  <2>1. v \in Seq(Position) /\ IsJoined(v, w, t)
    BY <1>1, <1>2, Joined
  <2> QED
    BY <2>1, <1>2 DEF IsJoined
<1> HIDE DEF v
<1>6. ASSUME NEW i \in 1..Len(v)
      PROVE  \/ i \in 1..Len(w) /\ v[i] = w[i]
             \/ \E k \in 1..bytes : i = Len(w) + k /\ v[i] = <<node.msg, node._cur_len + k>>
  <2>1. CASE i \in 1..Len(w)
    BY <2>1, <1>5
  <2>2. CASE i \notin 1..Len(w)
    <3>1. i - Len(w) \in 1..bytes /\ i = Len(w) + (i - Len(w))
      BY <2>2, <1>1, <1>5
    <3>2. v[Len(w) + (i - Len(w))] = t[i - Len(w)]
      BY <3>1, <1>5
    <3> QED
      BY <3>1, <3>2, <1>2
  <2> QED
    BY <2>1, <2>2
<1>7. ASSUME NEW i \in 1..Len(v)
      PROVE  v[i][1] <= n /\ v[i] \in Position /\ Past(v[i], A!Counted(node, bytes))
  <2>1. CASE i \in 1..Len(w) /\ v[i] = w[i]
    <3>1. v[i] \in Position /\ v[i][1] <= n /\ Past(v[i], node)
      BY <2>1, <1>1
    <3>2. v[i][1] \in Nat /\ v[i][2] \in Nat
      BY <3>1 DEF Position
    <3> QED
      BY <3>1, <3>2, <1>3, <1>4 DEF Past
  <2>2. ASSUME NEW k \in 1..bytes, v[i] = <<node.msg, node._cur_len + k>>
        PROVE  v[i][1] <= n /\ v[i] \in Position /\ Past(v[i], A!Counted(node, bytes))
    <3>1. v[i][1] = node.msg /\ v[i][2] = node._cur_len + k /\ v[i] \in Position
      BY <2>2, <1>3 DEF Position
    <3> QED
      BY <3>1, <1>1, <1>3, <1>4 DEF Past
  <2> QED
    BY <2>1, <2>2, <1>6
<1>8. ASSUME NEW i \in 1..Len(v) - 1
      PROVE  A!Before(v[i], v[i + 1])
  <2>1. i \in 1..Len(v) /\ i + 1 \in 1..Len(v) /\ i \in Nat
    BY <1>1, <1>5
  <2>2. CASE i + 1 \in 1..Len(w) /\ v[i + 1] = w[i + 1]
    <3>1. i \in 1..Len(w) - 1 /\ v[i] = w[i]
      BY <2>1, <2>2, <1>1, <1>5
    <3> QED
      BY <2>2, <3>1 DEF Queued
  <2>3. ASSUME NEW k \in 1..bytes, i + 1 = Len(w) + k,
               v[i + 1] = <<node.msg, node._cur_len + k>>
        PROVE  A!Before(v[i], v[i + 1])
    <3>1. CASE k = 1
      <4>1. i \in 1..Len(w) /\ v[i] = w[i]
        BY <2>1, <2>3, <3>1, <1>1, <1>5
      <4>2. Past(v[i], node) /\ v[i][1] \in Nat /\ v[i][2] \in Nat
        BY <4>1, <1>1 DEF Position
      <4> QED
        BY <4>2, <2>3, <3>1, <1>3 DEF Past, A!Before
    <3>2. CASE k # 1
      <4>1. k - 1 \in 1..bytes /\ i = Len(w) + (k - 1)
        BY <2>1, <2>3, <3>2, <1>1
      <4>2. v[i] = <<node.msg, node._cur_len + (k - 1)>>
        BY <4>1, <1>2, <1>5
      <4> QED
        BY <4>2, <2>3, <1>3 DEF A!Before
    <3> QED
      BY <3>1, <3>2
  <2> QED
    BY <2>1, <2>2, <2>3, <1>6
<1> QED
  BY <1>5, <1>7, <1>8 DEF v, t, node

\* A front node that is given bytes, and one that is popped.
LEMMA FrontReplaced ==
  ASSUME NEW q, NEW n \in Nat, NEW node \in Node, q # << >>,
         q \in Seq(Node), node.msg = q[1].msg,
         \A i, j \in 1..Len(q) : i < j => q[i].msg < q[j].msg,
         \A i \in 1..Len(q) : q[i].msg <= n
  PROVE  LET r == [q EXCEPT ![1] = node] IN
         /\ r \in Seq(Node) /\ r # << >> /\ r[1] = node
         /\ \A i, j \in 1..Len(r) : i < j => r[i].msg < r[j].msg
         /\ \A i \in 1..Len(r) : r[i].msg <= n
<1> DEFINE r == [q EXCEPT ![1] = node]
<1>1. Len(q) \in Nat \ {0} /\ 1 \in 1..Len(q)
  OBVIOUS
<1>2. r \in Seq(Node) /\ Len(r) = Len(q) /\ r[1] = node
  BY <1>1
<1>3. \A i \in 1..Len(q) : r[i].msg = q[i].msg
  BY <1>1
<1> HIDE DEF r
<1>4. r # << >>
  BY <1>1, <1>2
<1> QED
  BY <1>2, <1>3, <1>4 DEF r

LEMMA FrontPopped ==
  ASSUME NEW q, NEW n \in Nat, q # << >>, q \in Seq(Node),
         \A i, j \in 1..Len(q) : i < j => q[i].msg < q[j].msg,
         \A i \in 1..Len(q) : q[i].msg <= n
  PROVE  LET r == Tail(q) IN
         /\ r \in Seq(Node)
         /\ \A i, j \in 1..Len(r) : i < j => r[i].msg < r[j].msg
         /\ \A i \in 1..Len(r) : r[i].msg <= n
         /\ r # << >> => r[1] \in Node /\ q[1].msg < r[1].msg
<1> DEFINE r == Tail(q)
<1>1. Len(q) \in Nat \ {0}
  OBVIOUS
<1>2. r \in Seq(Node) /\ Len(r) = Len(q) - 1 /\ \A i \in 1..Len(r) : r[i] = q[i + 1]
  BY <1>1
<1> HIDE DEF r
<1>3. \A i \in 1..Len(r) : i + 1 \in 1..Len(q)
  BY <1>1, <1>2
<1>4. \A i, j \in 1..Len(r) : i < j => r[i].msg < r[j].msg
  <2> SUFFICES ASSUME NEW i \in 1..Len(r), NEW j \in 1..Len(r), i < j
               PROVE  r[i].msg < r[j].msg
    OBVIOUS
  <2> QED
    BY <1>2, <1>3
<1>5. \A i \in 1..Len(r) : r[i].msg <= n
  BY <1>2, <1>3
<1>6. ASSUME r # << >> PROVE r[1] \in Node /\ q[1].msg < r[1].msg
  <2>1. 1 \in 1..Len(r) /\ r[1] = q[2] /\ 1 \in 1..Len(q) /\ 2 \in 1..Len(q)
    BY <1>1, <1>2, <1>6
  <2> QED
    BY <2>1
<1> QED
  BY <1>2, <1>4, <1>5, <1>6 DEF r

\* A transfer that leaves something of its node.
LEMMA QueuedPart ==
  ASSUME NEW q, NEW w, NEW n \in Nat, Queued(q, w, n), q # << >>, NEW bytes \in Nat \ {0}
  PROVE  Queued([q EXCEPT ![1] = A!Counted(q[1], bytes)], w \o Transferred(q[1], bytes), n)
<1> DEFINE node == A!Counted(q[1], bytes)
           r == [q EXCEPT ![1] = node]
           v == w \o Transferred(q[1], bytes)
<1>1. q \in Seq(Node) /\ q[1] \in Node
  BY DEF Queued
<1>2. node \in Node /\ node.msg = q[1].msg
  BY <1>1, CountedNode
<1>3. /\ v \in Seq(Position)
      /\ \A i \in 1..Len(v) : v[i][1] <= n
      /\ \A i \in 1..Len(v) : Past(v[i], node)
      /\ \A i \in 1..Len(v) - 1 : A!Before(v[i], v[i + 1])
  BY WireGrows
<1> HIDE DEF node, v
<1>4. /\ r \in Seq(Node) /\ r # << >> /\ r[1] = node
      /\ \A i, j \in 1..Len(r) : i < j => r[i].msg < r[j].msg
      /\ \A i \in 1..Len(r) : r[i].msg <= n
  BY <1>1, <1>2, FrontReplaced DEF Queued
<1> HIDE DEF r
<1>5. Queued(r, v, n)
  BY <1>3, <1>4 DEF Queued
<1> QED
  BY <1>5 DEF r, v, node

\* One that ends its node.
LEMMA QueuedPop ==
  ASSUME NEW q, NEW w, NEW n \in Nat, Queued(q, w, n), q # << >>, NEW bytes \in Nat \ {0}
  PROVE  LET v == w \o Transferred(q[1], bytes) IN
         /\ Tail(q) = << >> => Queued(<< >>, v, n)
         /\ Tail(q) # << >> =>
              Queued([Tail(q) EXCEPT ![1] = A!Counted(Tail(q)[1], bytes)], v, n)
<1> DEFINE v == w \o Transferred(q[1], bytes)
           rest == Tail(q)
           next == A!Counted(rest[1], bytes)
           r == [rest EXCEPT ![1] = next]
<1>1. q \in Seq(Node) /\ q[1] \in Node /\ q[1].msg \in Nat /\ q[1].msg <= n
  <2>1. q \in Seq(Node) /\ 1 \in 1..Len(q)
    BY DEF Queued
  <2>2. q[1] \in Node /\ q[1].msg <= n
    BY <2>1 DEF Queued
  <2> QED
    BY <2>1, <2>2 DEF Node
<1>2. A!Counted(q[1], bytes).msg = q[1].msg
  BY <1>1, CountedNode
<1>3. /\ v \in Seq(Position)
      /\ \A i \in 1..Len(v) : v[i][1] <= n /\ v[i] \in Position
      /\ \A i \in 1..Len(v) : Past(v[i], A!Counted(q[1], bytes))
      /\ \A i \in 1..Len(v) - 1 : A!Before(v[i], v[i + 1])
  BY WireGrows
<1> HIDE DEF v
<1>4. /\ rest \in Seq(Node)
      /\ \A i, j \in 1..Len(rest) : i < j => rest[i].msg < rest[j].msg
      /\ \A i \in 1..Len(rest) : rest[i].msg <= n
      /\ rest # << >> => rest[1] \in Node /\ q[1].msg < rest[1].msg
  BY <1>1, FrontPopped DEF Queued
<1> HIDE DEF rest
<1>5. Queued(<< >>, v, n)
  <2>1. << >> \in Seq(Node) /\ Len(<< >>) = 0
    OBVIOUS
  <2> QED
    BY <1>3, <2>1 DEF Queued
<1>6. ASSUME rest # << >> PROVE Queued(r, v, n)
  <2>1. next \in Node /\ next.msg = rest[1].msg /\ next.msg \in Nat
    BY <1>4, <1>6, CountedNode DEF Node
  <2>2. \A i \in 1..Len(v) : Past(v[i], next)
    <3> SUFFICES ASSUME NEW i \in 1..Len(v) PROVE v[i][1] < next.msg
      BY DEF Past
    <3>1. v[i][1] \in Nat /\ Past(v[i], A!Counted(q[1], bytes))
      BY <1>3 DEF Position
    <3>2. v[i][1] <= q[1].msg
      BY <3>1, <1>1, <1>2 DEF Past
    <3> QED
      BY <3>1, <3>2, <1>1, <1>4, <1>6, <2>1
  <2> HIDE DEF next
  <2>3. /\ r \in Seq(Node) /\ r # << >> /\ r[1] = next
        /\ \A i, j \in 1..Len(r) : i < j => r[i].msg < r[j].msg
        /\ \A i \in 1..Len(r) : r[i].msg <= n
    BY <1>4, <1>6, <2>1, FrontReplaced
  <2> HIDE DEF r
  <2> QED
    BY <1>3, <2>2, <2>3 DEF Queued
<1> QED
  BY <1>5, <1>6 DEF v, rest, next, r

-----------------------------------------------------------------------------
(* The steps of ApiSession. *)

LEMMA ApiSendFront ==
  ASSUME ApiSend, writing # << >>
  PROVE  /\ _send_queue # << >> /\ _send_queue \in Seq(Node) /\ _send_queue[1] \in Node
         /\ writing[1] = _send_queue[1].msg /\ writing[2] = _send_queue[1]._cur_len
         /\ _send_pending = TRUE
<1>1. /\ _send_queue # << >> /\ _send_queue \in Seq(Node) /\ writing = A!Rest(_send_queue[1])
      /\ _send_pending = TRUE
  BY DEF ApiSend, Queued
<1>2. _send_queue[1] \in Node
  BY <1>1
<1> QED
  BY <1>1, <1>2, CountedNode

LEMMA ApiWriteToSocket ==
  ASSUME ApiInv, NEW len \in Nat, A!WriteToSocket(len)
  PROVE  ApiInv'
<1> DEFINE node == A!MsgNode(len)
<1>1. /\ sent' = sent + 1
      /\ _send_queue' = Append(_send_queue, node)
      /\ IF _send_pending
         THEN UNCHANGED <<_send_pending, writing>>
         ELSE _send_pending' = TRUE /\ writing' = A!Rest(node)
      /\ UNCHANGED <<wire, A!recv>>
  BY DEF A!WriteToSocket
<1>2. sent \in Nat /\ node \in Node /\ node.msg = sent + 1
  BY DEF ApiInv, ApiSend, Node, A!MsgNode
<1> HIDE DEF node
<1>3. Queued(_send_queue', wire', sent')
  <2>1. Queued(Append(_send_queue, node), wire, sent + 1)
    BY <1>2, QueuedAppend DEF ApiInv, ApiSend
  <2> QED
    BY <1>1, <2>1, Zenon
<1>4. _send_queue \in Seq(Node) /\ _send_queue' # << >>
  BY <1>1, <1>2 DEF ApiInv, ApiSend, Queued
<1>5. CASE _send_pending = TRUE
  <2>1. writing' # << >> => writing' = A!Rest(_send_queue'[1])
    <3> SUFFICES ASSUME writing' # << >> PROVE writing' = A!Rest(_send_queue'[1])
      OBVIOUS
    <3>1. writing' = writing
      BY <1>1, <1>5
    <3>2. _send_queue # << >> /\ writing = A!Rest(_send_queue[1])
      BY <3>1 DEF ApiInv, ApiSend
    <3>3. _send_queue'[1] = _send_queue[1]
      BY <1>1, <1>2, <1>4, <3>2
    <3> QED
      BY <3>1, <3>2, <3>3, Zenon
  <2> QED
    BY <1>1, <1>2, <1>3, <1>4, <1>5, <2>1 DEF ApiInv, ApiSend, ApiRecv, A!recv
<1>6. CASE _send_pending = FALSE
  <2>1. _send_queue'[1] = node
    BY <1>1, <1>2, <1>4, <1>6 DEF ApiInv, ApiSend
  <2>2. writing' = A!Rest(_send_queue'[1]) /\ _send_pending' = TRUE
    BY <1>1, <1>6, <2>1
  <2> QED
    BY <1>1, <1>2, <1>3, <1>4, <2>2 DEF ApiInv, ApiSend, ApiRecv, A!recv
<1> QED
  BY <1>5, <1>6 DEF ApiInv, ApiSend

LEMMA ApiWritten ==
  ASSUME ApiInv, NEW bytes \in Nat \ {0}, writing # << >>, A!WriteCallBack(bytes)
  PROVE  ApiInv'
<1> DEFINE q == _send_queue
           node == A!Counted(q[1], bytes)
           rest == Tail(q)
           next == A!Counted(rest[1], bytes)
           v == wire \o Transferred(q[1], bytes)
<1>1. /\ q # << >> /\ q \in Seq(Node) /\ q[1] \in Node
      /\ writing[1] = q[1].msg /\ writing[2] = q[1]._cur_len /\ _send_pending = TRUE
      /\ Queued(q, wire, sent) /\ sent \in Nat
  BY ApiSendFront DEF ApiInv, ApiSend
<1>2. wire' = v /\ sent' = sent /\ UNCHANGED A!recv
  BY <1>1 DEF A!WriteCallBack, Transferred
<1>3. CASE node._cur_len < node._total_len
  <2>1. /\ _send_queue' = [q EXCEPT ![1] = node]
        /\ writing' = A!WriteRest(node) /\ _send_pending' = _send_pending
    BY <1>3 DEF A!WriteCallBack
  <2>2. writing' = A!Rest(node)
    BY <1>3, <2>1 DEF A!WriteRest
  <2>3. Queued([q EXCEPT ![1] = node], v, sent)
    BY <1>1, QueuedPart
  <2> HIDE DEF v, node
  <2>4. Queued(_send_queue', wire', sent')
    BY <2>1, <2>3, <1>2, Zenon
  <2>5. _send_queue' # << >> /\ _send_queue'[1] = node
    BY <1>1, <2>1
  <2> QED
    BY <1>1, <1>2, <2>1, <2>2, <2>4, <2>5 DEF ApiInv, ApiSend, ApiRecv, A!recv
<1>4. CASE ~(node._cur_len < node._total_len) /\ rest = << >>
  <2>1. _send_queue' = << >> /\ _send_pending' = FALSE /\ writing' = << >>
    BY <1>4 DEF A!WriteCallBack
  <2>2. Queued(<< >>, v, sent)
    BY <1>1, <1>4, QueuedPop
  <2> HIDE DEF v
  <2>3. Queued(_send_queue', wire', sent')
    BY <2>1, <2>2, <1>2, Zenon
  <2> QED
    BY <1>1, <1>2, <2>1, <2>3 DEF ApiInv, ApiSend, ApiRecv, A!recv
<1>5. CASE ~(node._cur_len < node._total_len) /\ rest # << >>
  <2>1. /\ _send_queue' = [rest EXCEPT ![1] = next]
        /\ writing' = A!WriteRest(next) /\ _send_pending' = _send_pending
    BY <1>5 DEF A!WriteCallBack
  <2>2. Queued([rest EXCEPT ![1] = next], v, sent)
    BY <1>1, <1>5, QueuedPop
  <2>3. rest \in Seq(Node)
    BY <1>1
  <2>4. writing' # << >> => writing' = A!Rest(next)
    BY <2>1 DEF A!WriteRest
  <2> HIDE DEF v, next, rest
  <2>5. Queued(_send_queue', wire', sent')
    BY <2>1, <2>2, <1>2, Zenon
  <2>6. _send_queue' # << >> /\ _send_queue'[1] = next
    BY <1>5, <2>1, <2>3
  <2> QED
    BY <1>1, <1>2, <2>1, <2>4, <2>5, <2>6 DEF ApiInv, ApiSend, ApiRecv, A!recv
<1> QED
  BY <1>3, <1>4, <1>5

LEMMA ApiReads ==
  ASSUME A!ApiSessionAssumption, ApiInv, NEW b, b \in A!Transfers,
         A!ReadCallBack(b) \/ A!ReadAllCallBack(b)
  PROVE  ApiInv'
<1>1. PICK n \in Nat : _recv_node = <<n>> /\ n < RECVSIZE /\ reading # "none"
  BY DEF ApiInv, ApiRecv, A!ReadCallBack, A!ReadAllCallBack
<1>2. b \in Nat /\ b <= arrived /\ arrived \in Nat
  BY DEF A!Transfers, ApiInv, ApiRecv
<1>3. arrived' \in Nat /\ UNCHANGED A!send
  BY <1>2 DEF A!ReadCallBack, A!ReadAllCallBack
<1>4. ApiSend'
  BY <1>3 DEF ApiInv, ApiSend, A!send
<1>5. CASE A!ReadCallBack(b)
  <2>1. _recv_node' = <<n + b>> /\ n + b \in Nat /\ _recv_pending = TRUE
    BY <1>1, <1>2, <1>5 DEF A!ReadCallBack, ApiInv, ApiRecv
  <2>0. _recv_node'[1] = n + b
    BY <2>1
  <2>2. CASE n + b < RECVSIZE
    <3>1. UNCHANGED <<reading, _recv_pending>>
      BY <1>5, <2>0, <2>2, Zenon DEF A!ReadCallBack
    <3> QED
      BY <1>3, <1>4, <2>1, <2>2, <3>1 DEF ApiInv, ApiRecv
  <2>3. CASE ~(n + b < RECVSIZE)
    <3>1. reading' = "none" /\ _recv_pending' = FALSE
      BY <1>5, <2>0, <2>3, Zenon DEF A!ReadCallBack
    <3> QED
      BY <1>3, <1>4, <2>1, <3>1 DEF ApiInv, ApiRecv
  <2> QED
    BY <2>2, <2>3
<1>6. CASE A!ReadAllCallBack(b)
  BY <1>3, <1>4, <1>6 DEF A!ReadAllCallBack, ApiInv, ApiRecv
<1> QED
  BY <1>5, <1>6

LEMMA ApiInvStep ==
  ASSUME A!ApiSessionAssumption
  PROVE  ApiInv /\ [A!Next]_(A!vars) => ApiInv'
<1> SUFFICES ASSUME ApiInv, [A!Next]_(A!vars) PROVE ApiInv'
  OBVIOUS
<1>1. CASE UNCHANGED A!vars
  BY <1>1 DEF A!vars, A!send, A!recv, ApiInv, ApiSend, ApiRecv
<1>2. ASSUME NEW len \in 1..MaxLen, A!WriteToSocket(len) \/ A!WriteAllToSocket(len)
      PROVE  ApiInv'
  BY <1>2, ApiWriteToSocket DEF A!WriteAllToSocket, A!ApiSessionAssumption
<1>3. CASE A!Written
  <2>1. PICK bytes \in 1..MaxLen : writing # << >> /\ A!WriteCallBack(bytes)
    BY <1>3 DEF A!Written
  <2>2. bytes \in Nat \ {0}
    BY DEF A!ApiSessionAssumption
  <2> QED
    BY <2>1, <2>2, ApiWritten
<1>4. CASE A!WriteFails
  BY <1>4 DEF A!WriteFails, A!recv, ApiInv, ApiSend, ApiRecv
<1>5. CASE A!ReadFromSocket \/ A!ReadAllFromSocket
  <2>1. /\ _recv_node' = <<0>> /\ _recv_pending' = TRUE
        /\ UNCHANGED <<arrived, eof, A!send>>
    BY <1>5 DEF A!ReadFromSocket, A!ReadAllFromSocket, A!Read
  <2> QED
    BY <2>1 DEF A!send, A!ApiSessionAssumption, ApiInv, ApiSend, ApiRecv
<1>6. ASSUME NEW b \in A!Transfers, A!ReadCallBack(b) \/ A!ReadAllCallBack(b)
      PROVE  ApiInv'
  BY <1>6, ApiReads
<1>7. CASE A!Peer
  BY <1>7 DEF A!Peer, A!send, ApiInv, ApiSend, ApiRecv
<1> QED
  BY <1>1, <1>2, <1>3, <1>4, <1>5, <1>6, <1>7 DEF A!Next

\* However long the messages are and however their writes are cut, no byte comes
\* on the wire twice or ahead of an earlier one, although a count is carried over
\* to the next node; a write only ever offers the bytes of the front node, and
\* the session is pending when it has stopped writing; and a read has a node to
\* read into that has room (Asycapi.cpp:67, 83, 96).
THEOREM ApiSessionSafeAlways == Spec => []ApiSessionSafe
<1>1. Init => ApiInv
  BY AsioAssumption, ApiInvInit DEF Init, AsioAssumption
<1>2. ApiInv /\ [Next]_vars => ApiInv'
  BY AsioAssumption, StepsOfOne, ApiInvStep DEF AsioAssumption
<1>3. ApiInv => ApiSessionSafe
  BY AsioAssumption, ApiInvSafe DEF ApiSessionSafe, AsioAssumption
<1> QED
  BY <1>1, <1>2, <1>3, PTL DEF Spec

-----------------------------------------------------------------------------
(***************************************************************************)
(* SyncEcho.  The stream of all frames is numbered by its bytes: frame      *)
(* f + 1 has those after Start(f).  What the receive thread has read of a   *)
(* head or a body, the two sockets, the chunk of the server and the request *)
(* are adjacent pieces of that stream, in this order, whatever the calls    *)
(* move from one to the next; they end where the last frame begun ends.     *)
(***************************************************************************)

Length == HEAD_LENGTH + Body
Start(f) == f * Length

\* The byte x is the one at position p of the stream.
At(x, p) == \E f \in Nat, i \in 1..Length : x = <<f + 1, i>> /\ p = Start(f) + i

Piece(s, p) == \A i \in 1..Len(s) : At(s[i], p + i)
Adjacent(s, t, p) == Piece(s, p) /\ Piece(t, p + Len(s))

LEMMA LengthType ==
  ASSUME E!SyncEchoAssumption
  PROVE  /\ HEAD_LENGTH \in Nat \ {0} /\ Body \in Nat \ {0} /\ Length \in Nat \ {0}
         /\ Length = HEAD_LENGTH + Body
BY DEF E!SyncEchoAssumption, Length

\* A frame begins where the one before it ends.
LEMMA StartNext ==
  ASSUME E!SyncEchoAssumption, NEW f \in Nat
  PROVE  Start(f) \in Nat /\ Start(f + 1) = Start(f) + Length
<1>1. Length \in Nat
  BY LengthType
<1>2. \A l \in Nat : f * l \in Nat /\ (f + 1) * l = f * l + l
  OBVIOUS
<1> QED
  BY <1>1, <1>2 DEF Start

LEMMA StartGrows ==
  ASSUME E!SyncEchoAssumption, NEW f \in Nat, NEW g \in Nat, f < g
  PROVE  Start(f) + Length <= Start(g)
<1>1. Length \in Nat
  BY LengthType
<1>2. ASSUME NEW l \in Nat PROVE f * l + l <= g * l
  <2>1. PICK d \in Nat : g = f + 1 + d
    <3>1. g - f - 1 \in Nat /\ g = f + 1 + (g - f - 1)
      OBVIOUS
    <3> QED
      BY <3>1
  <2>2. (f + 1 + d) * l = f * l + l + d * l
    OBVIOUS
  <2>3. d * l \in Nat /\ f * l \in Nat
    OBVIOUS
  <2>4. g * l = f * l + l + d * l
    BY <2>1, <2>2
  <2> QED
    BY <2>3, <2>4
<1> QED
  BY <1>1, <1>2 DEF Start

\* The stream has one byte at each position.
LEMMA AtFrame ==
  ASSUME E!SyncEchoAssumption, NEW f \in Nat, NEW i \in 1..Length, NEW x, At(x, Start(f) + i)
  PROVE  x = <<f + 1, i>>
<1>1. PICK g \in Nat, j \in 1..Length : x = <<g + 1, j>> /\ Start(f) + i = Start(g) + j
  BY DEF At
<1>2. Length \in Nat /\ Start(f) \in Nat /\ Start(g) \in Nat
  BY LengthType, StartNext
<1>3. f < g => Start(f) + Length <= Start(g)
  BY StartGrows
<1>4. g < f => Start(g) + Length <= Start(f)
  BY StartGrows
<1>5. f = g
  BY <1>1, <1>2, <1>3, <1>4
<1> QED
  BY <1>1, <1>2, <1>5

LEMMA FrameBytes ==
  ASSUME E!SyncEchoAssumption, NEW f \in Nat
  PROVE  /\ E!Frame(f + 1) \in Seq(Position) /\ Len(E!Frame(f + 1)) = Length
         /\ \A i \in 1..Length : E!Frame(f + 1)[i] = <<f + 1, i>>
<1> DEFINE t == E!Frame(f + 1)
<1>1. Length \in Nat /\ 1..HEAD_LENGTH + Body = 1..Length
  BY LengthType
<1>2. \A i \in 1..Length : <<f + 1, i>> \in Position
  BY <1>1 DEF Position
<1>3. t = [i \in 1..Length |-> <<f + 1, i>>]
  BY <1>1, Zenon DEF E!Frame
<1>4. t \in [1..Length -> Position] /\ \A i \in 1..Length : t[i] = <<f + 1, i>>
  BY <1>2, <1>3, Zenon
<1> HIDE DEF t
<1>5. t \in Seq(Position) /\ Len(t) = Length
  BY <1>1, <1>4
<1> QED
  BY <1>4, <1>5 DEF t

LEMMA FramePiece ==
  ASSUME E!SyncEchoAssumption, NEW f \in Nat
  PROVE  Piece(E!Frame(f + 1), Start(f))
<1> SUFFICES ASSUME NEW i \in 1..Length PROVE At(<<f + 1, i>>, Start(f) + i)
  BY FrameBytes DEF Piece
<1> QED
  BY DEF At

\* What is read behind the head of frame f + 1 is the body of it.
LEMMA PieceIsReply ==
  ASSUME E!SyncEchoAssumption, NEW f \in Nat, NEW s \in Seq(Position), Len(s) = Body,
         Piece(s, Start(f) + HEAD_LENGTH)
  PROVE  s = E!Reply(f + 1)
<1> DEFINE t == E!Frame(f + 1)
           r == SubSeq(t, HEAD_LENGTH + 1, HEAD_LENGTH + Body)
<1>1. /\ HEAD_LENGTH \in Nat /\ Body \in Nat /\ Length = HEAD_LENGTH + Body
      /\ Start(f) \in Nat
  BY LengthType, StartNext
<1>2. /\ t \in Seq(Position) /\ Len(t) = HEAD_LENGTH + Body
      /\ \A i \in 1..HEAD_LENGTH + Body : t[i] = <<f + 1, i>>
  BY <1>1, FrameBytes
<1> HIDE DEF t
<1>3. /\ r \in Seq(Position) /\ Len(r) = Body
      /\ \A i \in 1..Body : r[i] = t[HEAD_LENGTH + i]
  BY <1>1, <1>2
<1> HIDE DEF r
<1>4. ASSUME NEW i \in 1..Body PROVE s[i] = r[i]
  <2>1. HEAD_LENGTH + i \in 1..Length /\ HEAD_LENGTH + i \in 1..HEAD_LENGTH + Body
    BY <1>1
  <2>2. At(s[i], Start(f) + (HEAD_LENGTH + i))
    BY <1>1 DEF Piece
  <2>3. s[i] = <<f + 1, HEAD_LENGTH + i>>
    BY <2>1, <2>2, AtFrame
  <2> QED
    BY <2>1, <2>3, <1>2, <1>3
<1>5. s = r
  BY <1>1, <1>3, <1>4
<1> QED
  BY <1>5 DEF r, t, E!Reply

\* Bytes that a call moves from the front of one piece to the end of the piece
\* before it.
IsMoved(u, v, s, t, n) == /\ u \in Seq(Position) /\ v \in Seq(Position)
                          /\ Len(u) = Len(s) + n /\ Len(v) = Len(t) - n

LEMMA Moved ==
  ASSUME NEW s \in Seq(Position), NEW t \in Seq(Position), NEW p \in Nat, Adjacent(s, t, p),
         NEW n \in Nat, n <= Len(t)
  PROVE  /\ IsMoved(s \o E!Take(t, n), E!Drop(t, n), s, t, n)
         /\ Adjacent(s \o E!Take(t, n), E!Drop(t, n), p)
<1> DEFINE a == E!Take(t, n)
           u == s \o a
           v == E!Drop(t, n)
<1>1. /\ a \in Seq(Position) /\ Len(a) = n
      /\ \A i \in 1..n : a[i] = t[i]
  BY DEF E!Take
<1>2. /\ v \in Seq(Position) /\ Len(v) = Len(t) - n
      /\ \A i \in 1..Len(v) : v[i] = t[n + i]
  BY DEF E!Drop
<1> HIDE DEF a, v
<1>3. u \in Seq(Position) /\ IsJoined(u, s, a)
  BY <1>1, Joined
<1> HIDE DEF u
<1>4. Len(s) \in Nat /\ Len(t) \in Nat /\ Len(u) = Len(s) + n
  BY <1>1, <1>3 DEF IsJoined
<1>5. ASSUME NEW i \in 1..Len(u) PROVE At(u[i], p + i)
  <2>1. CASE i \in 1..Len(s)
    BY <2>1, <1>3 DEF IsJoined, Adjacent, Piece
  <2>2. CASE i \notin 1..Len(s)
    <3>1. i - Len(s) \in 1..n /\ i - Len(s) \in 1..Len(t) /\ i = Len(s) + (i - Len(s))
      BY <2>2, <1>4
    <3>2. u[i] = t[i - Len(s)]
      BY <3>1, <1>1, <1>3 DEF IsJoined
    <3>3. At(t[i - Len(s)], p + Len(s) + (i - Len(s)))
      BY <3>1 DEF Adjacent, Piece
    <3>4. p + Len(s) + (i - Len(s)) = p + i
      BY <1>4
    <3> QED
      BY <3>2, <3>3, <3>4
  <2> QED
    BY <2>1, <2>2
<1>6. ASSUME NEW i \in 1..Len(v) PROVE At(v[i], p + Len(u) + i)
  <2>1. n + i \in 1..Len(t)
    BY <1>2, <1>4
  <2>2. At(t[n + i], p + Len(s) + (n + i))
    BY <2>1 DEF Adjacent, Piece
  <2>3. p + Len(s) + (n + i) = p + Len(u) + i
    BY <1>4
  <2> QED
    BY <2>2, <2>3, <1>2
<1>7. Adjacent(u, v, p)
  BY <1>5, <1>6 DEF Adjacent, Piece
<1>8. IsMoved(u, v, s, t, n)
  BY <1>2, <1>3, <1>4 DEF IsMoved
<1> QED
  BY <1>7, <1>8 DEF a, u, v

\* The pieces from byte b on, as far as the end of frame n.
Stream(b, m, s, d, c, r, n) ==
  /\ {m, s, d, c, r} \subseteq Seq(Position)
  /\ Piece(m, b)
  /\ Piece(s, b + Len(m))
  /\ Piece(d, b + Len(m) + Len(s))
  /\ Piece(c, b + Len(m) + Len(s) + Len(d))
  /\ Piece(r, b + Len(m) + Len(s) + Len(d) + Len(c))
  /\ b + Len(m) + Len(s) + Len(d) + Len(c) + Len(r) = Start(n)

Base == Start(Len(replies)) + (IF inBody THEN HEAD_LENGTH ELSE 0)

EchoInv == /\ Stream(Base, msg, s2c, data, c2s, request, frames)
           /\ frames \in Nat /\ inBody \in BOOLEAN
           /\ replies \in Seq(Seq(Position))
           /\ Len(msg) < E!Wanted
           /\ \A f \in DOMAIN replies : replies[f] = E!Reply(f)

LEMMA StreamWriteRequest ==
  ASSUME NEW b \in Nat, NEW m, NEW s, NEW d, NEW c, NEW r, NEW n, Stream(b, m, s, d, c, r, n),
         NEW k \in Nat, k <= Len(r)
  PROVE  Stream(b, m, s, d, c \o E!Take(r, k), E!Drop(r, k), n)
<1> DEFINE p == b + Len(m) + Len(s) + Len(d)
           u == c \o E!Take(r, k)
           v == E!Drop(r, k)
<1>1. /\ m \in Seq(Position) /\ s \in Seq(Position) /\ d \in Seq(Position)
      /\ c \in Seq(Position) /\ r \in Seq(Position)
  BY DEF Stream
<1>2. /\ Len(m) \in Nat /\ Len(s) \in Nat /\ Len(d) \in Nat /\ Len(c) \in Nat /\ Len(r) \in Nat
      /\ p \in Nat
  BY <1>1
<1>3. Adjacent(c, r, p)
  BY DEF Stream, Adjacent
<1> HIDE DEF p
<1>4. IsMoved(u, v, c, r, k) /\ Adjacent(u, v, p)
  BY <1>1, <1>2, <1>3, Moved
<1> HIDE DEF u, v
<1>5. /\ Piece(u, b + Len(m) + Len(s) + Len(d))
      /\ Piece(v, b + Len(m) + Len(s) + Len(d) + Len(u))
  BY <1>4, Zenon DEF Adjacent, p
<1>6. b + Len(m) + Len(s) + Len(d) + Len(u) + Len(v) = Start(n)
  <2>1. b + Len(m) + Len(s) + Len(d) + Len(c) + Len(r) = Start(n)
    BY DEF Stream
  <2> QED
    BY <2>1, <1>2, <1>4 DEF IsMoved
<1>7. u \in Seq(Position) /\ v \in Seq(Position)
  BY <1>4 DEF IsMoved
<1>8. Stream(b, m, s, d, u, v, n)
  BY <1>1, <1>5, <1>6, <1>7 DEF Stream
<1> QED
  BY <1>8 DEF u, v

LEMMA StreamReadSome ==
  ASSUME NEW b \in Nat, NEW m, NEW s, NEW c, NEW r, NEW n, Stream(b, m, s, << >>, c, r, n),
         NEW k \in Nat, k <= Len(c)
  PROVE  Stream(b, m, s, E!Take(c, k), E!Drop(c, k), r, n)
<1> DEFINE p == b + Len(m) + Len(s)
           e == << >>
           u == E!Take(c, k)
           v == E!Drop(c, k)
<1>1. /\ m \in Seq(Position) /\ s \in Seq(Position) /\ e \in Seq(Position)
      /\ c \in Seq(Position) /\ r \in Seq(Position) /\ Len(e) = 0
  BY DEF Stream
<1>2. /\ Len(m) \in Nat /\ Len(s) \in Nat /\ Len(c) \in Nat /\ Len(r) \in Nat /\ p \in Nat
  BY <1>1
<1>3. Adjacent(e, c, p)
  BY DEF Stream, Adjacent
<1>4. u \in Seq(Position)
  BY <1>1 DEF E!Take
<1> HIDE DEF p, u, v
<1>5. e \o u = u
  BY <1>4
<1> HIDE DEF e
<1>6. IsMoved(e \o u, v, e, c, k) /\ Adjacent(e \o u, v, p)
  BY <1>1, <1>2, <1>3, Moved DEF u, v
<1>7. IsMoved(u, v, e, c, k) /\ Adjacent(u, v, p)
  BY <1>5, <1>6
<1>8. /\ Piece(u, b + Len(m) + Len(s))
      /\ Piece(v, b + Len(m) + Len(s) + Len(u))
  BY <1>7, Zenon DEF Adjacent, p
<1>9. /\ Len(u) + Len(v) = Len(c) /\ Len(u) \in Nat /\ Len(v) \in Nat
      /\ u \in Seq(Position) /\ v \in Seq(Position)
  BY <1>1, <1>2, <1>7 DEF IsMoved
<1>10. /\ Piece(r, b + Len(m) + Len(s) + 0 + Len(c))
       /\ b + Len(m) + Len(s) + 0 + Len(c) + Len(r) = Start(n)
  BY <1>1 DEF Stream, e
<1>11. b + Len(m) + Len(s) + 0 + Len(c) = b + Len(m) + Len(s) + Len(u) + Len(v)
  BY <1>2, <1>9
<1>12. Stream(b, m, s, u, v, r, n)
  BY <1>1, <1>8, <1>9, <1>10, <1>11 DEF Stream
<1> QED
  BY <1>12 DEF u, v

LEMMA StreamWriteBack ==
  ASSUME NEW b \in Nat, NEW m, NEW s, NEW d, NEW c, NEW r, NEW n, Stream(b, m, s, d, c, r, n),
         NEW k \in Nat, k <= Len(d)
  PROVE  Stream(b, m, s \o E!Take(d, k), E!Drop(d, k), c, r, n)
<1> DEFINE p == b + Len(m)
           u == s \o E!Take(d, k)
           v == E!Drop(d, k)
<1>1. /\ m \in Seq(Position) /\ s \in Seq(Position) /\ d \in Seq(Position)
      /\ c \in Seq(Position) /\ r \in Seq(Position)
  BY DEF Stream
<1>2. /\ Len(m) \in Nat /\ Len(s) \in Nat /\ Len(d) \in Nat /\ Len(c) \in Nat /\ Len(r) \in Nat
      /\ p \in Nat
  BY <1>1
<1>3. Adjacent(s, d, p)
  BY DEF Stream, Adjacent
<1> HIDE DEF p
<1>4. IsMoved(u, v, s, d, k) /\ Adjacent(u, v, p)
  BY <1>1, <1>2, <1>3, Moved
<1> HIDE DEF u, v
<1>5. Piece(u, b + Len(m)) /\ Piece(v, b + Len(m) + Len(u))
  BY <1>4, Zenon DEF Adjacent, p
<1>6. /\ Len(u) \in Nat /\ Len(v) \in Nat /\ u \in Seq(Position) /\ v \in Seq(Position)
      /\ b + Len(m) + Len(u) + Len(v) = b + Len(m) + Len(s) + Len(d)
  BY <1>2, <1>4 DEF IsMoved
<1>7. Stream(b, m, u, v, c, r, n)
  BY <1>1, <1>5, <1>6 DEF Stream
<1> QED
  BY <1>7 DEF u, v

LEMMA StreamRead ==
  ASSUME NEW b \in Nat, NEW m, NEW s, NEW d, NEW c, NEW r, NEW n, Stream(b, m, s, d, c, r, n),
         NEW k \in Nat, k <= Len(s)
  PROVE  Stream(b, m \o E!Take(s, k), E!Drop(s, k), d, c, r, n)
<1> DEFINE u == m \o E!Take(s, k)
           v == E!Drop(s, k)
<1>1. /\ m \in Seq(Position) /\ s \in Seq(Position) /\ d \in Seq(Position)
      /\ c \in Seq(Position) /\ r \in Seq(Position)
  BY DEF Stream
<1>2. /\ Len(m) \in Nat /\ Len(s) \in Nat /\ Len(d) \in Nat /\ Len(c) \in Nat /\ Len(r) \in Nat
  BY <1>1
<1>3. Adjacent(m, s, b)
  BY DEF Stream, Adjacent
<1>4. IsMoved(u, v, m, s, k) /\ Adjacent(u, v, b)
  BY <1>1, <1>2, <1>3, Moved
<1> HIDE DEF u, v
<1>5. Piece(u, b) /\ Piece(v, b + Len(u))
  BY <1>4, Zenon DEF Adjacent
<1>6. /\ Len(u) \in Nat /\ Len(v) \in Nat /\ u \in Seq(Position) /\ v \in Seq(Position)
      /\ b + Len(u) + Len(v) = b + Len(m) + Len(s)
  BY <1>2, <1>4 DEF IsMoved
<1>7. Stream(b, u, v, d, c, r, n)
  BY <1>1, <1>5, <1>6 DEF Stream
<1> QED
  BY <1>7 DEF u, v

\* A piece that is read is left behind.
LEMMA StreamAdvance ==
  ASSUME NEW b \in Nat, NEW m, NEW s, NEW d, NEW c, NEW r, NEW n, Stream(b, m, s, d, c, r, n)
  PROVE  Stream(b + Len(m), << >>, s, d, c, r, n)
<1> DEFINE e == << >>
           q == b + Len(m)
<1>1. e \in Seq(Position) /\ Len(e) = 0 /\ m \in Seq(Position) /\ Len(m) \in Nat
  BY DEF Stream
<1>2. q \in Nat /\ q + Len(e) = q
  BY <1>1
<1>3. Piece(e, q)
  BY <1>1 DEF Piece
<1>4. /\ {s, d, c, r} \subseteq Seq(Position)
      /\ Piece(s, q) /\ Piece(d, q + Len(s)) /\ Piece(c, q + Len(s) + Len(d))
      /\ Piece(r, q + Len(s) + Len(d) + Len(c))
      /\ q + Len(s) + Len(d) + Len(c) + Len(r) = Start(n)
  BY DEF Stream
<1> HIDE DEF e, q
<1>5. Stream(q, e, s, d, c, r, n)
  BY <1>1, <1>2, <1>3, <1>4 DEF Stream
<1> QED
  BY <1>5 DEF e, q

LEMMA StreamNext ==
  ASSUME E!SyncEchoAssumption, NEW b \in Nat, NEW m, NEW s, NEW d, NEW c, NEW n \in Nat,
         Stream(b, m, s, d, c, << >>, n)
  PROVE  Stream(b, m, s, d, c, E!Frame(n + 1), n + 1)
<1> DEFINE p == b + Len(m) + Len(s) + Len(d) + Len(c)
           t == E!Frame(n + 1)
<1>1. p + Len(<< >>) = Start(n) /\ {m, s, d, c} \subseteq Seq(Position)
  BY DEF Stream
<1>2. p \in Nat /\ p = Start(n)
  BY <1>1
<1>3. t \in Seq(Position) /\ Len(t) = Length /\ Piece(t, Start(n))
  BY FrameBytes, FramePiece
<1>4. Start(n + 1) = Start(n) + Length
  BY StartNext
<1> HIDE DEF t
<1>5. Piece(t, p) /\ p + Len(t) = Start(n + 1)
  BY <1>2, <1>3, <1>4
<1>6. Stream(b, m, s, d, c, t, n + 1)
  BY <1>1, <1>3, <1>5 DEF Stream
<1> QED
  BY <1>6 DEF t

-----------------------------------------------------------------------------
(* The steps of SyncEcho. *)

LEMMA EchoTypes ==
  ASSUME E!SyncEchoAssumption, EchoInv
  PROVE  /\ Base \in Nat /\ Len(replies) \in Nat /\ Start(Len(replies)) \in Nat
         /\ {msg, s2c, data, c2s, request} \subseteq Seq(Position)
         /\ HEAD_LENGTH \in Nat \ {0} /\ Body \in Nat \ {0} /\ frames \in Nat
         /\ inBody \in BOOLEAN
<1>1. Len(replies) \in Nat
  BY DEF EchoInv
<1>2. /\ HEAD_LENGTH \in Nat \ {0} /\ Body \in Nat \ {0}
      /\ Start(Len(replies)) \in Nat /\ frames \in Nat /\ inBody \in BOOLEAN
  BY <1>1, LengthType, StartNext DEF EchoInv
<1>3. {msg, s2c, data, c2s, request} \subseteq Seq(Position)
  BY DEF EchoInv, Stream
<1>4. Base \in Nat
  BY <1>2 DEF Base
<1> QED
  BY <1>1, <1>2, <1>3, <1>4

LEMMA EchoInvInit ==
  ASSUME E!SyncEchoAssumption
  PROVE  E!Init => EchoInv
<1> SUFFICES ASSUME E!Init PROVE EchoInv
  OBVIOUS
<1> DEFINE e == << >>
<1>1. /\ c2s = e /\ s2c = e /\ request = e /\ frames = 0 /\ data = e /\ msg = e
      /\ inBody = FALSE /\ replies = e
  BY DEF E!Init
<1>2. Start(0) = 0 /\ HEAD_LENGTH \in Nat \ {0}
  <2>1. Length \in Nat
    BY LengthType
  <2> QED
    BY <2>1, LengthType DEF Start
<1>3. /\ e \in Seq(Position) /\ Len(e) = 0 /\ Piece(e, 0) /\ e \in Seq(Seq(Position))
      /\ DOMAIN e = {}
  BY DEF Piece
<1>4. Base = 0
  BY <1>1, <1>2, <1>3 DEF Base
<1> HIDE DEF e
<1>5. Stream(0, e, e, e, e, e, 0)
  BY <1>2, <1>3 DEF Stream
<1>6. Stream(Base, msg, s2c, data, c2s, request, frames)
  BY <1>1, <1>4, <1>5, Zenon
<1>7. Len(msg) < E!Wanted
  BY <1>1, <1>2, <1>3 DEF E!Wanted
<1> QED
  BY <1>1, <1>3, <1>6, <1>7 DEF EchoInv

\* A frame is answered only after it was begun.
LEMMA EchoInvSafe ==
  ASSUME E!SyncEchoAssumption
  PROVE  EchoInv => E!RepliesAreBodies
<1> SUFFICES ASSUME EchoInv PROVE Len(replies) <= frames
  BY DEF EchoInv, E!RepliesAreBodies
<1>1. /\ Base \in Nat /\ Len(replies) \in Nat /\ Start(Len(replies)) \in Nat /\ frames \in Nat
      /\ {msg, s2c, data, c2s, request} \subseteq Seq(Position)
      /\ HEAD_LENGTH \in Nat \ {0} /\ inBody \in BOOLEAN
  BY EchoTypes
<1>2. Base + Len(msg) + Len(s2c) + Len(data) + Len(c2s) + Len(request) = Start(frames)
  BY DEF EchoInv, Stream
<1>3. Start(Len(replies)) <= Base
  BY <1>1 DEF Base
<1>4. Start(Len(replies)) <= Start(frames)
  BY <1>1, <1>2, <1>3
<1>5. Start(frames) \in Nat /\ Length \in Nat \ {0}
  BY <1>1, StartNext, LengthType
<1>6. frames < Len(replies) => Start(frames) + Length <= Start(Len(replies))
  BY <1>1, StartGrows
<1> QED
  BY <1>1, <1>4, <1>5, <1>6

\* The steps that neither read a reply nor change what is waited for.
LEMMA EchoMoves ==
  ASSUME E!SyncEchoAssumption, EchoInv,
         UNCHANGED <<msg, inBody, replies>>, frames' \in Nat,
         Stream(Base, msg, s2c', data', c2s', request', frames')
  PROVE  EchoInv'
<1>1. Base' = Base /\ E!Wanted' = E!Wanted
  BY DEF Base, E!Wanted
<1>2. Stream(Base, msg, s2c, data, c2s, request, frames)'
  BY <1>1, Zenon
<1> QED
  BY <1>1, <1>2 DEF EchoInv

\* What is read is short of the head or body that is waited for, ends the head,
\* or ends the body.
LEMMA EchoReadReply ==
  ASSUME E!SyncEchoAssumption, EchoInv, NEW k \in Nat \ {0}, E!ReadReply(k)
  PROVE  EchoInv'
<1> DEFINE m == Len(replies)
           read == msg \o E!Take(s2c, k)
<1>1. /\ Base \in Nat /\ m \in Nat /\ Start(m) \in Nat /\ frames \in Nat
      /\ msg \in Seq(Position) /\ s2c \in Seq(Position)
      /\ HEAD_LENGTH \in Nat \ {0} /\ Body \in Nat \ {0} /\ inBody \in BOOLEAN
      /\ replies \in Seq(Seq(Position))
  BY EchoTypes DEF EchoInv
<1>2. /\ k <= Len(s2c) /\ k <= E!Wanted - Len(msg)
      /\ s2c' = E!Drop(s2c, k)
      /\ IF Len(read) < E!Wanted
         THEN msg' = read /\ UNCHANGED <<inBody, replies>>
         ELSE /\ msg' = << >>
              /\ inBody' = ~inBody
              /\ replies' = IF inBody THEN Append(replies, read) ELSE replies
      /\ UNCHANGED <<c2s, request, frames, data>>
  BY DEF E!ReadReply
<1>3. Stream(Base, read, E!Drop(s2c, k), data, c2s, request, frames)
  BY <1>1, <1>2, StreamRead DEF EchoInv
<1>4. /\ read \in Seq(Position) /\ Len(read) = Len(msg) + k /\ Len(msg) \in Nat
      /\ E!Wanted \in Nat /\ Len(read) <= E!Wanted
  <2>1. E!Take(s2c, k) \in Seq(Position) /\ Len(E!Take(s2c, k)) = k
    BY <1>1, <1>2 DEF E!Take
  <2>2. E!Wanted \in Nat
    BY <1>1 DEF E!Wanted
  <2>3. read \in Seq(Position) /\ Len(read) = Len(msg) + k
    BY <2>1, <1>1, ConcatProperties
  <2>4. Len(msg) \in Nat
    BY <1>1
  <2> QED
    BY <2>2, <2>3, <2>4, <1>2
<1>5. Piece(read, Base)
  BY <1>3 DEF Stream
<1> HIDE DEF read
<1>6. CASE Len(read) < E!Wanted
  <2>1. msg' = read /\ UNCHANGED <<inBody, replies>>
    BY <1>2, <1>6
  <2>2. Base' = Base /\ E!Wanted' = E!Wanted
    BY <2>1 DEF Base, E!Wanted
  <2>3. Stream(Base, msg, s2c, data, c2s, request, frames)'
    BY <1>2, <1>3, <2>1, <2>2, Zenon
  <2> QED
    BY <1>1, <1>2, <1>6, <2>1, <2>2, <2>3 DEF EchoInv
<1>7. CASE Len(read) = E!Wanted
  <2> DEFINE e == << >>
             b == Base + Len(read)
  <2>1. /\ msg' = e /\ inBody' = ~inBody
        /\ replies' = IF inBody THEN Append(replies, read) ELSE replies
    BY <1>2, <1>4, <1>7
  <2>2. Stream(b, e, E!Drop(s2c, k), data, c2s, request, frames)
    BY <1>1, <1>3, StreamAdvance
  <2>3. Len(e) = 0
    OBVIOUS
  <2> HIDE DEF e, b
  <2>4. ASSUME Base' = b PROVE Stream(Base, msg, s2c, data, c2s, request, frames)'
    BY <1>2, <2>1, <2>2, <2>4, Zenon
  <2>5. Len(msg') < E!Wanted'
    BY <1>1, <2>1, <2>3 DEF E!Wanted
  <2>6. CASE inBody = FALSE
    <3>1. replies' = replies /\ inBody' = TRUE
      BY <2>1, <2>6
    <3>2. Base' = b
      BY <1>1, <1>7, <2>6, <3>1 DEF Base, E!Wanted, b
    <3> QED
      BY <1>1, <1>2, <2>4, <2>5, <3>1, <3>2 DEF EchoInv
  <2>7. CASE inBody = TRUE
    <3>1. replies' = Append(replies, read) /\ inBody' = FALSE
      BY <2>1, <2>7
    <3>2. Len(read) = Body /\ Base = Start(m) + HEAD_LENGTH
      BY <1>7, <2>7 DEF E!Wanted, Base
    <3>3. read = E!Reply(m + 1)
      BY <1>1, <1>4, <1>5, <3>2, PieceIsReply
    <3>4. /\ replies' \in Seq(Seq(Position)) /\ Len(replies') = m + 1
          /\ \A f \in 1..m : replies'[f] = replies[f]
          /\ replies'[m + 1] = read
      BY <1>1, <1>4, <3>1
    <3>5. Start(m + 1) = Start(m) + Length /\ Length = HEAD_LENGTH + Body
      BY <1>1, StartNext, LengthType
    <3>6. Base' = b
      <4>1. Base' = Start(Len(replies')) + 0
        BY <3>1 DEF Base
      <4>2. Start(Len(replies')) = Start(m + 1)
        BY <3>4
      <4> QED
        BY <4>1, <4>2, <1>1, <3>2, <3>5 DEF b
    <3>7. \A f \in DOMAIN replies' : replies'[f] = E!Reply(f)
      <4> SUFFICES ASSUME NEW f \in 1..m + 1 PROVE replies'[f] = E!Reply(f)
        BY <3>4
      <4>1. CASE f \in 1..m
        <5>1. replies[f] = E!Reply(f)
          BY <4>1, <1>1 DEF EchoInv
        <5> QED
          BY <4>1, <5>1, <3>4
      <4>2. CASE f = m + 1
        BY <4>2, <3>3, <3>4
      <4> QED
        BY <4>1, <4>2, <1>1
    <3> QED
      BY <1>1, <1>2, <2>4, <2>5, <3>1, <3>4, <3>6, <3>7 DEF EchoInv
  <2> QED
    BY <1>1, <2>6, <2>7
<1> QED
  BY <1>4, <1>6, <1>7

LEMMA EchoInvStep ==
  ASSUME E!SyncEchoAssumption
  PROVE  EchoInv /\ [E!Next]_(E!vars) => EchoInv'
<1> SUFFICES ASSUME EchoInv, [E!Next]_(E!vars) PROVE EchoInv'
  OBVIOUS
<1>1. Base \in Nat /\ frames \in Nat /\ {msg, s2c, data, c2s, request} \subseteq Seq(Position)
  BY EchoTypes
<1>2. Stream(Base, msg, s2c, data, c2s, request, frames)
  BY DEF EchoInv
<1>3. CASE UNCHANGED E!vars
  <2>1. /\ UNCHANGED <<msg, inBody, replies>>
        /\ frames' = frames /\ s2c' = s2c /\ data' = data /\ c2s' = c2s /\ request' = request
    BY <1>3 DEF E!vars
  <2>2. Stream(Base, msg, s2c', data', c2s', request', frames')
    BY <1>2, <2>1, Zenon
  <2> QED
    BY <1>1, <2>1, <2>2, EchoMoves
<1>4. CASE E!NextRequest
  <2>1. /\ request = << >> /\ frames' = frames + 1 /\ request' = E!Frame(frames')
        /\ s2c' = s2c /\ data' = data /\ c2s' = c2s /\ UNCHANGED <<msg, inBody, replies>>
    BY <1>4 DEF E!NextRequest
  <2>2. Stream(Base, msg, s2c, data, c2s, E!Frame(frames + 1), frames + 1)
    BY <1>1, <1>2, <2>1, StreamNext
  <2>3. Stream(Base, msg, s2c', data', c2s', request', frames')
    BY <2>1, <2>2, Zenon
  <2> QED
    BY <1>1, <2>1, <2>3, EchoMoves
<1>5. ASSUME NEW n \in E!Some, E!WriteRequest(n) PROVE EchoInv'
  <2>1. /\ n \in Nat /\ n <= Len(request)
        /\ c2s' = c2s \o E!Take(request, n) /\ request' = E!Drop(request, n)
        /\ s2c' = s2c /\ data' = data /\ frames' = frames /\ UNCHANGED <<msg, inBody, replies>>
    BY <1>5 DEF E!WriteRequest, E!Some, E!SyncEchoAssumption
  <2>2. Stream(Base, msg, s2c, data, c2s \o E!Take(request, n), E!Drop(request, n), frames)
    BY <1>1, <1>2, <2>1, StreamWriteRequest
  <2>3. Stream(Base, msg, s2c', data', c2s', request', frames')
    BY <2>1, <2>2, Zenon
  <2> QED
    BY <1>1, <2>1, <2>3, EchoMoves
<1>6. ASSUME NEW n \in E!Some, E!ReadSome(n) PROVE EchoInv'
  <2>1. /\ n \in Nat /\ n <= Len(c2s) /\ data = << >>
        /\ data' = E!Take(c2s, n) /\ c2s' = E!Drop(c2s, n)
        /\ s2c' = s2c /\ request' = request /\ frames' = frames
        /\ UNCHANGED <<msg, inBody, replies>>
    BY <1>6 DEF E!ReadSome, E!Some, E!SyncEchoAssumption
  <2>2. Stream(Base, msg, s2c, E!Take(c2s, n), E!Drop(c2s, n), request, frames)
    BY <1>1, <1>2, <2>1, StreamReadSome
  <2>3. Stream(Base, msg, s2c', data', c2s', request', frames')
    BY <2>1, <2>2, Zenon
  <2> QED
    BY <1>1, <2>1, <2>3, EchoMoves
<1>7. ASSUME NEW n \in E!Some, E!WriteBack(n) PROVE EchoInv'
  <2>1. /\ n \in Nat /\ n <= Len(data)
        /\ s2c' = s2c \o E!Take(data, n) /\ data' = E!Drop(data, n)
        /\ c2s' = c2s /\ request' = request /\ frames' = frames
        /\ UNCHANGED <<msg, inBody, replies>>
    BY <1>7 DEF E!WriteBack, E!Some, E!SyncEchoAssumption
  <2>2. Stream(Base, msg, s2c \o E!Take(data, n), E!Drop(data, n), c2s, request, frames)
    BY <1>1, <1>2, <2>1, StreamWriteBack
  <2>3. Stream(Base, msg, s2c', data', c2s', request', frames')
    BY <2>1, <2>2, Zenon
  <2> QED
    BY <1>1, <2>1, <2>3, EchoMoves
<1>8. ASSUME NEW n \in E!Some, E!ReadReply(n) PROVE EchoInv'
  <2>1. n \in Nat \ {0}
    BY DEF E!Some, E!SyncEchoAssumption
  <2> QED
    BY <1>8, <2>1, EchoReadReply
<1>9. CASE E!SessionEnds
  <2>1. /\ UNCHANGED <<msg, inBody, replies>>
        /\ frames' = frames /\ s2c' = s2c /\ data' = data /\ c2s' = c2s /\ request' = request
    BY <1>9 DEF E!SessionEnds
  <2>2. Stream(Base, msg, s2c', data', c2s', request', frames')
    BY <1>2, <2>1, Zenon
  <2> QED
    BY <1>1, <2>1, <2>2, EchoMoves
<1> QED
  BY <1>3, <1>4, <1>5, <1>6, <1>7, <1>8, <1>9 DEF E!Next

\* Whatever way the two threads of the client and the server cut the stream, and
\* whatever the sizes of head, body, chunk and socket are, the client reads the
\* bodies of its frames, whole and in order, and none before its frame
\* (SyncServer.cpp:19, SyncClient.cpp:46, 52).
THEOREM RepliesAreBodiesAlways == Spec => []RepliesAreBodies
<1>1. Init => EchoInv
  BY AsioAssumption, EchoInvInit DEF Init, AsioAssumption
<1>2. EchoInv /\ [Next]_vars => EchoInv'
  BY AsioAssumption, StepsOfOne, EchoInvStep DEF AsioAssumption
<1>3. EchoInv => RepliesAreBodies
  BY AsioAssumption, EchoInvSafe DEF RepliesAreBodies, AsioAssumption
<1> QED
  BY <1>1, <1>2, <1>3, PTL DEF Spec
=============================================================================
