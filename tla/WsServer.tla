------------------------------ MODULE WsServer ------------------------------
(***************************************************************************)
(* The websocket server of asio/http (websocketServer.h, Connection.h,      *)
(* ConnectionMgr.cpp), with an io_context that somebody runs: beast_main    *)
(* itself returns without a run.  A connection, once its handshake is done, *)
(* is put in the map and reads one message; the handler of that read sends  *)
(* the message back and starts no other read.  Its own handlers, on its     *)
(* strand, do not overlap.  The buffer of a write is the parameter of       *)
(* SendCallBack, which is gone when that returns: what the socket has not   *)
(* taken by then is read from memory that may hold anything.                *)
(***************************************************************************)
EXTENDS Sequences, Naturals

CONSTANTS
  Connection,  \* the connections of the model, its bound
  Message,     \* messages of the peers
  Junk         \* what is read from memory that was released

WsServerAssumption == Junk \notin Message

VARIABLES
  op,         \* op[c]: the operation outstanding for c, "none" before and after
  accepted,   \* connections accepted
  _map_cons,  \* connections in the map
  _send_que,  \* _send_que[c]
  buffer,     \* buffer[c]: what a write outstanding will put on the wire
  wire,       \* wire[c]: messages written to the peer
  sent        \* sent[c]: history, the message that was read

vars == <<op, accepted, _map_cons, _send_que, buffer, wire, sent>>

Init == /\ op = [c \in Connection |-> "none"]
        /\ accepted = {} /\ _map_cons = {}
        /\ _send_que = [c \in Connection |-> << >>]
        /\ buffer = [c \in Connection |-> << >>]
        /\ wire = [c \in Connection |-> << >>]
        /\ sent = [c \in Connection |-> << >>]

-----------------------------------------------------------------------------
\* The handler of the accept: AsyncAccept, and the next accept.
Accept(c) == /\ c \notin accepted
             /\ accepted' = accepted \cup {c}
             /\ op' = [op EXCEPT ![c] = "handshake"]
             /\ UNCHANGED <<_map_cons, _send_que, buffer, wire, sent>>

\* AddConnection and Start.
Handshake(c) == /\ op[c] = "handshake"
                /\ _map_cons' = _map_cons \cup {c}
                /\ op' = [op EXCEPT ![c] = "read"]
                /\ UNCHANGED <<accepted, _send_que, buffer, wire, sent>>

\* Mutant of Fails: a failure leaves the connection in the map.
FailsQuietly(c) == /\ op[c] # "none"
                   /\ op' = [op EXCEPT ![c] = "none"]
                   /\ UNCHANGED <<accepted, _map_cons, _send_que, buffer, wire, sent>>

\* Whichever operation fails, no other is started; the failure of a read or a
\* write also removes the connection from the map.
Fails(c) == /\ op[c] # "none"
            /\ op' = [op EXCEPT ![c] = "none"]
            /\ _map_cons' = _map_cons \ {c}
            /\ UNCHANGED <<accepted, _send_que, buffer, wire, sent>>

\* SendCallBack: the socket takes the message at once, or after the return.
Write(c, msg) == /\ op' = [op EXCEPT ![c] = "write"]
                 /\ \E b \in {msg, Junk} : buffer' = [buffer EXCEPT ![c] = <<b>>]

\* A message is read, and AsyncSend queues it; only for a queue that was empty
\* does it call SendCallBack.
Read(c) == /\ op[c] = "read"
           /\ \E msg \in Message :
                /\ sent' = [sent EXCEPT ![c] = <<msg>>]
                /\ _send_que' = [_send_que EXCEPT ![c] = Append(@, msg)]
                /\ IF _send_que[c] = << >>
                   THEN Write(c, msg)
                   ELSE op' = [op EXCEPT ![c] = "none"] /\ UNCHANGED buffer
           /\ UNCHANGED <<accepted, _map_cons, wire>>

\* The handler of a write pops, and writes what is then in front.
Written(c) == /\ op[c] = "write"
              /\ wire' = [wire EXCEPT ![c] = @ \o buffer[c]]
              /\ _send_que' = [_send_que EXCEPT ![c] = Tail(@)]
              /\ IF Len(_send_que[c]) > 1
                 THEN Write(c, _send_que[c][2])
                 ELSE /\ op' = [op EXCEPT ![c] = "none"]
                      /\ buffer' = [buffer EXCEPT ![c] = << >>]
              /\ UNCHANGED <<accepted, _map_cons, sent>>

Next == \E c \in Connection : \/ Accept(c) \/ Handshake(c) \/ Fails(c)
                              \/ Read(c) \/ Written(c)

Spec == Init /\ [][Next]_vars

-----------------------------------------------------------------------------
\* A connection that nothing is outstanding for stays in the map only if it has
\* echoed its message: such a connection hears no other message, and no close of
\* its peer, and is never removed.  No connection writes more than it has read,
\* its queue never holds a second message, and what it writes is its message or
\* released memory, never what another connection sent
\* (Connection.h:62, 95, 105, 113).
WsServerSafe == \A c \in Connection :
  /\ c \in _map_cons /\ op[c] = "none" => Len(wire[c]) = 1
  /\ c \notin _map_cons => op[c] \in {"none", "handshake"} /\ wire[c] = << >>
  /\ Len(_send_que[c]) <= 1
  /\ wire[c] \in {<< >>, <<Junk>>, sent[c]}
=============================================================================
