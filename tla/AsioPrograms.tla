---------------------------- MODULE AsioPrograms ----------------------------
(***************************************************************************)
(* The programs under src/asio beside asio/Async, which nothing connects:   *)
(* one of them is chosen at the start and runs, and the others rest in      *)
(* their initial states.                                                    *)
(***************************************************************************)
EXTENDS Naturals, Sequences

CONSTANTS
  MaxLen, MaxMsgs, RECVSIZE, MaxRecv,                             \* ApiSession
  SendSize, MESSAGE_SIZE,                                         \* SyncSocket
  HEAD_LENGTH, Body, Buffer, MAX_LENGTH, MaxFrames,               \* SyncEcho
  Connection,                                                     \* HttpServer, WsServer
  Message, Junk                                                   \* WsServer

VARIABLES
  runs,                                                           \* the one that runs
  _send_queue, _send_pending, writing, wire, sent,
  _recv_node, _recv_pending, reading, arrived, eof,               \* ApiSession
  call, pc, total, socket,                                        \* SyncSocket
  c2s, s2c, request, frames, data, msg, inBody, replies, server,  \* SyncEcho
  main, co, handler, mapped, peer, process, raced,                \* CoServer
  armed, socket_, ready, response_, count, httpProcess,           \* HttpServer
  op, accepted, _map_cons, _send_que, buffer, written, heard      \* WsServer

api == <<_send_queue, _send_pending, writing, wire, sent,
         _recv_node, _recv_pending, reading, arrived, eof>>
sync == <<call, pc, total, socket>>
echo == <<c2s, s2c, request, frames, data, msg, inBody, replies, server>>
coro == <<main, co, handler, mapped, peer, process, raced>>
http == <<armed, socket_, ready, response_, count, httpProcess>>
ws == <<op, accepted, _map_cons, _send_que, buffer, written, heard>>
vars == <<runs, api, sync, echo, coro, http, ws>>

A == INSTANCE ApiSession
S == INSTANCE SyncSocket
E == INSTANCE SyncEcho WITH sent <- frames
C == INSTANCE CoServer
H == INSTANCE HttpServer WITH process <- httpProcess
W == INSTANCE WsServer WITH wire <- written, sent <- heard

ASSUME AsioAssumption == /\ A!ApiSessionAssumption /\ S!SyncSocketAssumption
                         /\ E!SyncEchoAssumption /\ W!WsServerAssumption

Init == /\ runs \in {"api", "sync", "echo", "coro", "http", "ws"}
        /\ A!Init /\ E!Init /\ C!Init /\ H!Init /\ W!Init
        /\ S!Init /\ (runs = "sync" \/ call = "connect_to_end")

Next == /\ \/ runs = "api" /\ A!Next /\ UNCHANGED <<sync, echo, coro, http, ws>>
           \/ runs = "sync" /\ S!Next /\ UNCHANGED <<api, echo, coro, http, ws>>
           \/ runs = "echo" /\ E!Next /\ UNCHANGED <<api, sync, coro, http, ws>>
           \/ runs = "coro" /\ C!Next /\ UNCHANGED <<api, sync, echo, http, ws>>
           \/ runs = "http" /\ H!Next /\ UNCHANGED <<api, sync, echo, coro, ws>>
           \/ runs = "ws" /\ W!Next /\ UNCHANGED <<api, sync, echo, coro, http>>
        /\ UNCHANGED runs

Spec == /\ Init /\ [][Next]_vars
        /\ runs = "echo" => E!Fairness
        /\ runs = "http" => H!Fairness

-----------------------------------------------------------------------------
\* No byte on the wire twice or ahead of an earlier one, and writes and reads
\* that fit their nodes.
ApiSessionSafe == A!ApiSessionSafe

\* A loop of partial transfers ends with the whole message.
SyncSocketSafe == S!SyncSocketSafe

\* So does a single blocking send.
SendsAll == S!SendsAll

\* The client reads the bodies of its own frames.
RepliesAreBodies == E!RepliesAreBodies

\* Client and server never wait for each other for ever.
AllAnswered == runs = "echo" => E!AllAnswered

\* No coroutine without a session, and only its own thread locked out.
CoServerSafe == C!CoServerSafe

\* Every http connection comes to an end.
ConnectionEnds == runs = "http" => H!ConnectionEnds

\* A response that is ready is being written.
ResponseIsWritten == H!ResponseIsWritten

\* What fails leaves the map of connections, and a peer hears its own message.
WsServerSafe == W!WsServerSafe
=============================================================================
