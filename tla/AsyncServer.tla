---------------------------- MODULE AsyncServer ----------------------------
(***************************************************************************)
(* The request path of asio/Async from end to end: the clients of           *)
(* Jsonclient.cpp, HandleRead cutting their bytes into messages             *)
(* (RecvFraming), the queue of the logic thread (LogicSystem), the callback *)
(* that replies, and the sending half of the sessions (SendQueue).          *)
(*                                                                          *)
(* Two parts move together where one calls the other: the turn of           *)
(* HandleRead that completes a message calls PostMsgToQue, the worker's     *)
(* callback calls Send, and a failed read closes the session.  The server   *)
(* is running: its destructors are not.  Turns of HandleRead are left out   *)
(* where clients that wait for each reply never get a session to            *)
(* (SplitStarves): the one that ends a split body, and those that decode a  *)
(* head that is not the head of a request, and so refuse it, throw, or copy *)
(* out of the node.                                                         *)
(***************************************************************************)
EXTENDS SequencesExt, Integers

CONSTANTS
  Session,         \* one connection of one client each
  Rounds,          \* requests a client makes at most (500 in Jsonclient.cpp)
  Plan,            \* how many each client makes, none if it never connects
  HEAD_TOTAL_LEN, MAX_LENGTH, BodyLen, Short,  \* as in RecvFraming
  MAX_SENDQUE, Pieces                          \* as in SendQueue

ASSUME RoundsAssumption == /\ Rounds \in Nat /\ Pieces = 2
                          /\ Plan \subseteq [Session -> 0..Rounds]
ASSUME LengthAssumption == /\ HEAD_TOTAL_LEN \in Nat \ {0} /\ MAX_LENGTH \in Nat \ {0}
                           /\ BodyLen \subseteq 0..MAX_LENGTH
                           /\ Short \subseteq Int /\ BodyLen \subseteq Short
ASSUME LimitAssumption == MAX_SENDQUE \in Nat \ {0}

VARIABLES
  lens, net, gone, handler, data, recv_head, recv_msg, b_head_parse, received, split,
  mutex, msg_que, b_stop, pc, dtor, posted, taken, called,
  send_que, writes, wire, reading, accepted, refused,
  b_close, sessions,
  rounds,  \* rounds[c]: how many client c makes of them
  client,  \* client[c]: the statement client c is at
  got      \* got[c]: pieces of wire[c] that client c has read

framingVars == <<lens, net, gone, handler, data, recv_head, recv_msg, b_head_parse,
                 received, split>>
logicVars == <<mutex, msg_que, b_stop, pc, dtor, posted, taken, called>>
sendVars == <<send_que, writes, wire, reading, accepted, refused>>
closeVars == <<b_close, sessions>>
clientVars == <<client, got>>
vars == <<framingVars, logicVars, sendVars, closeVars, clientVars>>

\* The k-th message of session s, and the node of the reply to it.
Message == [s : Session, k : 1..Rounds]

RF == INSTANCE RecvFraming WITH MaxFrames <- Rounds, posted <- received
LS == INSTANCE LogicSystem WITH LogicNode <- Message, Registered <- Message
SQ == INSTANCE SendQueue WITH Node <- Message, broken <- gone

Init == /\ RF!Init /\ LS!Init /\ SQ!Init
        /\ rounds \in Plan
        /\ client = [c \in Session |-> "write"]
        /\ got = [c \in Session |-> 0]

-----------------------------------------------------------------------------
(* The thread of a client. *)

Asked(c) == Len(lens[c])

\* Mutant of ClientWrites: it asks again without reading the reply.
ClientWritesOn(c, len) ==
  /\ client[c] = "write"
  /\ Asked(c) < rounds[c]
  /\ RF!PeerWrites(c, len)
  /\ UNCHANGED <<clientVars, logicVars, sendVars, closeVars>>

ClientWrites(c, len) ==
  /\ client[c] = "write"
  /\ Asked(c) < rounds[c]
  /\ RF!PeerWrites(c, len)
  /\ client' = [client EXCEPT ![c] = "readHead"]
  /\ UNCHANGED <<got, logicVars, sendVars, closeVars>>

\* boost::asio::read blocks until the bytes it wants have arrived: the head of
\* a reply is its first piece here and the body its second.
ClientReads(c) ==
  /\ client[c] \in {"readHead", "readBody"}
  /\ ~gone[c]
  /\ got[c] < Len(wire[c])
  /\ got' = [got EXCEPT ![c] = @ + 1]
  /\ client' = [client EXCEPT ![c] = IF @ = "readHead" THEN "readBody" ELSE "write"]
  /\ UNCHANGED <<framingVars, logicVars, sendVars, closeVars>>

\* The socket is closed after the last round, or whenever the process dies.
ClientLeaves(c) ==
  /\ rounds[c] > 0
  /\ RF!PeerLeaves(c)
  /\ UNCHANGED <<logicVars, sendVars, closeVars, clientVars>>

-----------------------------------------------------------------------------
(* The session's handlers; its strand runs one at a time. *)

StrandFree(s) == handler[s] # "parsing"

Receive(s) == /\ RF!Receive(s)
              /\ UNCHANGED <<logicVars, sendVars, clientVars>>

ReadFails(s) == /\ RF!ReadFails(s)
                /\ SQ!HandleReadError(s)
                /\ UNCHANGED <<logicVars, clientVars>>

\* Turns of HandleRead that complete no message and read again.
TurnWithoutPost(s) ==
  /\ \/ RF!HeadPartial(s)
     \/ \E len \in BodyLen : RF!BodyPartial(s, len)
     \/ RF!MoreBody(s)
  /\ UNCHANGED <<logicVars, sendVars, clientVars>>

\* The turn that does: PostMsgToQue waits for the mutex of the logic queue.
TurnWithPost(s) ==
  /\ \E len \in BodyLen : RF!BodyComplete(s, len)
  /\ LS!PostMsgToQue([s |-> s, k |-> Len(received[s]) + 1])
  /\ UNCHANGED <<sendVars, clientVars>>

SocketWrites(s) ==
  /\ \E i \in DOMAIN writes[s] : SQ!Transfer(s, i) \/ SQ!WriteFails(s, i)
  /\ UNCHANGED <<framingVars, logicVars, closeVars, clientVars>>

HandleWrite(s) ==
  /\ StrandFree(s)
  /\ \E i \in DOMAIN writes[s] : SQ!HandleWrite(s, i) \/ SQ!HandleWriteError(s, i)
  /\ UNCHANGED <<framingVars, logicVars, clientVars>>

-----------------------------------------------------------------------------
(* The logic thread. *)

WorkerStep ==
  /\ LS!Lock \/ LS!CheckCondition \/ LS!Wait \/ LS!Reacquire \/ LS!TestStop \/ LS!Pop
  /\ UNCHANGED <<framingVars, sendVars, closeVars, clientVars>>

SpuriousWakeup == /\ LS!SpuriousWakeup
                  /\ UNCHANGED <<framingVars, sendVars, closeVars, clientVars>>

\* Mutant of CallBack: it replies on the session of the last node posted.
CallBackToLast == /\ LS!Deal
                  /\ SQ!Send(Last(msg_que).s, Head(msg_que))
                  /\ UNCHANGED <<framingVars, clientVars>>

\* HelloWordCallBack replies on the session the node holds, with the logic
\* queue's mutex held.
CallBack == /\ LS!Deal
            /\ SQ!Send(Head(msg_que).s, Head(msg_que))
            /\ UNCHANGED <<framingVars, clientVars>>

-----------------------------------------------------------------------------
SessionStep(s) == \/ Receive(s) \/ ReadFails(s)
                  \/ TurnWithoutPost(s) \/ TurnWithPost(s)
                  \/ SocketWrites(s) \/ HandleWrite(s)

Next == \/ \E c \in Session : \/ \E len \in BodyLen : ClientWrites(c, len)
                              \/ ClientReads(c)
                              \/ ClientLeaves(c)
                              \/ SessionStep(c)
        \/ WorkerStep \/ CallBack \/ SpuriousWakeup

\* Sockets and threads make progress, and PostMsgToQue gets the mutex some time
\* although the worker takes it again and again; a client reads what is there.
Fairness ==
  /\ WF_vars(WorkerStep) /\ WF_vars(CallBack)
  /\ \A s \in Session : /\ WF_vars(Receive(s)) /\ WF_vars(ReadFails(s))
                        /\ WF_vars(TurnWithoutPost(s))
                        /\ SF_vars(TurnWithPost(s))
                        /\ WF_vars(SocketWrites(s)) /\ SF_vars(HandleWrite(s))
                        /\ WF_vars(ClientReads(s))

Spec == Init /\ [][Next /\ UNCHANGED rounds]_<<vars, rounds>> /\ Fairness

-----------------------------------------------------------------------------
Answers(c) == [j \in 1..(got[c] \div Pieces) |-> wire[c][j * Pieces].node]

\* The promise to the clients, whatever the transport does to the byte stream.
RR == INSTANCE RequestReply WITH Client <- Session, asked <- [c \in Session |-> Asked(c)],
                                 answers <- [c \in Session |-> Answers(c)]
RequestReplySpec == RR!Spec

\* A request whose body was split from its head starves: HandleRead waits for
\* more bytes than the client, which waits for its reply, will ever write.  And
\* until then every head it decodes is the head of a request.
SplitStarves ==
  \A s \in Session :
     /\ split[s] => /\ b_head_parse[s]
                    /\ Len(data[s]) + Len(net[s]) < RF!RemainMsg(s)
     /\ RF!HeadComplete(s) => RF!Decode(s, RF!Head4(s)) \subseteq BodyLen

\* A request is answered, unless its body was split from its head or the client
\* has gone.
RequestIsAnswered ==
  \A c \in Session : \A k \in 1..Rounds :
     (Asked(c) = k) ~> (Len(Answers(c)) >= k \/ split[c] \/ gone[c])

\* After a client has left, its session is closed, erased, and has no operation
\* outstanding that would keep its memory: no read, no write, no message.
GoneIsReleased ==
  \A c \in Session : gone[c] ~> (/\ b_close[c] /\ c \notin sessions
                                 /\ handler[c] = "stopped" /\ writes[c] = << >>
                                 /\ \A i \in DOMAIN msg_que : msg_que[i].s # c)
=============================================================================
