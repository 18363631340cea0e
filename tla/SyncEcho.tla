------------------------------ MODULE SyncEcho ------------------------------
(***************************************************************************)
(* The synchronous client and echo server of asio (SyncClient.cpp,          *)
(* SyncServer.cpp): one thread of the client writes frames of a head and a  *)
(* body, another reads the head and then the body of each reply, and a      *)
(* thread of the server writes back each chunk that it has read, whatever   *)
(* part of a frame that is.  The calls block: a write until everything is   *)
(* in the socket, whose buffers are bounded, and a read until something is  *)
(* there.  The echo coroutine of asio/Coroutine/Coroutine.cpp is the same   *)
(* loop.                                                                    *)
(***************************************************************************)
EXTENDS SequencesExt, Naturals

CONSTANTS
  HEAD_LENGTH,
  Body,        \* length of the body of a frame
  Buffer,      \* capacity of a socket buffer
  MAX_LENGTH,  \* bytes the server reads at a time
  MaxFrames    \* bound: frames the client sends

SyncEchoAssumption == {HEAD_LENGTH, Body, Buffer, MAX_LENGTH, MaxFrames} \subseteq Nat \ {0}

VARIABLES
  c2s, s2c,   \* bytes in the socket from client to server and back
  request,    \* bytes the send thread has still to write of its frame
  sent,       \* frames begun
  data,       \* bytes the server has still to write of its chunk
  msg,        \* bytes the receive thread has read of what it waits for
  inBody,     \* it has read the head
  replies,    \* bodies it has read
  server      \* the session of the server: "on" or "off"

vars == <<c2s, s2c, request, sent, data, msg, inBody, replies, server>>

Frame(f) == [i \in 1..HEAD_LENGTH + Body |-> <<f, i>>]
Reply(f) == SubSeq(Frame(f), HEAD_LENGTH + 1, HEAD_LENGTH + Body)

Init == /\ c2s = << >> /\ s2c = << >>
        /\ request = << >> /\ sent = 0
        /\ data = << >>
        /\ msg = << >> /\ inBody = FALSE /\ replies = << >>
        /\ server = "on"

Room(pipe) == Buffer - Len(pipe)
Take(s, n) == SubSeq(s, 1, n)
Drop(s, n) == SubSeq(s, n + 1, Len(s))

-----------------------------------------------------------------------------
NextRequest == /\ request = << >>
               /\ sent < MaxFrames
               /\ sent' = sent + 1
               /\ request' = Frame(sent')
               /\ UNCHANGED <<c2s, s2c, data, msg, inBody, replies, server>>

\* asio::write of the send thread, as far as the buffer has room.
WriteRequest(n) == /\ n <= Len(request) /\ n <= Room(c2s)
                   /\ c2s' = c2s \o Take(request, n)
                   /\ request' = Drop(request, n)
                   /\ UNCHANGED <<s2c, sent, data, msg, inBody, replies, server>>

\* session: read_some into an empty chunk, and the write of that chunk.
ReadSome(n) == /\ server = "on"
               /\ data = << >>
               /\ n <= MAX_LENGTH /\ n <= Len(c2s)
               /\ data' = Take(c2s, n)
               /\ c2s' = Drop(c2s, n)
               /\ UNCHANGED <<s2c, request, sent, msg, inBody, replies, server>>

\* Mutant: the server writes what the socket takes at once and drops the rest.
WriteBackOnce(n) == /\ server = "on"
                    /\ n <= Len(data) /\ n <= Room(s2c)
                    /\ s2c' = s2c \o Take(data, n)
                    /\ data' = << >>
                    /\ UNCHANGED <<c2s, request, sent, msg, inBody, replies, server>>

WriteBack(n) == /\ server = "on"
                /\ n <= Len(data) /\ n <= Room(s2c)
                /\ s2c' = s2c \o Take(data, n)
                /\ data' = Drop(data, n)
                /\ UNCHANGED <<c2s, request, sent, msg, inBody, replies, server>>

\* The end of the stream breaks the loop and another error throws out of it: the
\* thread ends, and nothing of the chunk is written any more.
SessionEnds == /\ server = "on"
               /\ server' = "off"
               /\ UNCHANGED <<c2s, s2c, request, sent, data, msg, inBody, replies>>

\* What the receive thread waits for: a head, or the msglen of the head.
Wanted == IF inBody THEN Body ELSE HEAD_LENGTH

\* Mutant of ReadReply: the reader is content with one part.
ReadReplySome(n) ==
  /\ n <= Len(s2c) /\ n <= Wanted - Len(msg)
  /\ s2c' = Drop(s2c, n)
  /\ inBody' = ~inBody
  /\ replies' = IF inBody THEN Append(replies, Take(s2c, n)) ELSE replies
  /\ UNCHANGED <<c2s, request, sent, data, server, msg>>

\* asio::read of exactly what is wanted, a part at a time.
ReadReply(n) ==
  /\ n <= Len(s2c) /\ n <= Wanted - Len(msg)
  /\ s2c' = Drop(s2c, n)
  /\ LET read == msg \o Take(s2c, n) IN
       IF Len(read) < Wanted
       THEN msg' = read /\ UNCHANGED <<inBody, replies>>
       ELSE /\ msg' = << >>
            /\ inBody' = ~inBody
            /\ replies' = IF inBody THEN Append(replies, read) ELSE replies
  /\ UNCHANGED <<c2s, request, sent, data, server>>

Some == 1..Buffer

Next == \/ NextRequest
        \/ \E n \in Some : WriteRequest(n) \/ ReadSome(n) \/ WriteBack(n) \/ ReadReply(n)
        \/ SessionEnds

\* The threads run: a blocking call that can move a byte does.
Fairness == /\ WF_vars(NextRequest)
            /\ WF_vars(\E n \in Some : WriteRequest(n))
            /\ WF_vars(\E n \in Some : ReadSome(n))
            /\ WF_vars(\E n \in Some : WriteBack(n))
            /\ WF_vars(\E n \in Some : ReadReply(n))

Spec == Init /\ [][Next]_vars /\ Fairness

-----------------------------------------------------------------------------
\* Whatever way the server cuts the stream, the client reads the bodies of its
\* frames, whole and in order (SyncServer.cpp:19, SyncClient.cpp:46, 52).
RepliesAreBodies == /\ \A f \in DOMAIN replies : replies[f] = Reply(f)
                    /\ Len(replies) <= sent

\* With bounded buffers both ways, reader and writer of the client being
\* threads of their own, nobody waits for ever: every frame is answered, unless
\* the session of the server ends.
AllAnswered == <>(Len(replies) = MaxFrames \/ server = "off")
=============================================================================
