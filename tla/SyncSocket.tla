----------------------------- MODULE SyncSocket -----------------------------
(***************************************************************************)
(* The blocking calls of asio/socket.cpp: each function makes a connection  *)
(* and sends or receives one message over it, in a loop of partial          *)
(* transfers, by one partial transfer, or by a composed operation, and      *)
(* every call may throw a system_error.  The functions that read catch      *)
(* system::error_code, which nothing throws, and end without a return.      *)
(***************************************************************************)
EXTENDS Naturals

CONSTANTS
  SendSize,      \* length of "hello asio"
  MESSAGE_SIZE   \* bytes a reader asks for

SyncSocketAssumption == {SendSize, MESSAGE_SIZE} \subseteq Nat \ {0}

VARIABLES
  call,   \* the function that runs
  pc,     \* "connect", "transfer", or how the call ended: it "returned" 0, was
          \*   "caught" and returned, "undefined" after a missing return, or
          \*   "terminated" the process with an exception
  total,  \* bytes transferred: total_bytes_written or total_bytes_read
  socket  \* bytes in the socket: room to send into, or arrived and not read

vars == <<call, pc, total, socket>>

Connectors == {"connect_to_end", "dns_connect_to_end", "accept_new_connection"}
Senders == {"send_data_by_write_some", "send_data_by_send", "send_data_by_write"}
Readers == {"read_data_by_read_some", "read_data_by_receive", "read_data_by_read"}

Size == IF call \in Senders THEN SendSize ELSE MESSAGE_SIZE

Init == /\ call \in Connectors \cup Senders \cup Readers
        /\ pc = "connect"
        /\ total = 0
        /\ socket = 0

-----------------------------------------------------------------------------
\* Where an exception takes the call: the handlers of the readers do not match.
Caught == IF call \in Readers THEN "terminated" ELSE "caught"

\* Where the function ends when nothing is thrown.
End == IF call \in Readers THEN "undefined" ELSE "returned"

Connect == /\ pc = "connect"
           /\ pc' = IF call \in Connectors THEN "returned" ELSE "transfer"
           /\ UNCHANGED <<call, total, socket>>

Throws == /\ pc \in {"connect", "transfer"}
          /\ pc' = Caught
          /\ UNCHANGED <<call, total, socket>>

\* The other end reads, which makes room, or sends.
Peer == /\ pc = "transfer"
        /\ socket < Size
        /\ socket' = socket + 1
        /\ UNCHANGED <<call, pc, total>>

\* write_some, send, read_some and receive block until they can transfer a byte.
Transfers(n) == /\ pc = "transfer"
                /\ n <= socket /\ n <= Size - total
                /\ socket' = socket - n
                /\ total' = total + n
                /\ UNCHANGED call

\* Mutant of Loop: a loop that ends with its second transfer.
LoopTwice(n) == /\ Transfers(n)
                /\ pc' = IF total > 0 THEN End ELSE "transfer"

\* A loop of transfers that goes on until everything is transferred.
Loop(n) == /\ Transfers(n)
           /\ pc' = IF total' = Size THEN End ELSE "transfer"

\* One transfer; a length of 0, which would return, cannot come.
Once(n) == Transfers(n) /\ pc' = End

\* write_to_socket and read_from_socket loop over partial transfers; the composed
\* write and read of the library do so themselves.
send_data_by_write_some(n) == call = "send_data_by_write_some" /\ Loop(n)
send_data_by_send(n) == call = "send_data_by_send" /\ Once(n)
send_data_by_write(n) == call = "send_data_by_write" /\ Loop(n)

read_data_by_read_some(n) == call = "read_data_by_read_some" /\ Loop(n)
read_data_by_receive(n) == call = "read_data_by_receive" /\ Once(n)
read_data_by_read(n) == call = "read_data_by_read" /\ Loop(n)

Next == \/ Connect \/ Throws \/ Peer
        \/ \E n \in 1..Size :
             \/ send_data_by_write_some(n) \/ send_data_by_send(n) \/ send_data_by_write(n)
             \/ read_data_by_read_some(n) \/ read_data_by_receive(n) \/ read_data_by_read(n)

Spec == Init /\ [][Next]_vars

-----------------------------------------------------------------------------
Looping == {"send_data_by_write_some", "send_data_by_write",
            "read_data_by_read_some", "read_data_by_read"}

\* However the transfers are cut, the functions that loop, or let the library do
\* so, end with the whole message and none with a byte more (socket.cpp:175,
\* 256); no reader ends in a defined way, and no other function takes the process
\* down with it (socket.cpp:275, 279).
SyncSocketSafe == /\ total <= Size
                  /\ pc \in {"returned", "undefined"} /\ call \in Looping => total = Size
                  /\ call \in Readers => pc \notin {"returned", "caught"}
                  /\ pc \in {"undefined", "terminated"} => call \in Readers

\* The blocking send sends everything or throws (the comment on its call,
\* socket.cpp:212).
SendsAll == call = "send_data_by_send" /\ pc = "returned" => total = SendSize
=============================================================================
