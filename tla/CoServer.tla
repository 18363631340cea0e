------------------------------ MODULE CoServer ------------------------------
(***************************************************************************)
(* The coroutine server of asio/Coroutine (Cserver.h, CSession.h,           *)
(* AsioServicePool.h, main.cpp): the main thread accepts one connection,    *)
(* and the single thread of the pool runs the coroutine of its session.     *)
(*                                                                          *)
(* The lambda of the coroutine captures this and not shared_this, which its *)
(* body does not name: only the accept handler and the map _session hold    *)
(* the session.  What drops the last of them runs ~CSession, which calls    *)
(* Close and so ClearSession.  When that is the erase inside ClearSession,  *)
(* the thread locks the _mutex it holds, and stays there.                   *)
(***************************************************************************)
EXTENDS Naturals

VARIABLES
  main,     \* the main thread: in ioc.run, HandleAccept, the signal handler, ...
  co,       \* the coroutine, or where the thread of the pool is with it
  handler,  \* the handler of the accept holds the session
  mapped,   \* the map _session holds it
  peer,     \* what the peer has done: "quiet", a head it sent, "gone"
  process,  \* "up", "exited" or "crashed"
  raced     \* history: the session closed before HandleAccept had returned

vars == <<main, co, handler, mapped, peer, process, raced>>

\* The constructor of CServer has called StartAccept.
Init == /\ main = "accepting"
        /\ co = "none"
        /\ handler = TRUE /\ mapped = FALSE
        /\ peer = "quiet"
        /\ process = "up"
        /\ raced = FALSE

\* The coroutine holds the lock for ever, or nobody does: each other section
\* under it is one step.
Locked == co = "relocking"
Alive == handler \/ mapped

-----------------------------------------------------------------------------
(* HandleAccept, on the main thread. *)

Accepted == /\ main = "accepting"
            /\ main' = "starting"
            /\ UNCHANGED <<co, handler, mapped, peer, process, raced>>

\* Nothing accepts after this; the handler goes, and with it the session, whose
\* ClearSession finds nothing to erase.
AcceptFails == /\ main = "accepting"
               /\ main' = "running"
               /\ handler' = FALSE
               /\ UNCHANGED <<co, mapped, peer, process, raced>>

\* Start: the pool may run the coroutine from now on.
Start == /\ main = "starting"
         /\ main' = "inserting"
         /\ co' = "spawned"
         /\ UNCHANGED <<handler, mapped, peer, process, raced>>

\* Mutant: the session is started and not inserted.
InsertNothing == /\ main = "inserting"
                 /\ ~Locked
                 /\ main' = "releasing"
                 /\ UNCHANGED <<co, handler, mapped, peer, process, raced>>

Insert == /\ main = "inserting"
          /\ ~Locked
          /\ main' = "releasing"
          /\ mapped' = TRUE
          /\ UNCHANGED <<co, handler, peer, process, raced>>

\* The handler is destroyed, outside of the lock.  If it held the last reference,
\* ~CSession runs here and ClearSession finds nothing.
Release == /\ main = "releasing"
           /\ ~mapped => ~Locked
           /\ main' = "running"
           /\ handler' = FALSE
           /\ UNCHANGED <<co, mapped, peer, process, raced>>

-----------------------------------------------------------------------------
(* The coroutine of Start, on the thread of the pool. *)

\* The peer sends a head that is accepted, one whose id or length is above
\* MAX_LENGTH, or one whose negative length no node can be made for; or leaves.
PeerActs == /\ co # "none" /\ peer = "quiet"
            /\ peer' \in {"valid", "invalid", "negative", "gone"}
            /\ UNCHANGED <<main, co, handler, mapped, process, raced>>

ReadHead == /\ co = "spawned"
            /\ co' = "reading"
            /\ UNCHANGED <<main, handler, mapped, peer, process, raced>>

\* The body is read into _recv_msg_node, which is null: the node was assigned
\* to _recv_head_node.
HeadIsValid == /\ co = "reading" /\ peer = "valid"
               /\ process' = "crashed"
               /\ UNCHANGED <<main, co, handler, mapped, peer, raced>>

HeadIsInvalid == /\ co = "reading" /\ peer = "invalid"
                 /\ co' = "rejecting"
                 /\ UNCHANGED <<main, handler, mapped, peer, process, raced>>

\* async_read or the new node throws, and the handler of that calls Close.
Throws == /\ co = "reading" /\ peer \in {"gone", "negative"}
          /\ co' = "catching"
          /\ UNCHANGED <<main, handler, mapped, peer, process, raced>>

\* ClearSession, on the thread of the pool.
Erase(next) == IF mapped /\ ~handler
               THEN co' = "relocking" /\ mapped' = FALSE
               ELSE co' = next /\ mapped' = FALSE

\* Close, with which the handler of an exception ends.
Close == /\ co \in {"rejecting", "catching"}
         /\ Erase(IF co = "rejecting" THEN "rejected" ELSE "ended")
         /\ raced' = handler
         /\ UNCHANGED <<main, handler, peer, process>>

\* After a head that was rejected, ClearSession is called once more.  If the
\* session is gone by now, the _server and _uuid that are read are anything.
ClearSession == /\ co = "rejected"
                /\ \/ Erase("ended") /\ UNCHANGED process
                   \/ ~Alive /\ process' = "crashed" /\ UNCHANGED <<co, mapped>>
                /\ UNCHANGED <<main, handler, peer, raced>>

-----------------------------------------------------------------------------
(* Shutdown, on the main thread. *)

\* SIGINT or SIGTERM: the handler stops ioc and then the pool.
Signal == /\ main \in {"accepting", "running"}
          /\ main' = "joining"
          /\ UNCHANGED <<co, handler, mapped, peer, process, raced>>

\* pool.Stop joins the thread, which runs for as long as the coroutine exists;
\* ioc.run and main return, and the CServer is destroyed.  A session still in
\* the map, or held by the accept that ioc destroys later, is destroyed with it
\* or after it: its ClearSession uses a map and a mutex that are no more.
Stop == /\ main = "joining"
        /\ co \in {"none", "ended"}
        /\ main' = "returned"
        /\ handler' = FALSE /\ mapped' = FALSE
        /\ process' \in IF Alive THEN {"exited", "crashed"} ELSE {"exited"}
        /\ UNCHANGED <<co, peer, raced>>

Next == /\ process = "up"
        /\ \/ Accepted \/ AcceptFails \/ Start \/ Insert \/ Release
           \/ PeerActs
           \/ ReadHead \/ HeadIsValid \/ HeadIsInvalid \/ Throws
           \/ Close \/ ClearSession
           \/ Signal \/ Stop

Spec == Init /\ [][Next]_vars

-----------------------------------------------------------------------------
\* The coroutine, which holds no reference, is never left reading without a
\* session; a thread that has locked itself out never keeps HandleAccept from
\* the mutex; a coroutine that ends, and with that a normal exit after an
\* accept and a closed session left in the map, there is only if the session
\* closed before HandleAccept had returned (CSession.h:60, Cserver.h:23, 34).
CoServerSafe == /\ co \in {"spawned", "reading", "rejecting", "catching"} => Alive
                /\ Locked => main \in {"running", "joining"}
                /\ co = "ended" => raced
                /\ process = "exited" => co = "none" \/ raced
=============================================================================
