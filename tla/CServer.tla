------------------------------ MODULE CServer ------------------------------
(***************************************************************************)
(* The server object of asio/Async and the life of its sessions: CServer    *)
(* keeps one async_accept outstanding and, for each connection, starts the  *)
(* session and then inserts it in the map _session; a session's handlers,   *)
(* when its socket fails, close it and erase it from that map.              *)
(*                                                                          *)
(* The handlers are run by the threads of ThreadPool.  A session's strand   *)
(* keeps its own handlers apart, but not from HandleAccept, which goes on   *)
(* after Start while another thread may already run the first handler of    *)
(* the session it has just started.  HandleAccept and the error paths are   *)
(* therefore cut into their statements.                                     *)
(*                                                                          *)
(* What the bytes are that make a read handler refuse a head, throw or copy *)
(* out of a node is in RecvFraming; the server is followed here as long as  *)
(* no copy has left its node.                                               *)
(***************************************************************************)
EXTENDS FiniteSets, Naturals

CONSTANTS
  Session,    \* the CSession objects StartAccept makes; the bound of the model
  NoSession,  \* none of them
  Thread,     \* threads that may run the io_context
  Pool        \* the pools of them: hardware_concurrency is the machine's

ASSUME NoSessionAssumption == NoSession \notin Session
ASSUME ThreadAssumption == Pool \subseteq SUBSET Thread

VARIABLES
  acceptor,  \* the session an async_accept is outstanding for, or NoSession
  made,      \* sessions StartAccept has made
  armed,     \* armed[s]: outstanding operations whose handler holds s
  queued,    \* queued[s]: a LogicNode that holds s is in the logic queue
  gone,      \* gone[s]: the peer has closed or reset the connection
  b_close,   \* b_close[s]: Close() was called
  sessions,  \* keys of the map _session
  pool,      \* the threads of this pool
  job,       \* job[t]: the handler thread t runs, and its next statement
  early,     \* history: sessions erased before HandleAccept inserted them
  thrown     \* history: sessions whose HandleRead ended in its catch

vars == <<acceptor, made, armed, queued, gone, b_close, sessions, job, early, thrown>>

Idle == [s |-> NoSession, at |-> "idle"]
Statement == {"start", "insert", "restart", "close", "erase"}
Job == {Idle} \cup [s : Session, at : Statement]

Init == \E s \in Session :
          /\ acceptor = s
          /\ made = {s}
          /\ armed = [r \in Session |-> {}]
          /\ queued = [r \in Session |-> FALSE]
          /\ gone = [r \in Session |-> FALSE]
          /\ b_close = [r \in Session |-> FALSE]
          /\ sessions = {}
          /\ job = [t \in Thread |-> Idle]
          /\ early = {} /\ thrown = {}
          /\ pool \in Pool

\* Thread t goes on with statement at of its handler, or is done with it.
GoTo(t, at) == job' = [job EXCEPT ![t].at = at]
Done(t) == job' = [job EXCEPT ![t] = Idle]

-----------------------------------------------------------------------------
(* HandleAccept and StartAccept. *)

\* A connection arrives and its handler is called without an error.
Accepted(t) ==
  /\ acceptor # NoSession /\ job[t] = Idle
  /\ job' = [job EXCEPT ![t] = [s |-> acceptor, at |-> "start"]]
  /\ acceptor' = NoSession
  /\ UNCHANGED <<made, armed, queued, gone, b_close, sessions, early, thrown>>

\* Mutant of AcceptFails: the error branch returns.
AcceptFailsReturns(t) ==
  /\ acceptor # NoSession /\ job[t] = Idle
  /\ acceptor' = NoSession
  /\ UNCHANGED <<made, armed, queued, gone, b_close, sessions, job, early, thrown>>

\* The accept fails; the session that was made for it is dropped.
AcceptFails(t) ==
  /\ acceptor # NoSession /\ job[t] = Idle
  /\ job' = [job EXCEPT ![t] = [s |-> acceptor, at |-> "restart"]]
  /\ acceptor' = NoSession
  /\ UNCHANGED <<made, armed, queued, gone, b_close, sessions, early, thrown>>

\* new_session->Start(): its first read is outstanding.
Start(t) ==
  /\ job[t].at = "start"
  /\ armed' = [armed EXCEPT ![job[t].s] = @ \cup {"read"}]
  /\ GoTo(t, "insert")
  /\ UNCHANGED <<acceptor, made, queued, gone, b_close, sessions, early, thrown>>

\* _session.insert
Insert(t) ==
  /\ job[t].at = "insert"
  /\ sessions' = sessions \cup {job[t].s}
  /\ GoTo(t, "restart")
  /\ UNCHANGED <<acceptor, made, armed, queued, gone, b_close, early, thrown>>

\* StartAccept: a new session and an accept for it, until the sessions of the
\* model have been used.
StartAccept(t) ==
  /\ job[t].at = "restart"
  /\ IF made = Session
       THEN UNCHANGED <<acceptor, made>>
       ELSE \E s \in Session \ made : acceptor' = s /\ made' = made \cup {s}
  /\ Done(t)
  /\ UNCHANGED <<armed, queued, gone, b_close, sessions, early, thrown>>

-----------------------------------------------------------------------------
(* The peers and the logic thread. *)

PeerLeaves(s) ==
  /\ s \in made \ {acceptor}
  /\ ~gone[s]
  /\ gone' = [gone EXCEPT ![s] = TRUE]
  /\ UNCHANGED <<acceptor, made, armed, queued, b_close, sessions, job, early, thrown>>

\* The callback sends a reply.  If no write is outstanding it starts one; on a
\* queue that an earlier failed write has left non-empty it starts none.
Reply(s) ==
  /\ queued[s]
  /\ queued' = [queued EXCEPT ![s] = FALSE]
  /\ \/ armed' = [armed EXCEPT ![s] = @ \cup {"write"}]
     \/ b_close[s] /\ UNCHANGED armed
  /\ UNCHANGED <<acceptor, made, gone, b_close, sessions, job, early, thrown>>

-----------------------------------------------------------------------------
(* A session's handlers, one at a time on its strand. *)

StrandFree(s) == \A t \in Thread : job[t].s = s => job[t].at \notin {"close", "erase"}

\* Thread t calls the handler of the operation op of session s.
Runs(t, s, op) == /\ job[t] = Idle
                  /\ op \in armed[s]
                  /\ StrandFree(s)

\* HandleRead posts a message and reads again.
MessageRead(t, s) ==
  /\ Runs(t, s, "read")
  /\ ~b_close[s]
  /\ queued' = [queued EXCEPT ![s] = TRUE]
  /\ UNCHANGED <<acceptor, made, armed, gone, b_close, sessions, job, early, thrown>>

\* HandleWrite without an error and an empty queue: nothing is outstanding.
WriteDone(t, s) ==
  /\ Runs(t, s, "write")
  /\ ~b_close[s]
  /\ armed' = [armed EXCEPT ![s] = @ \ {"write"}]
  /\ UNCHANGED <<acceptor, made, queued, gone, b_close, sessions, job, early, thrown>>

\* HandleRead or HandleWrite with an error.
HandlerFails(t, s, op) ==
  /\ Runs(t, s, op)
  /\ gone[s] \/ b_close[s]
  /\ armed' = [armed EXCEPT ![s] = @ \ {op}]
  /\ job' = [job EXCEPT ![t] = [s |-> s, at |-> "close"]]
  /\ UNCHANGED <<acceptor, made, queued, gone, b_close, sessions, early, thrown>>

\* HandleRead with an invalid head: ClearSession without Close, no next read.
InvalidHead(t, s) ==
  /\ Runs(t, s, "read")
  /\ ~b_close[s]
  /\ armed' = [armed EXCEPT ![s] = @ \ {"read"}]
  /\ job' = [job EXCEPT ![t] = [s |-> s, at |-> "erase"]]
  /\ UNCHANGED <<acceptor, made, queued, gone, b_close, sessions, early, thrown>>

\* HandleRead with a head whose length makes the RecvNode throw: the catch ends
\* it, with neither ClearSession nor a next read.
HeadThrows(t, s) ==
  /\ Runs(t, s, "read")
  /\ ~b_close[s]
  /\ armed' = [armed EXCEPT ![s] = @ \ {"read"}]
  /\ thrown' = thrown \cup {s}
  /\ UNCHANGED <<acceptor, made, queued, gone, b_close, sessions, job, early>>

\* Mutant of Close: the call of ClearSession after it is missing.
CloseReturns(t) ==
  /\ job[t].at = "close"
  /\ b_close' = [b_close EXCEPT ![job[t].s] = TRUE]
  /\ Done(t)
  /\ UNCHANGED <<acceptor, made, armed, queued, gone, sessions, early, thrown>>

Close(t) ==
  /\ job[t].at = "close"
  /\ b_close' = [b_close EXCEPT ![job[t].s] = TRUE]
  /\ GoTo(t, "erase")
  /\ UNCHANGED <<acceptor, made, armed, queued, gone, sessions, early, thrown>>

NotYetInserted(s) == \E t \in Thread : job[t].s = s /\ job[t].at = "insert"

\* _server->ClearSession(_uuid); the handler returns.
ClearSession(t) ==
  /\ job[t].at = "erase"
  /\ sessions' = sessions \ {job[t].s}
  /\ early' = early \cup {s \in {job[t].s} : NotYetInserted(s)}
  /\ Done(t)
  /\ UNCHANGED <<acceptor, made, armed, queued, gone, b_close, thrown>>

-----------------------------------------------------------------------------
AcceptStep(t) == \/ Start(t)
                 \/ Insert(t)
                 \/ StartAccept(t)

Next == \/ \E t \in pool :
             \/ Accepted(t) \/ AcceptFails(t) \/ AcceptStep(t)
             \/ Close(t) \/ ClearSession(t)
             \/ \E s \in Session :
                  \/ MessageRead(t, s) \/ WriteDone(t, s)
                  \/ InvalidHead(t, s) \/ HeadThrows(t, s)
                  \/ \E op \in {"read", "write"} : HandlerFails(t, s, op)
        \/ \E s \in Session : PeerLeaves(s) \/ Reply(s)

\* A thread goes on with its handler; and an operation on a socket that can only
\* fail does fail some time, on whichever thread is idle then, because what a
\* peer wrote before it left is finite and the io_context is first come, first
\* served.
Fairness ==
  /\ \A t \in Thread : WF_vars(AcceptStep(t)) /\ WF_vars(Close(t) \/ ClearSession(t))
  /\ \A s \in Session : \A op \in {"read", "write"} :
        SF_vars(\E t \in pool : HandlerFails(t, s, op))

Spec == Init /\ [][Next /\ UNCHANGED pool]_<<vars, pool>> /\ Fairness

-----------------------------------------------------------------------------
\* The types; and that a session an accept is outstanding for is a new one.
TypeOK == /\ made \subseteq Session
          /\ acceptor \in (made \ sessions) \cup {NoSession}
          /\ armed \in [Session -> SUBSET {"read", "write"}]
          /\ queued \in [Session -> BOOLEAN]
          /\ gone \in [Session -> BOOLEAN]
          /\ b_close \in [Session -> BOOLEAN]
          /\ sessions \subseteq made
          /\ job \in [Thread -> Job]
          /\ early \subseteq made /\ thrown \subseteq made

\* A session is dead when no operation, no queued message and no handler holds
\* it: only the server's map can still keep the object, and nobody erases it.
Dead(s) == /\ s \in made \ {acceptor}
           /\ armed[s] = {} /\ ~queued[s]
           /\ \A t \in Thread : job[t].s # s

\* A dead session stays in the map in two cases only: the first handler of its
\* read gave it up, on another thread, between the statements Start and insert
\* of HandleAccept, so that ClearSession came first and found nothing to erase;
\* or its HandleRead ended in the catch.
StaleOnlyIfEarlyOrThrown == \A s \in sessions : Dead(s) => s \in early \cup thrown

\* The server accepts again after every connection and every failed accept and
\* never twice at a time: there is always exactly one of an outstanding accept
\* and a handler that will start the next (none once the sessions are used up).
Accepting(t) == job[t].at \in {"start", "insert", "restart"}
Accepts == Cardinality({t \in Thread : Accepting(t)}) + (IF acceptor = NoSession THEN 0 ELSE 1)
OneAccept == Accepts <= 1 /\ (made # Session => Accepts = 1)

\* The safety of HandleAccept against the handlers of the sessions it starts: one
\* accept, and no dead session in the map but those erased too early and those
\* whose HandleRead threw.
Safe == TypeOK /\ OneAccept /\ StaleOnlyIfEarlyOrThrown

\* On a pool of one thread, a session whose peer has left leaves the map, unless
\* its HandleRead threw.
GoneIsErased == \A s \in Session :
  gone[s] /\ Cardinality(pool) = 1 ~> (s \notin sessions \/ s \in thrown)

\* A session whose peer has left leaves the map unless it was erased before it
\* was inserted or its HandleRead threw.
GoneIsErasedUnlessEarly == \A s \in Session :
  gone[s] ~> (s \notin sessions \/ s \in early \cup thrown)
=============================================================================
