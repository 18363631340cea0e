--------------------------- MODULE CServer_proofs ---------------------------
(***************************************************************************)
(* Proofs about CServer, for every set of sessions and of threads.          *)
(*                                                                          *)
(* Neither property is inductive.  One accept needs that what accepts, the  *)
(* acceptor or a thread in HandleAccept, is unique (AcceptInv), without     *)
(* counting.  That a dead session in the map was erased early, or that its  *)
(* HandleRead threw, needs to know who will erase the others: the read that *)
(* is outstanding, or a thread on its way to ClearSession (Erasable).  That *)
(* must hold of a session when it is inserted, and so from its Start on,    *)
(* and a session that has not been started is held by nobody else (Fresh).  *)
(***************************************************************************)
EXTENDS CServer, FiniteSetTheorems, TLAPS

Closing(t, s) == job[t].s = s /\ job[t].at \in {"close", "erase"}

\* The one thing that accepts.
AcceptInv ==
  /\ \A t \in Thread : Accepting(t) => acceptor = NoSession
  /\ \A t, u \in Thread : Accepting(t) /\ Accepting(u) => t = u
  /\ made # Session => acceptor # NoSession \/ \E t \in Thread : Accepting(t)

\* A session that is new or being started has no operation and no handler.
Unstarted(s) == \/ s \notin made \/ s = acceptor
                \/ \E t \in Thread : job[t].s = s /\ job[t].at = "start"

Fresh(s) == Unstarted(s) => /\ armed[s] = {} /\ ~queued[s]
                            /\ s \notin sessions /\ s \notin early /\ s \notin thrown
                            /\ \A t \in Thread : ~Closing(t, s)

\* A session in the map, or about to be inserted, that was not erased early and
\* whose HandleRead did not throw has a read outstanding or a thread that will
\* erase it.
Inserting(s) == \E t \in Thread : job[t].s = s /\ job[t].at = "insert"

Erasable(s) == (s \in sessions \/ Inserting(s)) /\ s \notin early \cup thrown =>
                 "read" \in armed[s] \/ \E t \in Thread : Closing(t, s)

\* A handler is one of a session that was made, and in HandleAccept not of one
\* an accept is outstanding for.
JobInv == \A t \in Thread : job[t] # Idle => job[t].s \in made

IInv == /\ TypeOK /\ pool \subseteq Thread
        /\ AcceptInv /\ JobInv
        /\ \A s \in Session : Fresh(s) /\ Erasable(s)

-----------------------------------------------------------------------------
\* The server starts with one accept and no handler.
LEMMA InitInv == Init => IInv
<1> SUFFICES ASSUME Init PROVE IInv
  OBVIOUS
<1>1. PICK s \in Session : /\ acceptor = s /\ made = {s}
                           /\ armed = [r \in Session |-> {}]
                           /\ queued = [r \in Session |-> FALSE]
                           /\ gone = [r \in Session |-> FALSE]
                           /\ b_close = [r \in Session |-> FALSE]
                           /\ sessions = {}
                           /\ job = [t \in Thread |-> Idle]
                           /\ early = {} /\ thrown = {}
                           /\ pool \in Pool
  BY DEF Init
<1>2. \A t \in Thread : job[t] = Idle /\ job[t].at = "idle" /\ job[t].s = NoSession
  BY <1>1 DEF Idle
<1>3. TypeOK /\ pool \subseteq Thread
  BY <1>1, ThreadAssumption DEF TypeOK, Job
<1>4. AcceptInv /\ JobInv
  BY <1>1, <1>2, NoSessionAssumption DEF AcceptInv, Accepting, JobInv
<1>5. \A r \in Session : Fresh(r) /\ Erasable(r)
  BY <1>1, <1>2, NoSessionAssumption DEF Fresh, Erasable, Inserting, Closing
<1> QED
  BY <1>3, <1>4, <1>5 DEF IInv

-----------------------------------------------------------------------------
\* What a handler is about, by its next statement.
LEMMA JobOf ==
  ASSUME TypeOK, NEW t \in Thread
  PROVE  /\ job[t].at \in Statement \cup {"idle"}
         /\ job[t].at = "idle" <=> job[t] = Idle
         /\ job[t].at # "idle" => job[t].s \in Session
         /\ job[t].at = "idle" => job[t].s = NoSession
BY DEF TypeOK, Job, Idle, Statement

-----------------------------------------------------------------------------
(* HandleAccept. *)

\* The acceptor hands over to the thread that runs HandleAccept.
LEMMA AcceptedInv ==
  ASSUME IInv, UNCHANGED pool, NEW t \in Thread, Accepted(t)
  PROVE  IInv'
<1> USE NoSessionAssumption, JobOf
    DEF Accepted, GoTo, Done, Idle, IInv, TypeOK, AcceptInv, JobInv, Accepting
<1>1. TypeOK' /\ pool' \subseteq Thread
  BY DEF Job, Statement
<1>2. \A u \in Thread : u # t => job'[u] = job[u]
  OBVIOUS
<1>3. AcceptInv'
  BY <1>1, <1>2
<1>4. JobInv'
  BY <1>1, <1>2 DEF Fresh, Unstarted
<1>5. ASSUME NEW r \in Session PROVE Fresh(r)'
  BY <1>1, <1>2 DEF Fresh, Unstarted, Closing
<1>6. ASSUME NEW r \in Session PROVE Erasable(r)'
  BY <1>1, <1>2 DEF Fresh, Unstarted, Erasable, Inserting, Closing
<1> QED
  BY <1>1, <1>3, <1>4, <1>5, <1>6

\* The session of a failed accept is in no map and never started.
LEMMA AcceptFailsInv ==
  ASSUME IInv, UNCHANGED pool, NEW t \in Thread, AcceptFails(t)
  PROVE  IInv'
<1> USE NoSessionAssumption, JobOf
    DEF AcceptFails, GoTo, Done, Idle, IInv, TypeOK, AcceptInv, JobInv, Accepting
<1>1. TypeOK' /\ pool' \subseteq Thread
  BY DEF Job, Statement
<1>2. \A u \in Thread : u # t => job'[u] = job[u]
  OBVIOUS
<1>3. AcceptInv'
  BY <1>1, <1>2
<1>4. JobInv'
  BY <1>1, <1>2 DEF Fresh, Unstarted
<1>5. ASSUME NEW r \in Session PROVE Fresh(r)'
  BY <1>1, <1>2 DEF Fresh, Unstarted, Closing
<1>6. ASSUME NEW r \in Session PROVE Erasable(r)'
  BY <1>1, <1>2 DEF Fresh, Unstarted, Erasable, Inserting, Closing
<1> QED
  BY <1>1, <1>3, <1>4, <1>5, <1>6

\* Start makes the read outstanding that keeps the session erasable.
LEMMA StartInv ==
  ASSUME IInv, UNCHANGED pool, NEW t \in Thread, Start(t)
  PROVE  IInv'
<1> USE NoSessionAssumption, JobOf
    DEF Start, GoTo, Done, Idle, IInv, TypeOK, AcceptInv, JobInv, Accepting
<1>1. TypeOK' /\ pool' \subseteq Thread
  BY DEF Job, Statement
<1>2. \A u \in Thread : u # t => job'[u] = job[u]
  OBVIOUS
<1>3. AcceptInv'
  BY <1>1, <1>2
<1>4. JobInv'
  BY <1>1, <1>2 DEF Fresh, Unstarted
<1>5. ASSUME NEW r \in Session PROVE Fresh(r)'
  BY <1>1, <1>2 DEF Fresh, Unstarted, Closing
<1>6. ASSUME NEW r \in Session PROVE Erasable(r)'
  BY <1>1, <1>2 DEF Fresh, Unstarted, Erasable, Inserting, Closing
<1> QED
  BY <1>1, <1>3, <1>4, <1>5, <1>6

\* What is inserted was erasable before.
LEMMA InsertInv ==
  ASSUME IInv, UNCHANGED pool, NEW t \in Thread, Insert(t)
  PROVE  IInv'
<1> USE NoSessionAssumption, JobOf
    DEF Insert, GoTo, Done, Idle, IInv, TypeOK, AcceptInv, JobInv, Accepting
<1>1. TypeOK' /\ pool' \subseteq Thread
  BY DEF Job, Statement
<1>2. \A u \in Thread : u # t => job'[u] = job[u]
  OBVIOUS
<1>3. AcceptInv'
  BY <1>1, <1>2
<1>4. JobInv'
  BY <1>1, <1>2 DEF Fresh, Unstarted
<1>5. ASSUME NEW r \in Session PROVE Fresh(r)'
  BY <1>1, <1>2 DEF Fresh, Unstarted, Closing
<1>6. ASSUME NEW r \in Session PROVE Erasable(r)'
  BY <1>1, <1>2 DEF Fresh, Unstarted, Erasable, Inserting, Closing
<1> QED
  BY <1>1, <1>3, <1>4, <1>5, <1>6

\* The thread hands over to the acceptor, with a session that is new.
LEMMA StartAcceptInv ==
  ASSUME IInv, UNCHANGED pool, NEW t \in Thread, StartAccept(t)
  PROVE  IInv'
<1> USE NoSessionAssumption, JobOf
    DEF StartAccept, GoTo, Done, Idle, IInv, TypeOK, AcceptInv, JobInv, Accepting
<1>1. TypeOK' /\ pool' \subseteq Thread
  BY DEF Job, Statement
<1>2. \A u \in Thread : u # t => job'[u] = job[u]
  OBVIOUS
<1>3. AcceptInv'
  BY <1>1, <1>2
<1>4. JobInv'
  BY <1>1, <1>2 DEF Fresh, Unstarted
<1>5. ASSUME NEW r \in Session PROVE Fresh(r)'
  BY <1>1, <1>2 DEF Fresh, Unstarted, Closing
<1>6. ASSUME NEW r \in Session PROVE Erasable(r)'
  BY <1>1, <1>2 DEF Fresh, Unstarted, Erasable, Inserting, Closing
<1> QED
  BY <1>1, <1>3, <1>4, <1>5, <1>6

-----------------------------------------------------------------------------
(* The handlers of the sessions. *)

\* The read stays outstanding.
LEMMA MessageReadInv ==
  ASSUME IInv, UNCHANGED pool, NEW t \in Thread, NEW s \in Session,
         MessageRead(t, s)
  PROVE  IInv'
<1> USE NoSessionAssumption, JobOf
    DEF MessageRead, Runs, GoTo, Done, Idle, IInv, TypeOK, AcceptInv, JobInv, Accepting
<1>1. TypeOK' /\ pool' \subseteq Thread
  BY DEF Job, Statement
<1>2. \A u \in Thread : u # t => job'[u] = job[u]
  OBVIOUS
<1>3. AcceptInv'
  BY <1>1, <1>2
<1>4. JobInv'
  BY <1>1, <1>2 DEF Fresh, Unstarted
<1>5. ASSUME NEW r \in Session PROVE Fresh(r)'
  BY <1>1, <1>2 DEF Fresh, Unstarted, Closing
<1>6. ASSUME NEW r \in Session PROVE Erasable(r)'
  BY <1>1, <1>2 DEF Fresh, Unstarted, Erasable, Inserting, Closing
<1> QED
  BY <1>1, <1>3, <1>4, <1>5, <1>6

\* Only the write ends.
LEMMA WriteDoneInv ==
  ASSUME IInv, UNCHANGED pool, NEW t \in Thread, NEW s \in Session,
         WriteDone(t, s)
  PROVE  IInv'
<1> USE NoSessionAssumption, JobOf
    DEF WriteDone, Runs, GoTo, Done, Idle, IInv, TypeOK, AcceptInv, JobInv, Accepting
<1>1. TypeOK' /\ pool' \subseteq Thread
  BY DEF Job, Statement
<1>2. \A u \in Thread : u # t => job'[u] = job[u]
  OBVIOUS
<1>3. AcceptInv'
  BY <1>1, <1>2
<1>4. JobInv'
  BY <1>1, <1>2 DEF Fresh, Unstarted
<1>5. ASSUME NEW r \in Session PROVE Fresh(r)'
  BY <1>1, <1>2 DEF Fresh, Unstarted, Closing
<1>6. ASSUME NEW r \in Session PROVE Erasable(r)'
  BY <1>1, <1>2 DEF Fresh, Unstarted, Erasable, Inserting, Closing
<1> QED
  BY <1>1, <1>3, <1>4, <1>5, <1>6

\* The read may end: the thread is then on its way to ClearSession.
LEMMA HandlerFailsInv ==
  ASSUME IInv, UNCHANGED pool, NEW t \in Thread, NEW s \in Session, NEW op \in {"read", "write"},
         HandlerFails(t, s, op)
  PROVE  IInv'
<1> USE NoSessionAssumption, JobOf
    DEF HandlerFails, Runs, GoTo, Done, Idle, IInv, TypeOK, AcceptInv, JobInv, Accepting
<1>1. TypeOK' /\ pool' \subseteq Thread
  BY DEF Job, Statement
<1>2. \A u \in Thread : u # t => job'[u] = job[u]
  OBVIOUS
<1>3. AcceptInv'
  BY <1>1, <1>2
<1>4. JobInv'
  BY <1>1, <1>2 DEF Fresh, Unstarted
<1>5. ASSUME NEW r \in Session PROVE Fresh(r)'
  BY <1>1, <1>2 DEF Fresh, Unstarted, Closing
<1>6. ASSUME NEW r \in Session PROVE Erasable(r)'
  BY <1>1, <1>2 DEF Fresh, Unstarted, Erasable, Inserting, Closing
<1> QED
  BY <1>1, <1>3, <1>4, <1>5, <1>6

\* The read ends: the thread is about to call ClearSession.
LEMMA InvalidHeadInv ==
  ASSUME IInv, UNCHANGED pool, NEW t \in Thread, NEW s \in Session,
         InvalidHead(t, s)
  PROVE  IInv'
<1> USE NoSessionAssumption, JobOf
    DEF InvalidHead, Runs, GoTo, Done, Idle, IInv, TypeOK, AcceptInv, JobInv, Accepting
<1>1. TypeOK' /\ pool' \subseteq Thread
  BY DEF Job, Statement
<1>2. \A u \in Thread : u # t => job'[u] = job[u]
  OBVIOUS
<1>3. AcceptInv'
  BY <1>1, <1>2
<1>4. JobInv'
  BY <1>1, <1>2 DEF Fresh, Unstarted
<1>5. ASSUME NEW r \in Session PROVE Fresh(r)'
  BY <1>1, <1>2 DEF Fresh, Unstarted, Closing
<1>6. ASSUME NEW r \in Session PROVE Erasable(r)'
  BY <1>1, <1>2 DEF Fresh, Unstarted, Erasable, Inserting, Closing
<1> QED
  BY <1>1, <1>3, <1>4, <1>5, <1>6

\* The read ends and nobody will erase the session, which is one that threw.
LEMMA HeadThrowsInv ==
  ASSUME IInv, UNCHANGED pool, NEW t \in Thread, NEW s \in Session,
         HeadThrows(t, s)
  PROVE  IInv'
<1> USE NoSessionAssumption, JobOf
    DEF HeadThrows, Runs, GoTo, Done, Idle, IInv, TypeOK, AcceptInv, JobInv, Accepting
<1>1. TypeOK' /\ pool' \subseteq Thread
  BY DEF Job, Statement, Fresh, Unstarted
<1>2. \A u \in Thread : u # t => job'[u] = job[u]
  OBVIOUS
<1>3. AcceptInv'
  BY <1>1, <1>2
<1>4. JobInv'
  BY <1>1, <1>2 DEF Fresh, Unstarted
<1>5. ASSUME NEW r \in Session PROVE Fresh(r)'
  BY <1>1, <1>2 DEF Fresh, Unstarted, Closing
<1>6. ASSUME NEW r \in Session PROVE Erasable(r)'
  BY <1>1, <1>2 DEF Fresh, Unstarted, Erasable, Inserting, Closing
<1> QED
  BY <1>1, <1>3, <1>4, <1>5, <1>6

\* The thread goes on to ClearSession.
LEMMA CloseInv ==
  ASSUME IInv, UNCHANGED pool, NEW t \in Thread, Close(t)
  PROVE  IInv'
<1> USE NoSessionAssumption, JobOf
    DEF Close, GoTo, Done, Idle, IInv, TypeOK, AcceptInv, JobInv, Accepting
<1>1. TypeOK' /\ pool' \subseteq Thread
  BY DEF Job, Statement
<1>2. \A u \in Thread : u # t => job'[u] = job[u]
  OBVIOUS
<1>3. AcceptInv'
  BY <1>1, <1>2
<1>4. JobInv'
  BY <1>1, <1>2 DEF Fresh, Unstarted
<1>5. ASSUME NEW r \in Session PROVE Fresh(r)'
  BY <1>1, <1>2 DEF Fresh, Unstarted, Closing
<1>6. ASSUME NEW r \in Session PROVE Erasable(r)'
  BY <1>1, <1>2 DEF Fresh, Unstarted, Erasable, Inserting, Closing
<1> QED
  BY <1>1, <1>3, <1>4, <1>5, <1>6

\* The session is out of the map, or was erased early if it is still to be inserted.
LEMMA ClearSessionInv ==
  ASSUME IInv, UNCHANGED pool, NEW t \in Thread, ClearSession(t)
  PROVE  IInv'
<1> USE NoSessionAssumption, JobOf
    DEF ClearSession, NotYetInserted, GoTo, Done, Idle, IInv, TypeOK, AcceptInv, JobInv, Accepting
<1>1. TypeOK' /\ pool' \subseteq Thread
  BY DEF Job, Statement
<1>2. \A u \in Thread : u # t => job'[u] = job[u]
  OBVIOUS
<1>3. AcceptInv'
  BY <1>1, <1>2
<1>4. JobInv'
  BY <1>1, <1>2 DEF Fresh, Unstarted
<1>5. ASSUME NEW r \in Session PROVE Fresh(r)'
  BY <1>1, <1>2 DEF Fresh, Unstarted, Closing
<1>6. ASSUME NEW r \in Session PROVE Erasable(r)'
  BY <1>1, <1>2 DEF Fresh, Unstarted, Erasable, Inserting, Closing
<1> QED
  BY <1>1, <1>3, <1>4, <1>5, <1>6

-----------------------------------------------------------------------------
(* The peers and the logic thread. *)

\* Neither touches what the server and the threads know of a session; a reply is
\* due only to a session that has been started.
LEMMA EnvironmentInv ==
  ASSUME IInv, UNCHANGED pool, NEW s \in Session, PeerLeaves(s) \/ Reply(s)
  PROVE  IInv'
<1> USE DEF PeerLeaves, Reply, IInv
<1>1. TypeOK' /\ pool' \subseteq Thread
  <2>1. CASE PeerLeaves(s)
    BY <2>1 DEF TypeOK
  <2>2. CASE Reply(s)
    <3>1. armed' \in [Session -> SUBSET {"read", "write"}]
      BY <2>2 DEF TypeOK
    <3>2. queued' \in [Session -> BOOLEAN]
      BY <2>2 DEF TypeOK
    <3> QED
      BY <2>2, <3>1, <3>2 DEF TypeOK
  <2> QED
    BY <2>1, <2>2
<1>2. AcceptInv' /\ JobInv'
  BY DEF AcceptInv, JobInv, Accepting
<1>3. ASSUME NEW r \in Session PROVE Fresh(r)'
  BY DEF TypeOK, Fresh, Unstarted, Closing
<1>4. ASSUME NEW r \in Session PROVE Erasable(r)'
  BY DEF TypeOK, Erasable, Inserting, Closing
<1> QED
  BY <1>1, <1>2, <1>3, <1>4

\* Every step preserves the invariant.
LEMMA NextInv == IInv /\ [Next /\ UNCHANGED pool]_<<vars, pool>> => IInv'
<1> SUFFICES ASSUME IInv, [Next /\ UNCHANGED pool]_<<vars, pool>> PROVE IInv'
  OBVIOUS
<1>1. CASE UNCHANGED <<vars, pool>>
  BY <1>1 DEF IInv, vars, TypeOK, AcceptInv, JobInv, Accepting, Fresh, Unstarted,
              Erasable, Inserting, Closing
<1>2. CASE Next /\ UNCHANGED pool
  <2>1. ASSUME NEW t \in pool, Accepted(t) \/ AcceptFails(t) \/ AcceptStep(t) PROVE IInv'
    <3>1. t \in Thread
      BY DEF IInv
    <3> QED
      BY <1>2, <2>1, <3>1, AcceptedInv, AcceptFailsInv, StartInv, InsertInv, StartAcceptInv
      DEF AcceptStep
  <2>2. ASSUME NEW t \in pool, Close(t) \/ ClearSession(t) PROVE IInv'
    <3>1. t \in Thread
      BY DEF IInv
    <3> QED
      BY <1>2, <2>2, <3>1, CloseInv, ClearSessionInv
  <2>3. ASSUME NEW t \in pool, NEW s \in Session,
               \/ MessageRead(t, s) \/ WriteDone(t, s)
               \/ InvalidHead(t, s) \/ HeadThrows(t, s)
               \/ \E op \in {"read", "write"} : HandlerFails(t, s, op)
        PROVE  IInv'
    <3>1. t \in Thread
      BY DEF IInv
    <3> QED
      BY <1>2, <2>3, <3>1, MessageReadInv, WriteDoneInv, InvalidHeadInv, HeadThrowsInv,
         HandlerFailsInv
  <2>4. ASSUME NEW s \in Session, PeerLeaves(s) \/ Reply(s) PROVE IInv'
    BY <1>2, <2>4, EnvironmentInv
  <2> QED
    BY <1>2, <2>1, <2>2, <2>3, <2>4 DEF Next
<1> QED
  BY <1>1, <1>2

\* The invariant holds in every behaviour.
THEOREM InductiveInvariant == Spec => []IInv
<1> QED
  BY InitInv, NextInv, PTL DEF Spec

-----------------------------------------------------------------------------
\* At most one acceptor or thread in HandleAccept: the threads that accept are
\* none or one, without a bound on the threads there are.
LEMMA InvOneAccept == IInv => OneAccept
<1> SUFFICES ASSUME IInv PROVE OneAccept
  OBVIOUS
<1> DEFINE A == {t \in Thread : Accepting(t)}
<1>1. CASE A = {}
  <2>1. Cardinality(A) = 0
    BY <1>1, FS_EmptySet
  <2> QED
    BY <1>1, <2>1 DEF IInv, AcceptInv, OneAccept, Accepts
<1>2. CASE A # {}
  <2>1. PICK t \in Thread : Accepting(t)
    BY <1>2
  <2>2. A = {t} /\ acceptor = NoSession
    BY <2>1 DEF IInv, AcceptInv
  <2>3. Cardinality(A) = 1
    BY <2>2, FS_Singleton
  <2> QED
    BY <2>2, <2>3 DEF OneAccept, Accepts
<1> QED
  BY <1>1, <1>2

\* What can still erase a session in the map holds it, so it is not dead.
LEMMA InvStale == IInv => StaleOnlyIfEarlyOrThrown
BY DEF IInv, TypeOK, Erasable, Closing, StaleOnlyIfEarlyOrThrown, Dead

\* There is never more than one accept, and one until the sessions are used up
\* (StartAccept at the end of HandleAccept, CServer.cpp:28).
THEOREM AlwaysAccepts == Spec => []OneAccept
<1> QED
  BY InductiveInvariant, InvOneAccept, PTL

\* A session that nothing holds any more is in the map only if it was erased
\* before it was inserted (CServer.cpp:20), or if its HandleRead ended in the
\* catch, which erases nothing (CSession.cpp:223).
THEOREM StaleSessions == Spec => []StaleOnlyIfEarlyOrThrown
<1> QED
  BY InductiveInvariant, InvStale, PTL

\* All that the run checks of HandleAccept against the handlers of the sessions,
\* for every set of sessions and pool of threads.
THEOREM SafeAlways == Spec => []Safe
<1>1. IInv => Safe
  BY InvOneAccept, InvStale DEF IInv, Safe
<1> QED
  BY <1>1, InductiveInvariant, PTL
=============================================================================
