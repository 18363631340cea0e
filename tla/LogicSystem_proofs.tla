------------------------- MODULE LogicSystem_proofs -------------------------
(***************************************************************************)
(* Proofs about LogicSystem, for every set of nodes and of registered ids.  *)
(*                                                                          *)
(* None of the invariants that matter is inductive alone.  That the worker  *)
(* never sleeps on a non-empty queue needs that the queue cannot change     *)
(* between the test of the wait condition and the entry into the wait set,  *)
(* which is what holding the mutex there gives; that the drain leaves       *)
(* nothing behind needs that nothing is posted once _b_stop is set.  IInv   *)
(* puts these facts together.                                               *)
(***************************************************************************)
EXTENDS LogicSystem, TLAPS

\* The mutex is held exactly at the statements that use the queue.
Holding == {"check", "block", "test", "deal", "pop", "drain", "drainPop"}
MutexInv == mutex = IF pc \in Holding THEN "worker" ELSE "free"

\* What DealMsg knows of the queue at each statement.
QueueInv == /\ pc \in {"block", "waiting", "exited"} => msg_que = << >>
            /\ pc = "test" => msg_que # << >> \/ b_stop
            /\ pc \in {"deal", "pop", "drainPop"} => msg_que # << >>

\* The flag is set by the destructor only, and the drain begins after it.
StopInv == /\ b_stop <=> dtor # "none"
           /\ pc \in {"drain", "drainPop", "exited"} => b_stop

IInv == TypeOK /\ MutexInv /\ QueueInv /\ StopInv /\ TakenInPostOrder

-----------------------------------------------------------------------------
(* Facts about sequences. *)

\* Taking the first of what is owed keeps the order of everything.
LEMMA MoveHead ==
  ASSUME NEW S, NEW t \in Seq(S), NEW q \in Seq(S), q # << >>
  PROVE  /\ Head(q) \in S
         /\ Tail(q) \in Seq(S)
         /\ t \o q = Append(t, Head(q)) \o Tail(q)
  OBVIOUS

\* With nothing owed, what was taken is all.
LEMMA ConcatEmpty ==
  ASSUME NEW S, NEW t \in Seq(S)
  PROVE  t \o << >> = t
  OBVIOUS

-----------------------------------------------------------------------------
(* The invariant. *)

\* The constructor establishes the invariant.
LEMMA InitInv == Init => IInv
<1> SUFFICES ASSUME Init PROVE IInv
  OBVIOUS
<1>1. TypeOK
  <2>1. << >> \in Seq(LogicNode) /\ << >> \in Seq(Registered)
    OBVIOUS
  <2> QED
    BY <2>1 DEF Init, TypeOK, WorkerPC, DtorPC
<1>2. MutexInv /\ QueueInv /\ StopInv
  BY DEF Init, MutexInv, Holding, QueueInv, StopInv
<1>3. TakenInPostOrder
  <2>1. posted = << >> /\ taken = << >> /\ Owed = << >>
    BY DEF Init, Owed
  <2>2. << >> \o << >> = << >>
    BY ConcatEmpty
  <2> QED
    BY <2>1, <2>2 DEF TakenInPostOrder
<1> QED
  BY <1>1, <1>2, <1>3 DEF IInv

\* A post only happens with the mutex free: the worker is then at "lock",
\* "waiting", "woken" or "exited", and "exited" is excluded by the flag.
LEMMA PostInv ==
  ASSUME IInv, NEW m \in LogicNode, PostMsgToQue(m)
  PROVE  IInv'
<1> USE DEF IInv, PostMsgToQue
<1>1. /\ pc \in {"lock", "waiting", "woken"}
      /\ pc' \in {"lock", "woken"}
  <2>1. pc \in {"lock", "waiting", "woken"}
    BY DEF MutexInv, Holding, StopInv, TypeOK, WorkerPC
  <2>2. CASE pc = "waiting"
    <3>1. msg_que = << >>
      BY <2>2 DEF QueueInv
    <3>2. Len(msg_que') = 1
      BY <3>1
    <3> QED
      BY <2>2, <3>2 DEF Notifies, AfterNotify
  <2>3. CASE pc # "waiting"
    BY <2>1, <2>3 DEF AfterNotify
  <2> QED
    BY <2>2, <2>3
<1>2. TypeOK'
  BY <1>1 DEF TypeOK, WorkerPC
<1>3. MutexInv'
  BY <1>1 DEF MutexInv, Holding
<1>4. QueueInv'
  BY <1>1 DEF QueueInv
<1>5. StopInv'
  BY <1>1 DEF StopInv
<1>6. TakenInPostOrder'
  <2>1. Owed = msg_que /\ Owed' = msg_que'
    BY <1>1 DEF Owed
  <2>2. posted' = Append(taken \o msg_que, m)
    BY <2>1 DEF TakenInPostOrder
  <2>3. taken \in Seq(LogicNode) /\ msg_que \in Seq(LogicNode)
    BY DEF TypeOK
  <2>4. Append(taken \o msg_que, m) = taken \o Append(msg_que, m)
    <3> HIDE DEF IInv, PostMsgToQue
    <3> QED
      BY <2>3
  <2> QED
    BY <2>1, <2>2, <2>4 DEF TakenInPostOrder
<1> QED
  BY <1>2, <1>3, <1>4, <1>5, <1>6

\* The steps of the worker that neither take up nor pop a node.
LEMMA ControlInv ==
  ASSUME IInv,
         \/ Lock \/ CheckCondition \/ Wait \/ SpuriousWakeup \/ Reacquire
         \/ TestStop \/ Exit
  PROVE  IInv'
<1> USE DEF IInv, history
<1>1. TypeOK'
  BY DEF TypeOK, WorkerPC, Lock, CheckCondition, Wait, SpuriousWakeup, Reacquire, TestStop, Exit
<1>2. MutexInv'
  BY DEF MutexInv, Holding, Lock, CheckCondition, Wait, SpuriousWakeup, Reacquire, TestStop, Exit
<1>3. QueueInv'
  BY DEF QueueInv, MustWait, Lock, CheckCondition, Wait, SpuriousWakeup, Reacquire, TestStop, Exit
<1>4. StopInv'
  BY DEF StopInv, Lock, CheckCondition, Wait, SpuriousWakeup, Reacquire, TestStop, Exit
<1>5. TakenInPostOrder'
  BY DEF TakenInPostOrder, Owed, Lock, CheckCondition, Wait, SpuriousWakeup, Reacquire,
         TestStop, Exit
<1> QED
  BY <1>1, <1>2, <1>3, <1>4, <1>5

\* A callback moves the front from what is owed to what is taken.
LEMMA CallBackInv ==
  ASSUME IInv, Deal \/ Drain
  PROVE  IInv'
<1> USE DEF IInv, CallBack
<1>1. /\ msg_que # << >> /\ Found(Head(msg_que))
      /\ pc \in {"deal", "drain"}
      /\ pc = "deal" => pc' = "pop"
      /\ pc = "drain" => pc' = "drainPop"
      /\ taken' = Append(taken, Head(msg_que))
      /\ called' = Append(called, Head(msg_que))
      /\ UNCHANGED <<mutex, msg_que, b_stop, dtor, posted>>
  BY DEF Deal, Drain
<1>2. /\ Head(msg_que) \in LogicNode
      /\ taken \o msg_que = Append(taken, Head(msg_que)) \o Tail(msg_que)
  BY <1>1, MoveHead DEF TypeOK
<1>3. TypeOK'
  BY <1>1, <1>2 DEF TypeOK, WorkerPC, Found
<1>4. MutexInv' /\ QueueInv' /\ StopInv'
  BY <1>1 DEF MutexInv, Holding, QueueInv, StopInv
<1>5. TakenInPostOrder'
  <2>1. Owed = msg_que /\ Owed' = Tail(msg_que)
    BY <1>1 DEF Owed
  <2> QED
    BY <1>1, <1>2, <2>1 DEF TakenInPostOrder
<1> QED
  BY <1>3, <1>4, <1>5

\* A node with an unregistered id is taken up and popped in one step.
LEMMA DiscardInv ==
  ASSUME IInv, DealUnregistered \/ DrainUnregistered
  PROVE  IInv'
<1> USE DEF IInv, Discard
<1>1. /\ msg_que # << >>
      /\ pc \in {"deal", "drain"}
      /\ pc = "deal" => pc' = "lock" /\ mutex' = "free"
      /\ pc = "drain" => pc' = "drain" /\ mutex' = mutex
      /\ taken' = Append(taken, Head(msg_que))
      /\ msg_que' = Tail(msg_que)
      /\ UNCHANGED <<b_stop, dtor, posted, called>>
  BY DEF DealUnregistered, DrainUnregistered
<1>2. /\ Head(msg_que) \in LogicNode
      /\ Tail(msg_que) \in Seq(LogicNode)
      /\ taken \o msg_que = Append(taken, Head(msg_que)) \o Tail(msg_que)
  BY <1>1, MoveHead DEF TypeOK
<1>3. TypeOK'
  BY <1>1, <1>2 DEF TypeOK, WorkerPC
<1>4. MutexInv' /\ QueueInv' /\ StopInv'
  BY <1>1 DEF MutexInv, Holding, QueueInv, StopInv
<1>5. TakenInPostOrder'
  <2>1. Owed = msg_que /\ Owed' = msg_que'
    BY <1>1 DEF Owed
  <2> QED
    BY <1>1, <1>2, <2>1 DEF TakenInPostOrder
<1> QED
  BY <1>3, <1>4, <1>5

\* The pop after a callback removes a node that is not owed any more.
LEMMA PopInv ==
  ASSUME IInv, Pop \/ DrainPop
  PROVE  IInv'
<1> USE DEF IInv, history
<1>1. /\ pc \in {"pop", "drainPop"}
      /\ pc = "pop" => pc' = "lock" /\ mutex' = "free"
      /\ pc = "drainPop" => pc' = "drain" /\ mutex' = mutex
      /\ msg_que' = Tail(msg_que)
      /\ UNCHANGED <<b_stop, dtor, posted, taken, called>>
  BY DEF Pop, DrainPop
<1>2. msg_que # << >> /\ Tail(msg_que) \in Seq(LogicNode)
  BY <1>1, MoveHead DEF QueueInv, TypeOK
<1>3. TypeOK'
  BY <1>1, <1>2 DEF TypeOK, WorkerPC
<1>4. MutexInv' /\ QueueInv' /\ StopInv'
  BY <1>1 DEF MutexInv, Holding, QueueInv, StopInv
<1>5. TakenInPostOrder'
  <2>1. Owed = Tail(msg_que) /\ Owed' = msg_que'
    BY <1>1 DEF Owed
  <2> QED
    BY <1>1, <2>1 DEF TakenInPostOrder
<1> QED
  BY <1>3, <1>4, <1>5

\* The destructor touches the flag and the wait set, never the queue.
LEMMA DestructorInv ==
  ASSUME IInv, SetStop \/ NotifyStop \/ Join
  PROVE  IInv'
<1> USE DEF IInv, history, SetStop, NotifyStop, Join
<1>1. /\ pc' = pc \/ (pc = "waiting" /\ pc' = "woken")
      /\ UNCHANGED <<mutex, msg_que, posted, taken, called>>
  BY DEF AfterNotify
<1>2. TypeOK'
  BY <1>1 DEF TypeOK, WorkerPC, DtorPC
<1>3. MutexInv'
  BY <1>1 DEF MutexInv, Holding
<1>4. QueueInv'
  BY <1>1 DEF QueueInv, StopInv
<1>5. StopInv'
  BY <1>1 DEF StopInv
<1>6. TakenInPostOrder'
  BY <1>1 DEF TakenInPostOrder, Owed
<1> QED
  BY <1>2, <1>3, <1>4, <1>5, <1>6

\* Steps of nobody keep it.
LEMMA StutterInv ==
  ASSUME IInv, UNCHANGED vars
  PROVE  IInv'
  BY DEF IInv, vars, TypeOK, MutexInv, QueueInv, StopInv, TakenInPostOrder, Owed

\* At every moment of PostMsgToQue, DealMsg and ~LogicSystem: who holds _mutex,
\* what is known of _msg_que there, and that no node was lost or reordered.
THEOREM InductiveInvariant == Spec => []IInv
<1>1. Init => IInv
  BY InitInv
<1>2. IInv /\ [Next]_vars => IInv'
  <2> SUFFICES ASSUME IInv, [Next]_vars PROVE IInv'
    OBVIOUS
  <2>1. CASE \E m \in LogicNode : PostMsgToQue(m)
    BY <2>1, PostInv
  <2>2. CASE \/ Lock \/ CheckCondition \/ Wait \/ SpuriousWakeup \/ Reacquire
             \/ TestStop \/ Exit
    BY <2>2, ControlInv
  <2>3. CASE Deal \/ Drain
    BY <2>3, CallBackInv
  <2>4. CASE DealUnregistered \/ DrainUnregistered
    BY <2>4, DiscardInv
  <2>5. CASE Pop \/ DrainPop
    BY <2>5, PopInv
  <2>6. CASE SetStop \/ NotifyStop \/ Join
    BY <2>6, DestructorInv
  <2>7. CASE UNCHANGED vars
    BY <2>7, StutterInv
  <2> QED
    BY <2>1, <2>2, <2>3, <2>4, <2>5, <2>6, <2>7 DEF Next, Worker, Destructor
<1> QED
  BY <1>1, <1>2, PTL DEF Spec

-----------------------------------------------------------------------------
(* What follows from it. *)

\* Only nodes with a registered id ever reach a callback of DealMsg.
THEOREM TypeCorrect == Spec => []TypeOK
<1>1. IInv => TypeOK
  BY DEF IInv
<1> QED
  BY <1>1, InductiveInvariant, PTL

\* PostMsgToQue may notify a queue of size one only: the worker in the wait set
\* never has anything to do.
THEOREM NoLostPost == Spec => []NoSleepOnWork
<1>1. IInv => NoSleepOnWork
  BY DEF IInv, QueueInv, NoSleepOnWork
<1> QED
  BY <1>1, InductiveInvariant, PTL

\* DealMsg takes every posted node up once, in the order of the posts.
THEOREM InPostOrder == Spec => []TakenInPostOrder
<1>1. IInv => TakenInPostOrder
  BY DEF IInv
<1> QED
  BY <1>1, InductiveInvariant, PTL

\* The worker thread leaves nothing behind and the mutex unlocked.
THEOREM DrainComplete == Spec => []DrainedAtExit
<1>1. IInv => DrainedAtExit
  <2> SUFFICES ASSUME IInv, pc = "exited" PROVE taken = posted /\ mutex = "free"
    BY DEF DrainedAtExit
  <2>1. msg_que = << >> /\ mutex = "free"
    BY DEF IInv, QueueInv, MutexInv, Holding
  <2>2. posted = taken \o << >>
    BY <2>1 DEF IInv, TakenInPostOrder, Owed
  <2> QED
    BY <2>1, <2>2, ConcatEmpty DEF IInv, TypeOK
<1> QED
  BY <1>1, InductiveInvariant, PTL

-----------------------------------------------------------------------------
(* The queue implements the mailbox (its safety part). *)

\* A step of the mailbox, or none: a post puts, taking a node up takes, the
\* destructor's first step closes, and everything else is internal.
LEMMA StepSimulation ==
  ASSUME IInv, [Next]_vars
  PROVE  [Box!Next]_(Box!vars)
<1> USE DEF IInv, history
<1>1. CASE \E m \in LogicNode : PostMsgToQue(m)
  <2>1. PICK m \in LogicNode : PostMsgToQue(m)
    BY <1>1
  <2>2. pc \in {"lock", "waiting", "woken"} /\ pc' \in {"lock", "waiting", "woken"}
    BY <2>1 DEF PostMsgToQue, AfterNotify, MutexInv, Holding, StopInv, TypeOK, WorkerPC
  <2>3. Owed = msg_que /\ Owed' = Append(msg_que, m)
    BY <2>1, <2>2 DEF PostMsgToQue, Owed
  <2>4. Box!Put(m)
    BY <2>1, <2>3 DEF PostMsgToQue, Box!Put
  <2> QED
    BY <2>4 DEF Box!Next
<1>2. CASE Deal \/ Drain \/ DealUnregistered \/ DrainUnregistered
  <2>1. /\ pc \in {"deal", "drain"} /\ msg_que # << >>
        /\ taken' = Append(taken, Head(msg_que))
        /\ dtor' = dtor
        /\ \/ pc' \in {"pop", "drainPop"} /\ msg_que' = msg_que
           \/ pc' \in {"lock", "drain"} /\ msg_que' = Tail(msg_que)
    BY <1>2 DEF Deal, Drain, DealUnregistered, DrainUnregistered, CallBack, Discard
  <2>2. Owed = msg_que /\ Owed' = Tail(msg_que)
    BY <2>1 DEF Owed
  <2>3. Box!Take
    BY <2>1, <2>2 DEF Box!Take
  <2> QED
    BY <2>3 DEF Box!Next
<1>3. CASE Pop \/ DrainPop
  <2>1. Owed' = Owed /\ taken' = taken /\ dtor' = dtor
    BY <1>3 DEF Pop, DrainPop, Owed
  <2> QED
    BY <2>1 DEF Box!vars
<1>4. CASE SetStop
  <2>1. Owed' = Owed /\ taken' = taken /\ dtor = "none" /\ dtor' = "notify"
    BY <1>4 DEF SetStop, Owed
  <2>2. Box!Close
    BY <2>1 DEF Box!Close
  <2> QED
    BY <2>2 DEF Box!Next
<1>5. CASE \/ Lock \/ CheckCondition \/ Wait \/ SpuriousWakeup \/ Reacquire
           \/ TestStop \/ Exit \/ NotifyStop \/ Join \/ UNCHANGED vars
  <2>1. Owed' = Owed /\ taken' = taken /\ (dtor = "none" <=> dtor' = "none")
    BY <1>5 DEF Lock, CheckCondition, Wait, SpuriousWakeup, Reacquire, TestStop, Exit,
                NotifyStop, AfterNotify, Join, vars, Owed
  <2> QED
    BY <2>1 DEF Box!vars
<1> QED
  BY <1>1, <1>2, <1>3, <1>4, <1>5 DEF Next, Worker, Destructor

\* Whatever the threads do, the history of posts, dispatches and the shutdown
\* is one of the abstract mailbox (its liveness is checked by TLC only).
THEOREM ImplementsMailbox == Spec => Box!Init /\ [][Box!Next]_(Box!vars)
<1>1. Init => Box!Init
  BY DEF Init, Box!Init, Owed
<1>2. IInv /\ [Next]_vars => [Box!Next]_(Box!vars)
  BY StepSimulation
<1> QED
  BY <1>1, <1>2, InductiveInvariant, PTL DEF Spec

\* The safety the runs check, for every set of messages: no sleep on work, every
\* node taken once and in order, and all of them before the worker returns.
THEOREM SafeAlways == Spec => []Safe
<1>1. TypeOK /\ NoSleepOnWork /\ TakenInPostOrder /\ DrainedAtExit => Safe
  BY DEF Safe
<1> QED
  BY <1>1, TypeCorrect, NoLostPost, InPostOrder, DrainComplete, PTL
=============================================================================
