---------------------------- MODULE LogicSystem ----------------------------
(***************************************************************************)
(* The message queue of asio/Async (LogicSystem.cpp): the io threads post  *)
(* received messages, one worker thread waits for them on a condition      *)
(* variable and runs the callback registered for their id while it still   *)
(* holds the mutex, and the destructor, at process exit, sets _b_stop,     *)
(* notifies and joins the worker.                                          *)
(*                                                                         *)
(* Two things make this queue delicate.  PostMsgToQue notifies only when   *)
(* the queue has just become non-empty, so a worker that goes to sleep on  *)
(* a non-empty queue is never woken by later posts.  The destructor writes *)
(* _b_stop and notifies without the mutex, so both may fall between the    *)
(* worker's test of its wait condition and its entry into the wait set;    *)
(* the test and the entry are therefore two steps here.                    *)
(***************************************************************************)
EXTENDS SequencesExt, Naturals

CONSTANTS
  LogicNode,   \* the nodes HandleRead makes: each is posted at most once
  Registered   \* those whose _msg_id has an entry in _fun_callback

ASSUME RegisteredAssumption == Registered \subseteq LogicNode

VARIABLES
  mutex,       \* who holds _mutex: "free" or "worker"
  msg_que,     \* _msg_que
  b_stop,      \* _b_stop
  pc,          \* where DealMsg is
  dtor,        \* where ~LogicSystem is
  posted,      \* history: nodes pushed by PostMsgToQue
  taken,       \* history: nodes DealMsg has taken up, in that order
  called       \* history: nodes whose callback was called

vars == <<mutex, msg_que, b_stop, pc, dtor, posted, taken, called>>
history == <<posted, taken, called>>

WorkerPC == {"lock", "check", "block", "waiting", "woken", "test",
             "deal", "pop", "drain", "drainPop", "exited"}
DtorPC == {"none", "notify", "join", "done"}

Init == /\ mutex = "free"
        /\ msg_que = << >>
        /\ b_stop = FALSE
        /\ pc = "lock"
        /\ dtor = "none"
        /\ posted = << >>
        /\ taken = << >>
        /\ called = << >>

\* Whether PostMsgToQue notifies, given the queue it has just pushed to.
\* Mutant: compared before the push it has made.
NotifiesLate(q) == Len(q) = 2
Notifies(q) == Len(q) = 1

\* The find in _fun_callback.
Found(m) == m \in Registered

\* The condition of DealMsg's wait.  Mutant: the flag is not part of it.
WaitsForWork == msg_que = << >>
MustWait == msg_que = << >> /\ ~b_stop

\* _consume.notify_one(): the worker is the only thread that ever waits.
AfterNotify == IF pc = "waiting" THEN "woken" ELSE pc

(***************************************************************************)
(* PostMsgToQue.  Nothing it touches is reachable without _mutex, so the   *)
(* critical section is one step, enabled while the mutex is free.  The     *)
(* io threads are joined before static objects are destroyed, so nothing   *)
(* is posted once the destructor has begun.                                *)
(***************************************************************************)
PostMsgToQue(m) ==
  /\ dtor = "none"
  /\ mutex = "free"
  /\ m \notin ToSet(posted)
  /\ msg_que' = Append(msg_que, m)
  /\ posted' = Append(posted, m)
  /\ pc' = IF Notifies(msg_que') THEN AfterNotify ELSE pc
  /\ UNCHANGED <<mutex, b_stop, dtor, taken, called>>

-----------------------------------------------------------------------------
(* DealMsg, the worker thread. *)

Lock == /\ pc = "lock"
        /\ mutex = "free"
        /\ mutex' = "worker"
        /\ pc' = "check"
        /\ UNCHANGED <<msg_que, b_stop, dtor, history>>

\* while (_msg_que.empty() && !_b_stop)
CheckCondition == /\ pc = "check"
                  /\ pc' = IF MustWait THEN "block" ELSE "test"
                  /\ UNCHANGED <<mutex, msg_que, b_stop, dtor, history>>

\* _consume.wait: release the mutex and enter the wait set in one step.
Wait == /\ pc = "block"
        /\ mutex' = "free"
        /\ pc' = "waiting"
        /\ UNCHANGED <<msg_que, b_stop, dtor, history>>

\* A condition variable may return from wait with nobody having notified it.
SpuriousWakeup == /\ pc = "waiting"
                  /\ pc' = "woken"
                  /\ UNCHANGED <<mutex, msg_que, b_stop, dtor, history>>

\* Still inside wait: the mutex is taken again before the condition is tested.
Reacquire == /\ pc = "woken"
             /\ mutex = "free"
             /\ mutex' = "worker"
             /\ pc' = "check"
             /\ UNCHANGED <<msg_que, b_stop, dtor, history>>

\* if (_b_stop), a second read of the flag.
TestStop == /\ pc = "test"
            /\ pc' = IF b_stop THEN "drain" ELSE "deal"
            /\ UNCHANGED <<mutex, msg_que, b_stop, dtor, history>>

\* front() and, if its id is registered, the call; the node stays in front.
CallBack(next) ==
  /\ Found(Head(msg_que))
  /\ taken' = Append(taken, Head(msg_que))
  /\ called' = Append(called, Head(msg_que))
  /\ pc' = next
  /\ UNCHANGED <<mutex, msg_que, b_stop, dtor, posted>>

\* Mutant of Discard: continue without the pop before it.
DiscardKeeps(next) ==
  /\ ~Found(Head(msg_que))
  /\ taken' = Append(taken, Head(msg_que))
  /\ pc' = next
  /\ UNCHANGED <<msg_que, b_stop, dtor, posted, called>>

\* front() of an unregistered id: popped without a call.
Discard(next) ==
  /\ ~Found(Head(msg_que))
  /\ taken' = Append(taken, Head(msg_que))
  /\ msg_que' = Tail(msg_que)
  /\ pc' = next
  /\ UNCHANGED <<b_stop, dtor, posted, called>>

Deal == /\ pc = "deal"
        /\ msg_que # << >>
        /\ CallBack("pop")

\* The continue leaves the scope of unique_lk.
DealUnregistered == /\ pc = "deal"
                    /\ msg_que # << >>
                    /\ Discard("lock")
                    /\ mutex' = "free"

\* pop() after the callback; the end of the iteration unlocks.
Pop == /\ pc = "pop"
       /\ msg_que' = Tail(msg_que)
       /\ mutex' = "free"
       /\ pc' = "lock"
       /\ UNCHANGED <<b_stop, dtor, history>>

\* The loop that empties the queue once _b_stop has been seen.
Drain == /\ pc = "drain"
         /\ msg_que # << >>
         /\ CallBack("drainPop")

DrainUnregistered == /\ pc = "drain"
                     /\ msg_que # << >>
                     /\ Discard("drain")
                     /\ UNCHANGED mutex

DrainPop == /\ pc = "drainPop"
            /\ msg_que' = Tail(msg_que)
            /\ pc' = "drain"
            /\ UNCHANGED <<mutex, b_stop, dtor, history>>

\* break: the thread function returns and the lock is released.
Exit == /\ pc = "drain"
        /\ msg_que = << >>
        /\ mutex' = "free"
        /\ pc' = "exited"
        /\ UNCHANGED <<msg_que, b_stop, dtor, history>>

Worker == \/ Lock \/ CheckCondition \/ Wait \/ Reacquire \/ TestStop
          \/ Deal \/ DealUnregistered \/ Pop
          \/ Drain \/ DrainUnregistered \/ DrainPop \/ Exit

-----------------------------------------------------------------------------
(* ~LogicSystem: three steps, none of them under the mutex. *)

SetStop == /\ dtor = "none"
           /\ b_stop' = TRUE
           /\ dtor' = "notify"
           /\ UNCHANGED <<mutex, msg_que, pc, history>>

NotifyStop == /\ dtor = "notify"
              /\ pc' = AfterNotify
              /\ dtor' = "join"
              /\ UNCHANGED <<mutex, msg_que, b_stop, history>>

Join == /\ dtor = "join"
        /\ pc = "exited"
        /\ dtor' = "done"
        /\ UNCHANGED <<mutex, msg_que, b_stop, pc, history>>

Destructor == NotifyStop \/ Join

-----------------------------------------------------------------------------
Next == \/ \E m \in LogicNode : PostMsgToQue(m)
        \/ Worker
        \/ SpuriousWakeup
        \/ SetStop
        \/ Destructor

\* A thread that can run does run; nobody owes a post, a spurious wakeup or
\* the process's exit.
Fairness == WF_vars(Worker) /\ WF_vars(Destructor)

Spec == Init /\ [][Next]_vars /\ Fairness

-----------------------------------------------------------------------------
(* What the queue still owes: the front stays in msg_que while its callback *)
(* runs, and is no longer owed then.                                        *)
Owed == IF pc \in {"pop", "drainPop"} THEN Tail(msg_que) ELSE msg_que

\* The types, and that only nodes with a registered id reach a callback
\* (the find == end branches of DealMsg).
TypeOK == /\ mutex \in {"free", "worker"}
          /\ msg_que \in Seq(LogicNode)
          /\ b_stop \in BOOLEAN
          /\ pc \in WorkerPC
          /\ dtor \in DtorPC
          /\ posted \in Seq(LogicNode)
          /\ taken \in Seq(LogicNode)
          /\ called \in Seq(Registered)

\* The worker never sleeps on a non-empty queue: PostMsgToQue, which notifies
\* only a queue of size one, would not wake it for the later posts either.
NoSleepOnWork == pc = "waiting" => msg_que = << >>

\* Every node is taken up once and in the order of the posts, whichever of the
\* two loops of DealMsg takes it up: what was posted is what was taken
\* followed by what is still owed.
TakenInPostOrder == posted = taken \o Owed

\* The worker thread returns only when nothing posted is left unhandled, also
\* when _b_stop is set while messages are queued or a callback is running.
DrainedAtExit == pc = "exited" => /\ taken = posted
                                  /\ mutex = "free"

\* The safety of the queue: PostMsgToQue never leaves the worker asleep on what
\* it posted, and DealMsg takes every node up once, in order, and all of them
\* before it returns.
Safe == TypeOK /\ NoSleepOnWork /\ TakenInPostOrder /\ DrainedAtExit

\* join() returns unless the destructor's notify_one fell between the worker's
\* test of the wait condition and its entry into the wait set.
JoinReturns == (dtor = "join" /\ pc \notin {"block", "waiting"}) ~> (dtor = "done")

\* The queue implements the abstract mailbox: taking a node is the step that
\* takes it up, closing is the destructor's first step.  Its fairness says that
\* every posted node is taken up, also those posted while the worker is about to
\* sleep and those still queued when the destructor runs.
Box == INSTANCE Mailbox WITH Item <- LogicNode, pending <- Owed,
                             taken <- taken, open <- (dtor = "none")
MailboxSpec == Box!Spec
=============================================================================
