------------------------------- MODULE Logger -------------------------------
(***************************************************************************)
(* The asynchronous logger of basic/final1 (log.h): threads push formatted  *)
(* lines on a logQueue, the logger's worker thread pops them and writes     *)
(* them to the file, and the destructor shuts the queue down, joins the     *)
(* worker and closes the file.                                              *)
(*                                                                          *)
(* Unlike the queue of asio/Async, everything push, pop and shutdown touch  *)
(* is touched under the queue's mutex, the flag included, so each of them   *)
(* is one step, up to the wait inside pop; and the worker writes a line     *)
(* after it has left pop, while other lines are pushed.                     *)
(***************************************************************************)
EXTENDS SequencesExt, Naturals

CONSTANTS
  Thread,   \* threads that log
  MaxLogs   \* bound: lines a thread logs

LoggerAssumption == MaxLogs \in Nat

VARIABLES
  queue_,        \* queue_ of the logQueue
  is_shutdown_,  \* its flag
  worker,        \* where the worker thread is: in "pop", "waiting" inside it,
                 \*   at the "write" of what it has popped, or "exited"
  msg,           \* its variable msg, as a sequence of one line at "write"
  log_file_,     \* lines written to the file
  is_open,       \* the file is open
  dtor,          \* where ~Logger is
  logged         \* history: lines pushed, in the order of the pushes

vars == <<queue_, is_shutdown_, worker, msg, log_file_, is_open, dtor, logged>>

\* The k-th line of a thread.
Line == [thread : Thread, k : 1..MaxLogs]

Init == /\ queue_ = << >>
        /\ is_shutdown_ = FALSE
        /\ worker = "pop"
        /\ msg = << >>
        /\ log_file_ = << >>
        /\ is_open = TRUE
        /\ dtor = "none"
        /\ logged = << >>

\* The worker after a notification.  Mutant: nobody notifies.
NotNotified == worker
Notified == IF worker = "waiting" THEN "pop" ELSE worker

-----------------------------------------------------------------------------
(* log, ending in logQueue::push.  A logger that is being destroyed is not  *)
(* called any more.                                                         *)

Count(t) == Len(SelectSeq(logged, LAMBDA l : l.thread = t))

Log(t) ==
  /\ dtor = "none"
  /\ Count(t) < MaxLogs
  /\ LET line == [thread |-> t, k |-> Count(t) + 1] IN
       /\ queue_' = Append(queue_, line)
       /\ logged' = Append(logged, line)
  /\ worker' = Notified
  /\ UNCHANGED <<is_shutdown_, msg, log_file_, is_open, dtor>>

-----------------------------------------------------------------------------
(* The worker: while (log_queue_.pop(msg)) log_file_ << msg. *)

\* The predicate of the wait.
Ready == queue_ # << >> \/ is_shutdown_

PopWaits == /\ worker = "pop"
            /\ ~Ready
            /\ worker' = "waiting"
            /\ UNCHANGED <<queue_, is_shutdown_, msg, log_file_, is_open, dtor, logged>>

\* The wait may end unnotified; pop then evaluates the predicate again.
SpuriousWakeup == /\ worker = "waiting"
                  /\ worker' = "pop"
                  /\ UNCHANGED <<queue_, is_shutdown_, msg, log_file_, is_open, dtor, logged>>

\* if (is_shutdown_ && queue_.empty()) return false.  Mutant: the queue is not
\* looked at.
ShutDown == is_shutdown_
EndOfQueue == is_shutdown_ /\ queue_ = << >>

PopEnds == /\ worker = "pop"
           /\ Ready /\ EndOfQueue
           /\ worker' = "exited"
           /\ UNCHANGED <<queue_, is_shutdown_, msg, log_file_, is_open, dtor, logged>>

PopTakes == /\ worker = "pop"
            /\ Ready /\ ~EndOfQueue
            /\ msg' = <<Head(queue_)>>
            /\ queue_' = Tail(queue_)
            /\ worker' = "write"
            /\ UNCHANGED <<is_shutdown_, log_file_, is_open, dtor, logged>>

Write == /\ worker = "write"
         /\ log_file_' = log_file_ \o msg
         /\ msg' = << >>
         /\ worker' = "pop"
         /\ UNCHANGED <<queue_, is_shutdown_, is_open, dtor, logged>>

Worker == PopWaits \/ PopEnds \/ PopTakes \/ Write

-----------------------------------------------------------------------------
(* ~Logger. *)

\* Mutant of Shutdown: without the notify_all.
ShutdownQuietly ==
  /\ dtor = "none"
  /\ is_shutdown_' = TRUE
  /\ dtor' = "join"
  /\ UNCHANGED <<queue_, worker, msg, log_file_, is_open, logged>>

\* logQueue::shutdown.
Shutdown == /\ dtor = "none"
            /\ is_shutdown_' = TRUE
            /\ worker' = Notified
            /\ dtor' = "join"
            /\ UNCHANGED <<queue_, msg, log_file_, is_open, logged>>

Join == /\ dtor = "join"
        /\ worker = "exited"
        /\ dtor' = "close"
        /\ UNCHANGED <<queue_, is_shutdown_, worker, msg, log_file_, is_open, logged>>

CloseFile == /\ dtor = "close"
             /\ is_open' = FALSE
             /\ dtor' = "done"
             /\ UNCHANGED <<queue_, is_shutdown_, worker, msg, log_file_, logged>>

Destructor == Join \/ CloseFile

-----------------------------------------------------------------------------
Next == \/ \E t \in Thread : Log(t)
        \/ Worker
        \/ SpuriousWakeup
        \/ Shutdown
        \/ Destructor

\* The two threads run; nobody owes a line, a wakeup or the destruction.
Fairness == WF_vars(Worker) /\ WF_vars(Destructor)

Spec == Init /\ [][Next]_vars /\ Fairness

-----------------------------------------------------------------------------
\* The types; and that the worker only ever writes to an open file.
TypeOK == /\ queue_ \in Seq(Line)
          /\ is_shutdown_ \in BOOLEAN
          /\ worker \in {"pop", "waiting", "write", "exited"}
          /\ msg \in Seq(Line)
          /\ log_file_ \in Seq(Line)
          /\ is_open \in BOOLEAN
          /\ worker = "write" => is_open
          /\ dtor \in {"none", "join", "close", "done"}
          /\ logged \in Seq(Line)

\* The lines are written once each and in the order of the pushes: those in the
\* file, the one in the worker's hand and those in the queue are all of them.
WrittenInLogOrder == logged = log_file_ \o msg \o queue_

\* The file the destructor closes holds every line, also those pushed just
\* before it and those still queued when the flag was set.
ClosedComplete == ~is_open => log_file_ = logged

\* The worker does not sleep on a line, nor once the queue has been shut down.
NoSleepOnLines == worker = "waiting" => queue_ = << >> /\ ~is_shutdown_

\* The safety of the logger: nothing logged is lost, repeated, reordered or slept
\* on between push and the close of the file.
Safe == TypeOK /\ WrittenInLogOrder /\ ClosedComplete /\ NoSleepOnLines

\* The destructor returns, at whatever moment of the worker it begins.
DestructorReturns == (dtor # "none") ~> (dtor = "done")

\* The logger implements the abstract mailbox: an item is taken when it is
\* written, and the shutdown closes it.  Its fairness says that every line is
\* written, without waiting for another line or the shutdown.
Box == INSTANCE Mailbox WITH Item <- Line, pending <- msg \o queue_,
                             taken <- log_file_, open <- (dtor = "none")
MailboxSpec == Box!Spec
=============================================================================
