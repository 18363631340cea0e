------------------------------ MODULE Mailbox ------------------------------
(***************************************************************************)
(* What a queue between threads promises, whatever lock, condition         *)
(* variable or shutdown flag it is built with: what is put is taken, in    *)
(* the order it was put, each item once, and nothing put before the queue  *)
(* is closed stays behind.  LogicSystem and Logger implement it.           *)
(***************************************************************************)
EXTENDS Sequences

CONSTANT Item

VARIABLES
  pending,  \* put and not yet taken
  taken,    \* history of the items taken
  open      \* the owner has not begun to shut the queue down

vars == <<pending, taken, open>>

Init == /\ pending = << >>
        /\ taken = << >>
        /\ open = TRUE

Put(m) == /\ open
          /\ pending' = Append(pending, m)
          /\ UNCHANGED <<taken, open>>

Take == /\ pending # << >>
        /\ taken' = Append(taken, Head(pending))
        /\ pending' = Tail(pending)
        /\ UNCHANGED open

Close == /\ open
         /\ open' = FALSE
         /\ UNCHANGED <<pending, taken>>

Next == \/ \E m \in Item : Put(m)
        \/ Take
        \/ Close

Spec == Init /\ [][Next]_vars /\ WF_vars(Take)
=============================================================================
