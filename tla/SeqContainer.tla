---------------------------- MODULE SeqContainer ----------------------------
(***************************************************************************)
(* What a sequence container promises: every operation inserts one element  *)
(* at a position, removes one, or clears, and leaves the others in their    *)
(* order.  Deque and List implement it.                                     *)
(***************************************************************************)
EXTENDS Sequences, Naturals

CONSTANT Value

VARIABLE elems

\* The sequence with v at position i, and without what is at position i.
InsertAt(s, i, v) == SubSeq(s, 1, i - 1) \o <<v>> \o SubSeq(s, i, Len(s))
RemoveAt(s, i) == SubSeq(s, 1, i - 1) \o SubSeq(s, i + 1, Len(s))

Init == elems = << >>

Next == \/ \E i \in 1..Len(elems) + 1, v \in Value : elems' = InsertAt(elems, i, v)
        \/ \E i \in 1..Len(elems) : elems' = RemoveAt(elems, i)
        \/ elems' = << >>

Spec == Init /\ [][Next]_elems
=============================================================================
