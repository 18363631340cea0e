-------------------------------- MODULE List --------------------------------
(***************************************************************************)
(* The doubly linked list of basic/STL (myList.h): two sentinel nodes, and  *)
(* the nodes between them linked both ways.  A node stands for its data.    *)
(* One iterator of a caller walks the list, inserts and erases; the calls   *)
(* are the legal ones: an iterator whose node was deleted is not used until *)
(* it is taken anew, and nothing is inserted before the head sentinel.      *)
(***************************************************************************)
EXTENDS Functions, Sequences, FiniteSets, Naturals

CONSTANTS
  Node,   \* nodes that can be allocated
  head, tail,
  null

ListAssumption == /\ head # tail /\ null \notin {head, tail}
                  /\ {head, tail, null} \cap Node = {}

VARIABLES
  next, prev,  \* links of the nodes
  live,        \* nodes allocated and not deleted
  it           \* node_ptr of the caller's iterator, null when it is not valid

vars == <<next, prev, live, it>>

All == Node \cup {head, tail, null}

Init == /\ next = [n \in All |-> IF n = head THEN tail ELSE null]
        /\ prev = [n \in All |-> IF n = tail THEN head ELSE null]
        /\ live = {}
        /\ it = tail

-----------------------------------------------------------------------------
\* Mutant of insert: the node after the new one keeps its link back.
insertOneWay(old, newp) ==
  LET old_prev == prev[old] IN
    /\ newp \notin live
    /\ next' = [next EXCEPT ![old_prev] = newp, ![newp] = old]
    /\ prev' = [prev EXCEPT ![newp] = old_prev]
    /\ live' = live \cup {newp}

\* insert: a new node before old.
insert(old, newp) ==
  LET old_prev == prev[old] IN
    /\ newp \notin live
    /\ next' = [next EXCEPT ![old_prev] = newp, ![newp] = old]
    /\ prev' = [prev EXCEPT ![newp] = old_prev, ![old] = newp]
    /\ live' = live \cup {newp}

\* erase, of a node between the sentinels; the links of a deleted node are gone.
erase(cur) ==
  /\ next' = [next EXCEPT ![prev[cur]] = next[cur], ![cur] = null]
  /\ prev' = [prev EXCEPT ![next[cur]] = prev[cur], ![cur] = null]
  /\ live' = live \ {cur}

\* What an erase elsewhere leaves of the caller's iterator.
Kept(cur) == IF it = cur THEN null ELSE it

push_front(n) == insert(next[head], n) /\ UNCHANGED it
push_back(n) == insert(tail, n) /\ UNCHANGED it

empty == next[head] = tail

pop_front == ~empty /\ erase(next[head]) /\ it' = Kept(next[head])
pop_back == ~empty /\ erase(prev[tail]) /\ it' = Kept(prev[tail])

clear == /\ live' = {}
         /\ next' = [n \in All |-> IF n = head THEN tail ELSE null]
         /\ prev' = [n \in All |-> IF n = tail THEN head ELSE null]
         /\ it' = IF it \in {head, tail} THEN it ELSE null

-----------------------------------------------------------------------------
(* The iterator.  ++ stops at the tail sentinel, -- at the head sentinel. *)

Begin == it' = next[head] /\ UNCHANGED <<next, prev, live>>
End == it' = tail /\ UNCHANGED <<next, prev, live>>

Increment == /\ it # null
             /\ next[it] # null
             /\ it' = next[it]
             /\ UNCHANGED <<next, prev, live>>

Decrement == /\ it # null
             /\ prev[it] # null
             /\ it' = prev[it]
             /\ UNCHANGED <<next, prev, live>>

\* it = l.insert(it, val).
InsertAtIt(n) == /\ it \notin {null, head}
                 /\ insert(it, n)
                 /\ it' = n

\* it = l.erase(it): on a sentinel nothing is erased and the iterator is end().
EraseAtIt == /\ it # null
             /\ IF it \in {head, tail}
                THEN it' = tail /\ UNCHANGED <<next, prev, live>>
                ELSE erase(it) /\ it' = next[it]

Next == \/ \E n \in Node : push_front(n) \/ push_back(n) \/ InsertAtIt(n)
        \/ pop_front \/ pop_back \/ clear
        \/ Begin \/ End \/ Increment \/ Decrement
        \/ EraseAtIt

Spec == Init /\ [][Next]_vars

-----------------------------------------------------------------------------
\* The node after k steps from the head, and the nodes such a walk passes, as
\* print and clear do, in as many steps as there are nodes.
Step[k \in Nat] == IF k = 0 THEN head ELSE next[Step[k - 1]]
Elements == [k \in 1..Cardinality(live) |-> Step[k]]

\* Between the sentinels the links back are the inverse of the links forward,
\* the walk forward meets every node that is allocated, each once, and no node
\* that was deleted, and ends at the tail (myList.h:109-131): nothing leaks and
\* nothing is reached after its delete.  An iterator that is valid points into
\* this list.
ListSafe ==
  /\ \A m \in live \cup {head} : next[m] # null /\ prev[next[m]] = m
  /\ Range(Elements) = live
  /\ Step[Cardinality(live) + 1] = tail
  /\ it \in live \cup {head, tail, null}

\* Inserting and erasing, at the ends or at an iterator, does to the sequence
\* of elements what a sequence container promises.
Container == INSTANCE SeqContainer WITH elems <- Elements, Value <- Node
ListIsContainer == Container!Spec
=============================================================================
