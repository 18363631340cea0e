-------------------------------- MODULE Deque --------------------------------
(***************************************************************************)
(* The double-ended queue of basic/STL (mydeque.h): a ring in an array that *)
(* doubles when it is full.  size_t arithmetic is exact here: front_idx - 1 *)
(* may wrap, but adding capacity wraps it back.                             *)
(***************************************************************************)
EXTENDS Naturals, Sequences

CONSTANTS
  Value,            \* what the deque holds
  Junk,             \* content of a slot nobody has written
  InitialCapacity,  \* argument of the constructor, 10 by default
  MaxCount          \* bound: elements held at a time

DequeAssumption == /\ InitialCapacity \in Nat \ {0}
                   /\ MaxCount \in Nat
                   /\ Junk \notin Value

VARIABLES buffer, capacity, count, front_idx, back_idx

vars == <<buffer, capacity, count, front_idx, back_idx>>

Init == /\ capacity = InitialCapacity
        /\ buffer = [i \in 0..capacity - 1 |-> Junk]
        /\ count = 0
        /\ front_idx = 0
        /\ back_idx = 0

\* Slot of the element at a position, by which resize copies and iterators read.
Slot(pos) == (front_idx + pos) % capacity
Deref(pos) == buffer[Slot(pos)]

\* Mutant of Resized: the elements are copied slot by slot, as if the ring did
\* not wrap.
ResizedFlat == [buffer |-> [i \in 0..2 * capacity - 1 |-> IF i < count THEN buffer[i] ELSE Junk],
                capacity |-> 2 * capacity, front_idx |-> 0, back_idx |-> count]

\* The ring, and where it starts and ends, as resize leaves them.
Resized == [buffer |-> [i \in 0..2 * capacity - 1 |-> IF i < count THEN Deref(i) ELSE Junk],
            capacity |-> 2 * capacity, front_idx |-> 0, back_idx |-> count]

\* The ring a push finds: resized when it was full.
Room == IF count = capacity
        THEN Resized
        ELSE [buffer |-> buffer, capacity |-> capacity,
              front_idx |-> front_idx, back_idx |-> back_idx]

\* Mutant: after a resize the new element goes in front of where the old ring began.
push_frontFrozen(val) ==
  /\ count < MaxCount
  /\ LET r == Room
         f == (front_idx + r.capacity - 1) % r.capacity IN
       /\ buffer' = [r.buffer EXCEPT ![f] = val]
       /\ front_idx' = f
       /\ back_idx' = r.back_idx
       /\ capacity' = r.capacity
  /\ count' = count + 1

push_front(val) ==
  /\ count < MaxCount
  /\ LET r == Room
         f == (r.front_idx + r.capacity - 1) % r.capacity IN
       /\ buffer' = [r.buffer EXCEPT ![f] = val]
       /\ front_idx' = f
       /\ back_idx' = r.back_idx
       /\ capacity' = r.capacity
  /\ count' = count + 1

push_back(val) ==
  /\ count < MaxCount
  /\ LET r == Room IN
       /\ buffer' = [r.buffer EXCEPT ![r.back_idx] = val]
       /\ back_idx' = (r.back_idx + 1) % r.capacity
       /\ front_idx' = r.front_idx
       /\ capacity' = r.capacity
  /\ count' = count + 1

\* The pops of an empty deque throw and change nothing.
pop_front == /\ count # 0
             /\ front_idx' = (front_idx + 1) % capacity
             /\ count' = count - 1
             /\ UNCHANGED <<buffer, capacity, back_idx>>

\* Slot before back_idx: what pop_back drops and back() reads.
Last == IF back_idx = 0 THEN capacity - 1 ELSE back_idx - 1

pop_back == /\ count # 0
            /\ back_idx' = Last
            /\ count' = count - 1
            /\ UNCHANGED <<buffer, capacity, front_idx>>

front == buffer[front_idx]
back == buffer[Last]

Next == \/ \E v \in Value : push_front(v) \/ push_back(v)
        \/ pop_front
        \/ pop_back

Spec == Init /\ [][Next]_vars

-----------------------------------------------------------------------------
\* What an iteration from begin() to end() reads.
Elements == [i \in 1..count |-> Deref(i - 1)]

\* The indices stay within the ring and the two ends agree with the count: in
\* particular the ring is full, and not empty, when they meet after a push
\* (mydeque.h:47, 57).
IndicesAgree ==
  /\ capacity \in Nat \ {0} /\ count \in 0..capacity
  /\ front_idx \in 0..capacity - 1 /\ back_idx \in 0..capacity - 1
  /\ back_idx = Slot(count)
  /\ DOMAIN buffer = 0..capacity - 1

\* front() and back() read the ends of what an iteration reads, never a slot
\* that holds no element.
EndsAgree == count # 0 => /\ front = Elements[1]
                          /\ back = Elements[count]
                          /\ \A i \in 1..count : Elements[i] \in Value

DequeSafe == IndicesAgree /\ EndsAgree

\* Through wraps and resizes the deque stays the sequence its pushes and pops
\* make it.
Container == INSTANCE SeqContainer WITH elems <- Elements
DequeIsContainer == Container!Spec
=============================================================================
