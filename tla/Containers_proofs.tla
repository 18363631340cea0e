---------------------------- MODULE Containers_proofs ----------------------------
(***************************************************************************)
(* Proofs about Deque, for every capacity the constructor is given, and     *)
(* about List, for every set of nodes: each keeps its own order, and an     *)
(* iteration reads the sequence that SeqContainer describes; about          *)
(* SharedPtr, for every set of variables and finite set of objects: the     *)
(* counts count; about HashMap, for every hash function, capacity and load: *)
(* no node is lost or visited twice; about BinaryTreeMap, for every set of  *)
(* nodes and of keys: its tree stays one, and is walked in order; and about *)
(* AvlMap, for every finite set of keys: its tree is a search tree of the   *)
(* keys that were put and not removed, whatever its heights say.            *)
(*                                                                          *)
(* Deque: all indices are sums of two numbers below the capacity, so that   *)
(* the remainder is the sum or the sum less the capacity (Ring); the lemmas *)
(* about one push or pop are about rings as such, and the steps of the      *)
(* deque are instances of them.                                             *)
(*                                                                          *)
(* List: the links are a chain both ways through the nodes of a sequence    *)
(* (Chain), an insert or an erase at any position of it leaves a chain      *)
(* through the sequence with the node added or taken out, and the walk from *)
(* the head meets the nodes of the sequence (WalkIsChain), so that the      *)
(* sequence is what List calls its elements.                                *)
(*                                                                          *)
(* SharedPtr: what a release deletes is a path of objects, each owned by    *)
(* the one before it alone (Owned, Path), that ends where an object has     *)
(* another owner (DeletedFacts); it does not come back to the pointer       *)
(* released, since nothing but the path points into the path and a          *)
(* reachable pointer is entered from a variable (OwnedAvoids).  Counts are  *)
(* then right after the release (ReleaseCounted), and each operation is a   *)
(* release followed by one of four small changes that keep them right.      *)
(*                                                                          *)
(* HashMap: the nodes are counted as places, a bucket and a position        *)
(* (Nodes), a bucket at a time (BelowNext).  A rehash is one chain of all   *)
(* nodes (ChainedIs) that is spread over the buckets (SpreadIs), and insert *)
(* and erase change one chain (ChainChanged).  What a loop has visited is   *)
(* what lies before the iterator (Before), one place more at each step.     *)
(*                                                                          *)
(* BinaryTreeMap: a tree (IsTree) is a set of nodes, each of which holds a  *)
(* set of them and has a position from left to right; what hangs on the     *)
(* left of a node is what it holds at the positions before its own.  The    *)
(* functions that descend and climb exist since a rank falls along the      *)
(* links of all nodes, those that erase cuts off included (Ranked,          *)
(* RecursionExists).  insert puts a position next to that of the leaf it    *)
(* hangs the node from (Grown); erase takes out all that the deleted node   *)
(* holds (Shrunk).                                                          *)
(*                                                                          *)
(* AvlMap: a tree is a search tree of a set of keys (Shows) when a set of   *)
(* pairs of a tree and its keys holds it and, with a pair, those of its two *)
(* subtrees.  A rotation moves the boundaries of three key sets (PartsLeft, *)
(* PartsRight) and keeps their union, so that the balancing leaves the keys *)
(* as they are whichever of its branches the heights select; insert and     *)
(* deleteNode exist (TreeRecursion) since every operation on any tree gives *)
(* a tree or the mark of a crash (AvlResults), and change one subtree.      *)
(***************************************************************************)
EXTENDS Containers, SequenceTheorems, FiniteSetTheorems, WellFoundedInduction, TLAPS

\* Slot of the element at position p of a ring of c slots that starts at f.
Ring(f, p, c) == IF f + p < c THEN f + p ELSE f + p - c

\* b is a ring of c slots with n elements of Value from slot f.
IsRing(b, c, f, n) ==
  /\ c \in Nat \ {0} /\ f \in 0..(c - 1) /\ n \in 0..c
  /\ b \in [0..(c - 1) -> Value \cup {Junk}]
  /\ \A p \in 0..(n - 1) : b[Ring(f, p, c)] \in Value

\* IndicesAgree and EndsAgree as an induction needs them: the slots of all
\* elements hold values.
DInv == IsRing(buffer, capacity, front_idx, count) /\ back_idx = D!Slot(count)

-----------------------------------------------------------------------------
(* Rings. *)

Wraps(a, c) == a % c = IF a < c THEN a ELSE a - c

LEMMA ModOnce ==
  ASSUME NEW c \in Nat \ {0}, NEW a \in 0..(2 * c - 1)
  PROVE  Wraps(a, c)
BY DEF Wraps

LEMMA ModRing ==
  ASSUME NEW c \in Nat \ {0}, NEW f \in 0..(c - 1), NEW p \in 0..c
  PROVE  (f + p) % c = Ring(f, p, c) /\ Ring(f, p, c) \in 0..(c - 1)
<1>1. f + p \in 0..(2 * c - 1)
  OBVIOUS
<1>a. Wraps(f + p, c)
  BY <1>1, ModOnce
<1>2. (f + p) % c = IF f + p < c THEN f + p ELSE f + p - c
  BY <1>1, <1>a DEF Wraps
<1> QED
  BY <1>2 DEF Ring

\* What the two pushes and the two pops do to the start and the end of a ring.
Back1(f, c) == IF f = 0 THEN c - 1 ELSE f - 1

RingSteps(c, f) ==
  /\ (f + c - 1) % c = Back1(f, c) /\ Back1(f, c) \in 0..(c - 1)
  /\ (f + 1) % c = Ring(f, 1, c) /\ Ring(f, 1, c) \in 0..(c - 1)
  /\ \A p \in 0..(c - 1) : Ring(Back1(f, c), p + 1, c) = Ring(f, p, c)
  /\ \A p \in 0..(c - 1) : Ring(Ring(f, 1, c), p, c) = Ring(f, p + 1, c)
  /\ \A p \in 0..(c - 1) : Ring(Ring(f, p, c), 1, c) = Ring(f, p + 1, c)
  /\ \A p \in 0..(c - 1) : Back1(Ring(f, p + 1, c), c) = Ring(f, p, c)
  /\ \A p, q \in 0..(c - 1) : p # q => Ring(f, p, c) # Ring(f, q, c)
  /\ Ring(f, 0, c) = f /\ Ring(f, c, c) = f
  /\ Ring(Back1(f, c), 0, c) = Back1(f, c)
  /\ \A p \in 0..c : Ring(f, p, c) \in 0..(c - 1)

LEMMA RingArithmetic ==
  ASSUME NEW c \in Nat \ {0}, NEW f \in 0..(c - 1)
  PROVE  RingSteps(c, f)
<1>1. f + c - 1 \in 0..(2 * c - 1) /\ f + 1 \in 0..(2 * c - 1)
  OBVIOUS
<1>a. Wraps(f + c - 1, c) /\ Wraps(f + 1, c)
  BY <1>1, ModOnce
<1>2. (f + c - 1) % c = IF f + c - 1 < c THEN f + c - 1 ELSE f + c - 1 - c
  BY <1>a DEF Wraps
<1>3. (f + 1) % c = IF f + 1 < c THEN f + 1 ELSE f + 1 - c
  BY <1>a DEF Wraps
<1>4. (f + c - 1) % c = Back1(f, c) /\ Back1(f, c) \in 0..(c - 1)
  BY <1>2 DEF Back1
<1>5. (f + 1) % c = Ring(f, 1, c) /\ Ring(f, 1, c) \in 0..(c - 1)
  BY <1>3 DEF Ring
<1> QED
  BY <1>4, <1>5 DEF Ring, Back1, RingSteps

-----------------------------------------------------------------------------
(* Sequences to which one element is added at an end, or that lose it.      *)

LEMMA InsertFirst ==
  ASSUME NEW S, NEW q \in Seq(S), NEW v \in S, NEW r \in Seq(S), Len(r) = Len(q) + 1,
         r[1] = v, \A i \in 1..Len(q) : r[i + 1] = q[i]
  PROVE  r = D!Container!InsertAt(q, 1, v)
<1> DEFINE w == D!Container!InsertAt(q, 1, v)
           n == Len(q)
<1>1. n \in Nat
  OBVIOUS
<1>2. SubSeq(q, 1, 0) = << >> /\ SubSeq(q, 1, n) = q
  BY SubSeqFull
<1>3. w = << >> \o << v >> \o q
  BY <1>2 DEF D!Container!InsertAt
<1>4. w = << v >> \o q
  BY <1>3
<1>5. w \in Seq(S) /\ Len(w) = n + 1 /\ w[1] = v /\ \A i \in 1..n : w[i + 1] = q[i]
  <2> DEFINE e == << v >>
  <2>1. e \in Seq(S) /\ Len(e) = 1 /\ e[1] = v
    OBVIOUS
  <2>2. w = e \o q
    BY <1>4
  <2> HIDE DEF e, w, n
  <2>3. /\ e \o q \in Seq(S) /\ Len(e \o q) = Len(e) + Len(q)
        /\ \A i \in 1..Len(e) + Len(q) :
             (e \o q)[i] = IF i <= Len(e) THEN e[i] ELSE q[i - Len(e)]
    BY <2>1, ConcatProperties
  <2>4. /\ w \in Seq(S) /\ Len(w) = 1 + n
        /\ \A i \in 1..1 + n : w[i] = IF i <= 1 THEN e[i] ELSE q[i - 1]
    BY <2>1, <2>2, <2>3, Zenon DEF n
  <2>5. w[1] = v
    <3>1. 1 \in 1..1 + n
      BY <1>1
    <3> QED
      BY <2>1, <2>4, <3>1
  <2>6. ASSUME NEW i \in 1..n PROVE w[i + 1] = q[i]
    <3>1. i + 1 \in 1..1 + n /\ ~(i + 1 <= 1) /\ (i + 1) - 1 = i
      BY <1>1
    <3>2. w[i + 1] = q[(i + 1) - 1]
      BY <2>4, <3>1, Zenon
    <3> QED
      BY <3>1, <3>2, Zenon
  <2> QED
    BY <1>1, <2>4, <2>5, <2>6
<1> HIDE DEF w, n
<1>6. ASSUME NEW i \in 1..(n + 1) PROVE r[i] = w[i]
  <2>1. CASE i = 1
    BY <1>5, <2>1
  <2>2. CASE i # 1
    <3>1. i - 1 \in 1..n /\ (i - 1) + 1 = i
      BY <1>1, <2>2
    <3> QED
      BY <1>5, <3>1 DEF n
  <2> QED
    BY <2>1, <2>2
<1>7. r = w
  BY <1>5, <1>6 DEF n
<1> QED
  BY <1>7 DEF w

LEMMA InsertLast ==
  ASSUME NEW S, NEW q \in Seq(S), NEW v \in S, NEW r \in Seq(S), Len(r) = Len(q) + 1,
         r[Len(q) + 1] = v, \A i \in 1..Len(q) : r[i] = q[i]
  PROVE  r = D!Container!InsertAt(q, Len(q) + 1, v)
<1> DEFINE n == Len(q)
           w == D!Container!InsertAt(q, n + 1, v)
<1>1. n \in Nat /\ (n + 1) - 1 = n
  OBVIOUS
<1>2. SubSeq(q, 1, n) = q /\ SubSeq(q, n + 1, n) = << >>
  BY SubSeqFull
<1>3. w = q \o << v >> \o << >>
  BY <1>1, <1>2 DEF D!Container!InsertAt
<1>4. w \in Seq(S) /\ Len(w) = n + 1 /\ w[n + 1] = v /\ \A i \in 1..n : w[i] = q[i]
  <2>1. q \o << v >> = Append(q, v)
    BY AppendIsConcat
  <2>2. Append(q, v) \in Seq(S) /\ Append(q, v) \o << >> = Append(q, v)
    BY AppendProperties, ConcatEmptySeq
  <2>3. w = Append(q, v)
    BY <1>3, <2>1, <2>2, Zenon
  <2> HIDE DEF w
  <2> QED
    BY <2>3, AppendProperties
<1> HIDE DEF w, n
<1>5. \A i \in 1..(n + 1) : r[i] = w[i]
  BY <1>1, <1>4 DEF n
<1>6. r = w
  BY <1>4, <1>5 DEF n
<1> QED
  BY <1>6 DEF w, n

LEMMA RemoveFirst ==
  ASSUME NEW S, NEW q \in Seq(S), NEW r \in Seq(S), Len(q) # 0, Len(r) = Len(q) - 1,
         \A i \in 1..Len(r) : r[i] = q[i + 1]
  PROVE  r = D!Container!RemoveAt(q, 1)
<1> DEFINE n == Len(q)
           w == D!Container!RemoveAt(q, 1)
<1>1. n \in Nat \ {0}
  OBVIOUS
<1>2. SubSeq(q, 1, 0) = << >>
  OBVIOUS
<1>3. w = << >> \o SubSeq(q, 2, n)
  BY <1>2 DEF D!Container!RemoveAt
<1>4. w = SubSeq(q, 2, n)
  BY <1>1, <1>3
<1>5. w \in Seq(S) /\ Len(w) = n - 1 /\ \A i \in 1..(n - 1) : w[i] = q[i + 1]
  <2>1. q # << >>
    BY <1>1
  <2>2. w = Tail(q)
    BY <1>4, <2>1, TailIsSubSeq
  <2> HIDE DEF w
  <2> QED
    BY <2>1, <2>2, HeadTailProperties
<1>6. r = w
  BY <1>5
<1> QED
  BY <1>6

LEMMA RemoveLast ==
  ASSUME NEW S, NEW q \in Seq(S), NEW r \in Seq(S), Len(q) # 0, Len(r) = Len(q) - 1,
         \A i \in 1..Len(r) : r[i] = q[i]
  PROVE  r = D!Container!RemoveAt(q, Len(q))
<1> DEFINE n == Len(q)
           w == D!Container!RemoveAt(q, n)
<1>1. n \in Nat \ {0}
  OBVIOUS
<1>2. SubSeq(q, n + 1, n) = << >>
  OBVIOUS
<1>3. w = SubSeq(q, 1, n - 1) \o << >>
  BY <1>2 DEF D!Container!RemoveAt
<1>4. w = SubSeq(q, 1, n - 1)
  BY <1>1, <1>3
<1>5. w \in Seq(S) /\ Len(w) = n - 1 /\ \A i \in 1..(n - 1) : w[i] = q[i]
  BY <1>1, <1>4
<1>6. r = w
  BY <1>5
<1> QED
  BY <1>6

-----------------------------------------------------------------------------
(* What the operations do to a ring. *)

\* r has the elements of b, in their order, and room for another.
Holds(b, c, f, n, r, d, g) ==
  /\ IsRing(r, d, g, n) /\ n < d
  /\ \A p \in 0..(n - 1) : r[Ring(g, p, d)] = b[Ring(f, p, c)]

LEMMA RingPushFront ==
  ASSUME NEW b, NEW c, NEW f, NEW n, IsRing(b, c, f, n), n < c, NEW v \in Value,
         NEW g, g = Back1(f, c)
  PROVE  LET r == [b EXCEPT ![g] = v] IN
         /\ IsRing(r, c, g, n + 1)
         /\ Ring(g, n + 1, c) = Ring(f, n, c)
         /\ r[Ring(g, 0, c)] = v
         /\ \A p \in 0..(n - 1) : r[Ring(g, p + 1, c)] = b[Ring(f, p, c)]
<1> DEFINE r == [b EXCEPT ![g] = v]
<1>1. /\ c \in Nat \ {0} /\ f \in 0..(c - 1) /\ n \in 0..c /\ g \in 0..(c - 1)
      /\ b \in [0..(c - 1) -> Value \cup {Junk}]
      /\ \A p \in 0..(n - 1) : b[Ring(f, p, c)] \in Value
  <2>1. c \in Nat \ {0} /\ f \in 0..(c - 1)
    BY DEF IsRing
  <2>2. g \in 0..(c - 1)
    BY <2>1, RingArithmetic DEF RingSteps
  <2> QED
    BY <2>2 DEF IsRing
<1>r. RingSteps(c, f) /\ RingSteps(c, g)
  BY <1>1, RingArithmetic
<1>2. /\ Ring(g, 0, c) = g
      /\ \A p \in 0..n : Ring(g, p + 1, c) = Ring(f, p, c)
  <2>1. \A p \in 0..n : p \in 0..(c - 1)
    BY <1>1
  <2> QED
    BY <1>r, <2>1 DEF RingSteps
<1>3. \A p \in 0..(n - 1) : Ring(g, p + 1, c) # g
  <2> SUFFICES ASSUME NEW p \in 0..(n - 1) PROVE Ring(g, p + 1, c) # g
    OBVIOUS
  <2>1. p + 1 \in 0..(c - 1) /\ 0 \in 0..(c - 1) /\ p + 1 # 0
    BY <1>1
  <2>2. Ring(g, p + 1, c) # Ring(g, 0, c)
    BY <1>r, <2>1 DEF RingSteps
  <2> QED
    BY <1>2, <2>2
<1>4. r \in [0..(c - 1) -> Value \cup {Junk}] /\ r[g] = v
      /\ \A j \in 0..(c - 1) : j # g => r[j] = b[j]
  BY <1>1
<1> HIDE DEF r
<1>5. \A p \in 0..(n - 1) : r[Ring(g, p + 1, c)] = b[Ring(f, p, c)]
  <2> SUFFICES ASSUME NEW p \in 0..(n - 1) PROVE r[Ring(g, p + 1, c)] = b[Ring(f, p, c)]
    OBVIOUS
  <2>1. p \in 0..c /\ p \in 0..n
    BY <1>1
  <2>2. Ring(f, p, c) \in 0..(c - 1)
    BY <1>r, <2>1 DEF RingSteps
  <2> QED
    BY <1>2, <1>3, <1>4, <2>1, <2>2
<1>6. \A p \in 0..((n + 1) - 1) : r[Ring(g, p, c)] \in Value
  <2> SUFFICES ASSUME NEW p \in 0..((n + 1) - 1) PROVE r[Ring(g, p, c)] \in Value
    OBVIOUS
  <2>1. CASE p = 0
    BY <1>2, <1>4, <2>1
  <2>2. CASE p # 0
    <3>1. p - 1 \in 0..(n - 1) /\ (p - 1) + 1 = p
      BY <1>1, <2>2
    <3> QED
      BY <1>1, <1>5, <3>1
  <2> QED
    BY <2>1, <2>2
<1>7. n + 1 \in 0..c /\ n \in 0..n
  BY <1>1
<1> QED
  BY <1>1, <1>2, <1>4, <1>5, <1>6, <1>7 DEF IsRing, r

LEMMA RingPushBack ==
  ASSUME NEW b, NEW c, NEW f, NEW n, IsRing(b, c, f, n), n < c, NEW v \in Value,
         NEW g, g = Ring(f, n, c)
  PROVE  LET r == [b EXCEPT ![g] = v] IN
         /\ IsRing(r, c, f, n + 1)
         /\ (g + 1) % c = Ring(f, n + 1, c)
         /\ r[Ring(f, n, c)] = v
         /\ \A p \in 0..(n - 1) : r[Ring(f, p, c)] = b[Ring(f, p, c)]
<1> DEFINE r == [b EXCEPT ![g] = v]
<1>1. /\ c \in Nat \ {0} /\ f \in 0..(c - 1) /\ n \in 0..c /\ g \in 0..(c - 1)
      /\ b \in [0..(c - 1) -> Value \cup {Junk}] /\ n \in 0..(c - 1)
      /\ \A p \in 0..(n - 1) : b[Ring(f, p, c)] \in Value
  <2>1. c \in Nat \ {0} /\ f \in 0..(c - 1) /\ n \in 0..c /\ n \in 0..(c - 1)
    BY DEF IsRing
  <2>2. g \in 0..(c - 1)
    BY <2>1, RingArithmetic DEF RingSteps
  <2> QED
    BY <2>1, <2>2 DEF IsRing
<1>r. RingSteps(c, f) /\ RingSteps(c, g)
  BY <1>1, RingArithmetic
<1>2. (g + 1) % c = Ring(f, n + 1, c)
  BY <1>1, <1>r DEF RingSteps
<1>3. \A p \in 0..(n - 1) : Ring(f, p, c) # g /\ Ring(f, p, c) \in 0..(c - 1)
  <2> SUFFICES ASSUME NEW p \in 0..(n - 1)
               PROVE  Ring(f, p, c) # g /\ Ring(f, p, c) \in 0..(c - 1)
    OBVIOUS
  <2>1. p \in 0..(c - 1) /\ p \in 0..c /\ p # n /\ n \in 0..(c - 1)
    BY <1>1
  <2> QED
    BY <1>r, <2>1 DEF RingSteps
<1>4. r \in [0..(c - 1) -> Value \cup {Junk}] /\ r[g] = v
      /\ \A j \in 0..(c - 1) : j # g => r[j] = b[j]
  BY <1>1
<1> HIDE DEF r
<1>5. \A p \in 0..(n - 1) : r[Ring(f, p, c)] = b[Ring(f, p, c)]
  BY <1>3, <1>4
<1>6. \A p \in 0..((n + 1) - 1) : r[Ring(f, p, c)] \in Value
  <2> SUFFICES ASSUME NEW p \in 0..((n + 1) - 1) PROVE r[Ring(f, p, c)] \in Value
    OBVIOUS
  <2>1. p = n \/ p \in 0..(n - 1)
    BY <1>1
  <2> QED
    BY <1>1, <1>4, <1>5, <2>1
<1>7. n + 1 \in 0..c
  BY <1>1
<1> QED
  BY <1>1, <1>2, <1>4, <1>5, <1>6, <1>7 DEF IsRing, r

LEMMA RingPopFront ==
  ASSUME NEW b, NEW c, NEW f, NEW n, IsRing(b, c, f, n), n # 0, NEW g, g = (f + 1) % c
  PROVE  /\ IsRing(b, c, g, n - 1)
         /\ Ring(g, n - 1, c) = Ring(f, n, c)
         /\ \A p \in 0..(n - 2) : Ring(g, p, c) = Ring(f, p + 1, c)
<1>1. /\ c \in Nat \ {0} /\ f \in 0..(c - 1) /\ n \in 1..c
      /\ b \in [0..(c - 1) -> Value \cup {Junk}]
      /\ \A p \in 0..(n - 1) : b[Ring(f, p, c)] \in Value
  BY DEF IsRing
<1>r. RingSteps(c, f)
  BY <1>1, RingArithmetic
<1>2. g = Ring(f, 1, c) /\ g \in 0..(c - 1)
  BY <1>r DEF RingSteps
<1>3. \A p \in 0..(n - 1) : Ring(g, p, c) = Ring(f, p + 1, c)
  <2>1. \A p \in 0..(n - 1) : p \in 0..(c - 1)
    BY <1>1
  <2> QED
    BY <1>2, <1>r, <2>1 DEF RingSteps
<1>4. \A p \in 0..((n - 1) - 1) : b[Ring(g, p, c)] \in Value
  <2> SUFFICES ASSUME NEW p \in 0..((n - 1) - 1) PROVE b[Ring(g, p, c)] \in Value
    OBVIOUS
  <2>1. p \in 0..(n - 1) /\ p + 1 \in 0..(n - 1)
    BY <1>1
  <2> QED
    BY <1>1, <1>3, <2>1
<1>5. n - 1 \in 0..c /\ n - 1 \in 0..(n - 1) /\ (n - 1) + 1 = n
      /\ \A p \in 0..(n - 2) : p \in 0..(n - 1)
  BY <1>1
<1>6. Ring(g, n - 1, c) = Ring(f, n, c)
  BY <1>3, <1>5
<1>7. IsRing(b, c, g, n - 1)
  BY <1>1, <1>2, <1>4, <1>5 DEF IsRing
<1> QED
  BY <1>3, <1>5, <1>6, <1>7

LEMMA RingPopBack ==
  ASSUME NEW b, NEW c, NEW f, NEW n, IsRing(b, c, f, n), n # 0
  PROVE  /\ IsRing(b, c, f, n - 1)
         /\ Back1(Ring(f, n, c), c) = Ring(f, n - 1, c)
<1>1. /\ c \in Nat \ {0} /\ f \in 0..(c - 1) /\ n \in 1..c
      /\ b \in [0..(c - 1) -> Value \cup {Junk}]
      /\ \A p \in 0..(n - 1) : b[Ring(f, p, c)] \in Value
  BY DEF IsRing
<1>r. RingSteps(c, f)
  BY <1>1, RingArithmetic
<1>2. n - 1 \in 0..(c - 1) /\ n - 1 \in 0..c /\ (n - 1) + 1 = n
      /\ \A p \in 0..((n - 1) - 1) : p \in 0..(n - 1)
  BY <1>1
<1>3. Back1(Ring(f, n, c), c) = Ring(f, n - 1, c)
  <2>1. Back1(Ring(f, (n - 1) + 1, c), c) = Ring(f, n - 1, c)
    BY <1>2, <1>r DEF RingSteps
  <2> QED
    BY <1>2, <2>1
<1>4. IsRing(b, c, f, n - 1)
  BY <1>1, <1>2 DEF IsRing
<1> QED
  BY <1>3, <1>4

-----------------------------------------------------------------------------
(* The elements of a ring as a sequence.                                    *)

View(b, c, f, n) == [i \in 1..n |-> b[Ring(f, i - 1, c)]]

IsView(e, b, c, f, n) ==
  /\ e \in Seq(Value) /\ Len(e) = n /\ \A p \in 0..(n - 1) : e[p + 1] = b[Ring(f, p, c)]

LEMMA ViewType ==
  ASSUME NEW b, NEW c, NEW f, NEW n, IsRing(b, c, f, n)
  PROVE  IsView(View(b, c, f, n), b, c, f, n)
<1> DEFINE e == View(b, c, f, n)
<1>1. n \in Nat /\ \A p \in 0..(n - 1) : b[Ring(f, p, c)] \in Value
  BY DEF IsRing
<1>2. \A i \in 1..n : i - 1 \in 0..(n - 1)
  BY <1>1
<1>3. \A i \in 1..n : b[Ring(f, i - 1, c)] \in Value
  BY <1>1, <1>2
<1>4. e \in Seq(Value) /\ Len(e) = n
  BY <1>1, <1>3 DEF View
<1>5. \A i \in 1..n : e[i] = b[Ring(f, i - 1, c)]
  BY Zenon DEF View
<1> HIDE DEF e
<1>6. ASSUME NEW p \in 0..(n - 1) PROVE e[p + 1] = b[Ring(f, p, c)]
  <2>1. p + 1 \in 1..n /\ (p + 1) - 1 = p
    BY <1>1
  <2>2. e[p + 1] = b[Ring(f, (p + 1) - 1, c)]
    BY <1>5, <2>1, Zenon
  <2> QED
    BY <2>1, <2>2, Zenon
<1> QED
  BY <1>4, <1>6 DEF IsView, e

\* An iteration meets the elements of the ring.
ModView(b, c, f, n) == [i \in 1..n |-> b[(f + (i - 1)) % c]]

LEMMA ModViewIsView ==
  ASSUME NEW b, NEW c, NEW f, NEW n, IsRing(b, c, f, n)
  PROVE  /\ ModView(b, c, f, n) = View(b, c, f, n)
         /\ (f + n) % c = Ring(f, n, c)
<1>1. c \in Nat \ {0} /\ f \in 0..(c - 1) /\ n \in 0..c
  BY DEF IsRing
<1>2. ASSUME NEW i \in 1..n PROVE (f + (i - 1)) % c = Ring(f, i - 1, c)
  <2>1. i - 1 \in 0..c
    BY <1>1
  <2> QED
    BY <1>1, <2>1, ModRing, Zenon
<1>3. (f + n) % c = Ring(f, n, c)
  BY <1>1, ModRing
<1> QED
  BY <1>2, <1>3, Zenon DEF ModView, View

LEMMA ElementsView ==
  ASSUME DInv
  PROVE  D!Elements = View(buffer, capacity, front_idx, count)
<1>1. D!Elements = ModView(buffer, capacity, front_idx, count)
  BY Zenon DEF D!Elements, D!Deref, D!Slot, ModView
<1> QED
  BY <1>1, ModViewIsView DEF DInv

LEMMA ElementsLength ==
  ASSUME DInv
  PROVE  D!Elements \in Seq(Value) /\ Len(D!Elements) \in Nat
BY ElementsView, ViewType DEF DInv, IsView

\* The slot behind the last element.
LEMMA BackIdx ==
  ASSUME IsRing(buffer, capacity, front_idx, count)
  PROVE  /\ D!Slot(count) = Ring(front_idx, count, capacity)
         /\ D!Slot(count) \in 0..(capacity - 1)
<1>1. capacity \in Nat \ {0} /\ front_idx \in 0..(capacity - 1) /\ count \in 0..capacity
  BY DEF IsRing
<1> QED
  BY <1>1, ModRing DEF D!Slot

-----------------------------------------------------------------------------
(* The ring a push finds has its elements and a free slot.                  *)

LEMMA ResizedRing ==
  ASSUME DInv, count = capacity
  PROVE  LET r == D!Resized IN
         /\ IsRing(r.buffer, r.capacity, r.front_idx, count) /\ count < r.capacity
         /\ r.back_idx = Ring(r.front_idx, count, r.capacity)
         /\ View(r.buffer, r.capacity, r.front_idx, count)
              = View(buffer, capacity, front_idx, count)
<1> DEFINE d == 2 * capacity
           b == [i \in 0..2 * capacity - 1 |-> IF i < count THEN D!Deref(i) ELSE Junk]
<1>1. /\ capacity \in Nat \ {0} /\ front_idx \in 0..(capacity - 1) /\ count \in 0..capacity
      /\ \A p \in 0..(count - 1) : buffer[Ring(front_idx, p, capacity)] \in Value
  BY DEF DInv, IsRing
<1>2. /\ D!Resized.buffer = b /\ D!Resized.capacity = d /\ D!Resized.front_idx = 0
      /\ D!Resized.back_idx = count
  BY DEF D!Resized
<1>3. \A p \in 0..(count - 1) : D!Deref(p) = buffer[Ring(front_idx, p, capacity)]
  <2> SUFFICES ASSUME NEW p \in 0..(count - 1)
               PROVE  D!Deref(p) = buffer[Ring(front_idx, p, capacity)]
    OBVIOUS
  <2>1. p \in 0..capacity
    BY <1>1
  <2>2. (front_idx + p) % capacity = Ring(front_idx, p, capacity)
    BY <1>1, <2>1, ModRing
  <2> QED
    BY <2>2, Zenon DEF D!Deref, D!Slot
<1>4. d \in Nat \ {0} /\ count < d /\ 0 \in 0..(d - 1) /\ count \in 0..d
      /\ \A p \in 0..(count - 1) : p \in 0..(d - 1) /\ p < count
      /\ \A i \in 0..(d - 1) : i < count => i \in 0..(count - 1)
  BY <1>1
<1>5. \A p \in 0..count : Ring(0, p, d) = p
  BY <1>1 DEF Ring
<1>6. \A i \in 0..(d - 1) : b[i] = IF i < count THEN D!Deref(i) ELSE Junk
  OBVIOUS
<1>7. b \in [0..(d - 1) -> Value \cup {Junk}]
  <2>1. \A i \in 0..(d - 1) : (IF i < count THEN D!Deref(i) ELSE Junk) \in Value \cup {Junk}
    BY <1>1, <1>3, <1>4
  <2> QED
    BY <2>1
<1> HIDE DEF b, d
<1>8. \A p \in 0..(count - 1) : b[Ring(0, p, d)] = buffer[Ring(front_idx, p, capacity)]
  <2> SUFFICES ASSUME NEW p \in 0..(count - 1)
               PROVE  b[Ring(0, p, d)] = buffer[Ring(front_idx, p, capacity)]
    OBVIOUS
  <2>1. Ring(0, p, d) = p
    BY <1>1, <1>5
  <2>2. b[p] = D!Deref(p)
    BY <1>4, <1>6
  <2> QED
    BY <1>3, <2>1, <2>2
<1>9. IsRing(b, d, 0, count)
  BY <1>1, <1>4, <1>7, <1>8 DEF IsRing
<1>10. View(b, d, 0, count) = View(buffer, capacity, front_idx, count)
  <2>1. \A i \in 1..count : i - 1 \in 0..(count - 1)
    BY <1>1
  <2>2. \A i \in 1..count : b[Ring(0, i - 1, d)] = buffer[Ring(front_idx, i - 1, capacity)]
    BY <1>8, <2>1
  <2> QED
    BY <2>2, Zenon DEF View
<1>11. count = Ring(0, count, d)
  BY <1>1, <1>5
<1> QED
  BY <1>2, <1>4, <1>9, <1>10, <1>11

LEMMA RoomRing ==
  ASSUME DInv
  PROVE  LET r == D!Room IN
         /\ IsRing(r.buffer, r.capacity, r.front_idx, count) /\ count < r.capacity
         /\ r.back_idx = Ring(r.front_idx, count, r.capacity)
         /\ View(r.buffer, r.capacity, r.front_idx, count)
              = View(buffer, capacity, front_idx, count)
<1>1. CASE count = capacity
  BY <1>1, ResizedRing, Zenon DEF D!Room
<1>2. CASE count # capacity
  <2>1. /\ D!Room.buffer = buffer /\ D!Room.capacity = capacity /\ D!Room.front_idx = front_idx
        /\ D!Room.back_idx = back_idx
    BY <1>2 DEF D!Room
  <2>2. IsRing(buffer, capacity, front_idx, count) /\ count < capacity
    BY <1>2 DEF DInv, IsRing
  <2>3. back_idx = Ring(front_idx, count, capacity)
    BY <2>2, BackIdx DEF DInv
  <2> QED
    BY <2>1, <2>2, <2>3
<1> QED
  BY <1>1, <1>2

-----------------------------------------------------------------------------
(* The steps of the deque.                                                  *)

\* The ring after a step, however it was made.
LEMMA NextRing ==
  ASSUME IsRing(buffer', capacity', front_idx', count'),
         back_idx' = Ring(front_idx', count', capacity')
  PROVE  DInv' /\ D!Elements' = View(buffer', capacity', front_idx', count')
<1>1. /\ ModView(buffer', capacity', front_idx', count')
           = View(buffer', capacity', front_idx', count')
      /\ (front_idx' + count') % capacity' = Ring(front_idx', count', capacity')
  BY ModViewIsView
<1>2. DInv'
  BY <1>1 DEF DInv, D!Slot
<1>3. D!Elements' = ModView(buffer', capacity', front_idx', count')
  BY Zenon DEF D!Elements, D!Deref, D!Slot, ModView
<1> QED
  BY <1>1, <1>2, <1>3

LEMMA PushFrontStep ==
  ASSUME DInv, NEW v \in Value, D!push_front(v)
  PROVE  DInv' /\ D!Elements' = D!Container!InsertAt(D!Elements, 1, v)
<1> DEFINE b == D!Room.buffer
           c == D!Room.capacity
           f == D!Room.front_idx
           g == (f + c - 1) % c
           r == [b EXCEPT ![g] = v]
           q == View(b, c, f, count)
           e == View(r, c, g, count + 1)
<1>1. /\ buffer' = r /\ front_idx' = g /\ capacity' = c /\ count' = count + 1
      /\ back_idx' = D!Room.back_idx
  BY DEF D!push_front
<1>2. /\ IsRing(b, c, f, count) /\ count < c /\ D!Room.back_idx = Ring(f, count, c)
      /\ D!Elements = q
  BY RoomRing, ElementsView, Zenon
<1>3. g = Back1(f, c)
  <2>1. c \in Nat \ {0} /\ f \in 0..(c - 1)
    BY <1>2 DEF IsRing
  <2> QED
    BY <2>1, RingArithmetic DEF RingSteps
<1> HIDE DEF b, c, f, g
<1>4. /\ IsRing(r, c, g, count + 1)
      /\ Ring(g, count + 1, c) = Ring(f, count, c)
      /\ r[Ring(g, 0, c)] = v
      /\ \A p \in 0..(count - 1) : r[Ring(g, p + 1, c)] = b[Ring(f, p, c)]
  BY <1>2, <1>3, RingPushFront
<1> HIDE DEF r
<1>5. DInv' /\ D!Elements' = e
  BY <1>1, <1>2, <1>4, NextRing
<1>6. IsView(q, b, c, f, count) /\ IsView(e, r, c, g, count + 1)
  BY <1>2, <1>4, ViewType
<1> HIDE DEF q, e
<1>7. count \in Nat /\ \A i \in 1..count : i - 1 \in 0..(count - 1) /\ i \in 0..count
      /\ (i - 1) + 1 = i /\ 0 \in 0..count
  BY <1>2 DEF IsRing
<1>8. e \in Seq(Value) /\ q \in Seq(Value) /\ Len(q) = count /\ Len(e) = Len(q) + 1
  BY <1>6 DEF IsView
<1>9. e[1] = v
  <2>1. 0 \in 0..((count + 1) - 1) /\ 0 + 1 = 1
    BY <1>7
  <2>2. e[0 + 1] = r[Ring(g, 0, c)]
    BY <1>6, <2>1, Zenon DEF IsView
  <2> QED
    BY <1>4, <2>1, <2>2
<1>10. \A i \in 1..Len(q) : e[i + 1] = q[i]
  <2> SUFFICES ASSUME NEW i \in 1..count PROVE e[i + 1] = q[i]
    BY <1>8
  <2>1. i - 1 \in 0..(count - 1) /\ i \in 0..((count + 1) - 1) /\ (i - 1) + 1 = i
    BY <1>7
  <2>2. q[(i - 1) + 1] = b[Ring(f, i - 1, c)] /\ e[i + 1] = r[Ring(g, i, c)]
    BY <1>6, <2>1, Zenon DEF IsView
  <2>3. r[Ring(g, (i - 1) + 1, c)] = b[Ring(f, i - 1, c)]
    BY <1>4, <2>1, Zenon
  <2> QED
    BY <2>1, <2>2, <2>3
<1>11. e = D!Container!InsertAt(q, 1, v)
  BY <1>8, <1>9, <1>10, InsertFirst
<1> QED
  BY <1>2, <1>5, <1>11

LEMMA PushBackStep ==
  ASSUME DInv, NEW v \in Value, D!push_back(v)
  PROVE  DInv' /\ D!Elements' = D!Container!InsertAt(D!Elements, Len(D!Elements) + 1, v)
<1> DEFINE b == D!Room.buffer
           c == D!Room.capacity
           f == D!Room.front_idx
           g == D!Room.back_idx
           r == [b EXCEPT ![g] = v]
           q == View(b, c, f, count)
           e == View(r, c, f, count + 1)
<1>1. /\ buffer' = r /\ front_idx' = f /\ capacity' = c /\ count' = count + 1
      /\ back_idx' = (g + 1) % c
  BY DEF D!push_back
<1>2. /\ IsRing(b, c, f, count) /\ count < c /\ g = Ring(f, count, c)
      /\ D!Elements = q
  BY RoomRing, ElementsView, Zenon
<1> HIDE DEF b, c, f, g
<1>4. /\ IsRing(r, c, f, count + 1)
      /\ (g + 1) % c = Ring(f, count + 1, c)
      /\ r[Ring(f, count, c)] = v
      /\ \A p \in 0..(count - 1) : r[Ring(f, p, c)] = b[Ring(f, p, c)]
  BY <1>2, RingPushBack
<1> HIDE DEF r
<1>5. DInv' /\ D!Elements' = e
  BY <1>1, <1>4, NextRing
<1>6. IsView(q, b, c, f, count) /\ IsView(e, r, c, f, count + 1)
  BY <1>2, <1>4, ViewType
<1> HIDE DEF q, e
<1>7. count \in Nat
  BY <1>2 DEF IsRing
<1>8. e \in Seq(Value) /\ q \in Seq(Value) /\ Len(q) = count /\ Len(e) = Len(q) + 1
  BY <1>6 DEF IsView
<1>9. e[Len(q) + 1] = v
  <2>1. count \in 0..((count + 1) - 1)
    BY <1>7
  <2>2. e[count + 1] = r[Ring(f, count, c)]
    BY <1>6, <2>1, Zenon DEF IsView
  <2> QED
    BY <1>4, <1>8, <2>2
<1>10. \A i \in 1..Len(q) : e[i] = q[i]
  <2> SUFFICES ASSUME NEW i \in 1..count PROVE e[i] = q[i]
    BY <1>8
  <2>1. i - 1 \in 0..(count - 1) /\ i - 1 \in 0..((count + 1) - 1) /\ (i - 1) + 1 = i
    BY <1>7
  <2>2. q[(i - 1) + 1] = b[Ring(f, i - 1, c)] /\ e[(i - 1) + 1] = r[Ring(f, i - 1, c)]
    BY <1>6, <2>1, Zenon DEF IsView
  <2>3. r[Ring(f, i - 1, c)] = b[Ring(f, i - 1, c)]
    BY <1>4, <2>1, Zenon
  <2> QED
    BY <2>1, <2>2, <2>3
<1>11. e = D!Container!InsertAt(q, Len(q) + 1, v)
  BY <1>8, <1>9, <1>10, InsertLast
<1> QED
  BY <1>2, <1>5, <1>11

LEMMA PopFrontStep ==
  ASSUME DInv, D!pop_front
  PROVE  DInv' /\ 1 \in 1..Len(D!Elements) /\ D!Elements' = D!Container!RemoveAt(D!Elements, 1)
<1> DEFINE b == buffer
           c == capacity
           f == front_idx
           n == count
           g == front_idx'
           q == View(b, c, f, n)
           e == View(b, c, g, n - 1)
<1>1. /\ buffer' = b /\ g = (f + 1) % c /\ capacity' = c /\ count' = n - 1
      /\ back_idx' = back_idx /\ n # 0
  BY DEF D!pop_front
<1>2. IsRing(b, c, f, n) /\ back_idx = Ring(f, n, c) /\ D!Elements = q
  <2>1. IsRing(b, c, f, n) /\ back_idx = D!Slot(count)
    BY DEF DInv
  <2>2. D!Slot(count) = Ring(f, n, c)
    BY <2>1, BackIdx
  <2> QED
    BY <2>1, <2>2, ElementsView
<1> HIDE DEF b, c, f, g, n
<1>4. /\ IsRing(b, c, g, n - 1)
      /\ Ring(g, n - 1, c) = Ring(f, n, c)
      /\ \A p \in 0..(n - 2) : Ring(g, p, c) = Ring(f, p + 1, c)
  BY <1>1, <1>2, RingPopFront
<1>5. DInv' /\ D!Elements' = e
  BY <1>1, <1>2, <1>4, NextRing DEF g
<1>6. IsView(q, b, c, f, n) /\ IsView(e, b, c, g, n - 1)
  BY <1>2, <1>4, ViewType
<1> HIDE DEF q, e
<1>7. n \in Nat \ {0}
  BY <1>1, <1>2 DEF IsRing
<1>8. e \in Seq(Value) /\ q \in Seq(Value) /\ Len(q) = n /\ Len(e) = Len(q) - 1 /\ Len(q) # 0
  BY <1>1, <1>6 DEF IsView
<1>10. \A i \in 1..Len(e) : e[i] = q[i + 1]
  <2> SUFFICES ASSUME NEW i \in 1..(n - 1) PROVE e[i] = q[i + 1]
    BY <1>8
  <2>1. i - 1 \in 0..((n - 1) - 1) /\ i - 1 \in 0..(n - 2) /\ i \in 0..(n - 1) /\ (i - 1) + 1 = i
    BY <1>7
  <2>2. q[i + 1] = b[Ring(f, i, c)] /\ e[(i - 1) + 1] = b[Ring(g, i - 1, c)]
    BY <1>6, <2>1, Zenon DEF IsView
  <2>3. Ring(g, i - 1, c) = Ring(f, (i - 1) + 1, c)
    BY <1>4, <2>1, Zenon
  <2> QED
    BY <2>1, <2>2, <2>3
<1>11. e = D!Container!RemoveAt(q, 1)
  BY <1>8, <1>10, RemoveFirst
<1>12. 1 \in 1..Len(q)
  BY <1>7, <1>8
<1> QED
  BY <1>2, <1>5, <1>11, <1>12

LEMMA PopBackStep ==
  ASSUME DInv, D!pop_back
  PROVE  /\ DInv' /\ Len(D!Elements) \in 1..Len(D!Elements)
         /\ D!Elements' = D!Container!RemoveAt(D!Elements, Len(D!Elements))
<1> DEFINE b == buffer
           c == capacity
           f == front_idx
           n == count
           q == View(b, c, f, n)
           e == View(b, c, f, n - 1)
<1>1. /\ buffer' = b /\ front_idx' = f /\ capacity' = c /\ count' = n - 1
      /\ back_idx' = Back1(back_idx, c) /\ n # 0
  BY DEF D!pop_back, D!Last, Back1
<1>2. IsRing(b, c, f, n) /\ back_idx = Ring(f, n, c) /\ D!Elements = q
  <2>1. IsRing(b, c, f, n) /\ back_idx = D!Slot(count)
    BY DEF DInv
  <2>2. D!Slot(count) = Ring(f, n, c)
    BY <2>1, BackIdx
  <2> QED
    BY <2>1, <2>2, ElementsView
<1> HIDE DEF b, c, f, n
<1>4. IsRing(b, c, f, n - 1) /\ Back1(Ring(f, n, c), c) = Ring(f, n - 1, c)
  BY <1>1, <1>2, RingPopBack
<1>5. DInv' /\ D!Elements' = e
  BY <1>1, <1>2, <1>4, NextRing
<1>6. IsView(q, b, c, f, n) /\ IsView(e, b, c, f, n - 1)
  BY <1>2, <1>4, ViewType
<1> HIDE DEF q, e
<1>7. n \in Nat \ {0}
  BY <1>1, <1>2 DEF IsRing
<1>8. e \in Seq(Value) /\ q \in Seq(Value) /\ Len(q) = n /\ Len(e) = Len(q) - 1 /\ Len(q) # 0
  BY <1>1, <1>6 DEF IsView
<1>10. \A i \in 1..Len(e) : e[i] = q[i]
  <2> SUFFICES ASSUME NEW i \in 1..(n - 1) PROVE e[i] = q[i]
    BY <1>8
  <2>1. i - 1 \in 0..((n - 1) - 1) /\ i - 1 \in 0..(n - 1) /\ (i - 1) + 1 = i
    BY <1>7
  <2>2. q[(i - 1) + 1] = b[Ring(f, i - 1, c)] /\ e[(i - 1) + 1] = b[Ring(f, i - 1, c)]
    BY <1>6, <2>1, Zenon DEF IsView
  <2> QED
    BY <2>1, <2>2
<1>11. e = D!Container!RemoveAt(q, Len(q))
  BY <1>8, <1>10, RemoveLast
<1>12. Len(q) \in 1..Len(q)
  BY <1>7, <1>8
<1> QED
  BY <1>2, <1>5, <1>11, <1>12

-----------------------------------------------------------------------------
(* The theorems.                                                            *)

LEMMA StepsOfOne ==
  ASSUME [Next]_vars
  PROVE  [D!Next]_(D!vars) /\ [L!Next]_(L!vars)
BY DEF Next, vars, deque, list, hash, shared, tree, avl, D!vars, L!vars

LEMMA DequeInvInit ==
  ASSUME D!DequeAssumption, D!Init
  PROVE  DInv /\ D!Elements = << >>
<1>1. /\ capacity \in Nat \ {0} /\ count = 0 /\ front_idx = 0 /\ back_idx = 0
      /\ buffer = [i \in 0..capacity - 1 |-> Junk]
  BY DEF D!DequeAssumption, D!Init
<1>2. buffer \in [0..(capacity - 1) -> Value \cup {Junk}]
  BY <1>1
<1>3. IsRing(buffer, capacity, front_idx, count)
  BY <1>1, <1>2 DEF IsRing
<1>4. D!Slot(count) = Ring(front_idx, count, capacity)
  BY <1>3, BackIdx
<1>5. Ring(0, 0, capacity) = 0
  BY <1>1 DEF Ring
<1>6. D!Elements = << >>
  BY <1>1 DEF D!Elements
<1> QED
  BY <1>1, <1>3, <1>4, <1>5, <1>6 DEF DInv

LEMMA DequeInvStep ==
  ASSUME DInv, [D!Next]_(D!vars)
  PROVE  DInv' /\ [D!Container!Next]_(D!Elements)
<1>1. CASE UNCHANGED D!vars
  <2>1. DInv'
    BY <1>1 DEF D!vars, DInv, D!Slot
  <2>2. D!Elements' = D!Elements
    BY <1>1 DEF D!vars, D!Elements, D!Deref, D!Slot
  <2> QED
    BY <2>1, <2>2
<1>2. ASSUME NEW v \in Value, D!push_front(v) PROVE DInv' /\ D!Container!Next
  <2>1. DInv' /\ D!Elements' = D!Container!InsertAt(D!Elements, 1, v)
    BY <1>2, PushFrontStep
  <2>2. 1 \in 1..Len(D!Elements) + 1
    BY ElementsLength
  <2> QED
    BY <2>1, <2>2 DEF D!Container!Next
<1>3. ASSUME NEW v \in Value, D!push_back(v) PROVE DInv' /\ D!Container!Next
  <2>1. DInv' /\ D!Elements' = D!Container!InsertAt(D!Elements, Len(D!Elements) + 1, v)
    BY <1>3, PushBackStep
  <2>2. Len(D!Elements) + 1 \in 1..Len(D!Elements) + 1
    BY ElementsLength
  <2> QED
    BY <2>1, <2>2 DEF D!Container!Next
<1>4. CASE D!pop_front
  BY <1>4, PopFrontStep DEF D!Container!Next
<1>5. CASE D!pop_back
  BY <1>5, PopBackStep DEF D!Container!Next
<1> QED
  BY <1>1, <1>2, <1>3, <1>4, <1>5 DEF D!Next

\* What the invariant says of the indices and of the ends.
LEMMA DequeInvSafe ==
  ASSUME DInv
  PROVE  D!DequeSafe
<1>1. /\ capacity \in Nat \ {0} /\ count \in 0..capacity /\ front_idx \in 0..(capacity - 1)
      /\ buffer \in [0..(capacity - 1) -> Value \cup {Junk}] /\ back_idx = D!Slot(count)
      /\ IsRing(buffer, capacity, front_idx, count)
  BY DEF DInv, IsRing
<1>2. back_idx \in 0..(capacity - 1) /\ back_idx = Ring(front_idx, count, capacity)
  BY <1>1, BackIdx
<1>3. D!IndicesAgree
  BY <1>1, <1>2 DEF D!IndicesAgree
<1>4. ASSUME count # 0 PROVE D!EndsAgree
  <2>1. IsView(D!Elements, buffer, capacity, front_idx, count)
    BY <1>1, ElementsView, ViewType
  <2>2. D!Elements \in Seq(Value) /\ Len(D!Elements) = count
    BY <2>1 DEF IsView
  <2> HIDE DEF D!Elements
  <2>3. \A i \in 1..count : D!Elements[i] \in Value
    BY <2>2
  <2>4. /\ 0 \in 0..(count - 1) /\ count - 1 \in 0..(count - 1)
        /\ 0 + 1 = 1 /\ (count - 1) + 1 = count
        /\ count - 1 \in 0..(capacity - 1)
    BY <1>1, <1>4
  <2>5. /\ D!Elements[0 + 1] = buffer[Ring(front_idx, 0, capacity)]
        /\ D!Elements[(count - 1) + 1] = buffer[Ring(front_idx, count - 1, capacity)]
    BY <2>1, <2>4, Zenon DEF IsView
  <2>6. RingSteps(capacity, front_idx)
    BY <1>1, RingArithmetic
  <2>7. Ring(front_idx, 0, capacity) = front_idx
    BY <2>6 DEF RingSteps
  <2>8. Back1(Ring(front_idx, (count - 1) + 1, capacity), capacity)
          = Ring(front_idx, count - 1, capacity)
    BY <2>4, <2>6 DEF RingSteps
  <2>9. D!Last = Back1(back_idx, capacity)
    BY DEF D!Last, Back1
  <2>10. D!Last = Ring(front_idx, count - 1, capacity)
    BY <1>2, <2>4, <2>8, <2>9
  <2> QED
    BY <2>3, <2>4, <2>5, <2>7, <2>10 DEF D!EndsAgree, D!front, D!back
<1> QED
  BY <1>3, <1>4 DEF D!DequeSafe, D!EndsAgree

\* Whatever capacity the constructor is given and however often the ring wraps
\* and doubles, its indices stay within it and agree with the count, and its
\* ends are those an iteration meets, which meets values only
\* (mydeque.h:47, 57, 125).
THEOREM DequeSafeAlways == Spec => []DequeSafe
<1>1. Init => DInv
  BY ContainersAssumption, DequeInvInit DEF Init, ContainersAssumption
<1>2. DInv /\ [Next]_vars => DInv'
  BY StepsOfOne, DequeInvStep
<1>3. DInv => DequeSafe
  BY DequeInvSafe DEF DequeSafe
<1> QED
  BY <1>1, <1>2, <1>3, PTL DEF Spec

\* Every push of the deque inserts at an end of the sequence an iteration meets,
\* and every pop removes at an end, also across a resize (mydeque.h:33).
THEOREM DequeImplementsContainer == Spec => DequeIsContainer
<1>1. Init => DInv /\ D!Container!Init
  BY ContainersAssumption, DequeInvInit DEF D!Container!Init, Init, ContainersAssumption
<1>2. DInv /\ [Next]_vars => DInv' /\ [D!Container!Next]_(D!Elements)
  BY StepsOfOne, DequeInvStep
<1> QED
  BY <1>1, <1>2, PTL DEF Spec, DequeIsContainer, D!DequeIsContainer, D!Container!Spec

-----------------------------------------------------------------------------
(* Sequences to which one element is added at a position, or that lose it.  *)

Inserted(r, q, i, v) ==
  /\ Len(r) = Len(q) + 1
  /\ \A j \in 1..Len(q) + 1 :
       r[j] = IF j < i THEN q[j] ELSE IF j = i THEN v ELSE q[j - 1]

Erased(r, q, i) ==
  /\ Len(r) = Len(q) - 1
  /\ \A j \in 1..Len(q) - 1 : r[j] = IF j < i THEN q[j] ELSE q[j + 1]

LEMMA Parts ==
  ASSUME NEW S, NEW q \in Seq(S), NEW i \in 1..Len(q) + 1, NEW k \in i..Len(q) + 1
  PROVE  /\ SubSeq(q, 1, i - 1) \in Seq(S) /\ Len(SubSeq(q, 1, i - 1)) = i - 1
         /\ \A j \in 1..(i - 1) : SubSeq(q, 1, i - 1)[j] = q[j]
         /\ SubSeq(q, k, Len(q)) \in Seq(S)
         /\ Len(SubSeq(q, k, Len(q))) = Len(q) - k + 1
         /\ \A j \in 1..(Len(q) - k + 1) : SubSeq(q, k, Len(q))[j] = q[k + j - 1]
OBVIOUS

LEMMA InsertIsInserted ==
  ASSUME NEW S, NEW q \in Seq(S), NEW i \in 1..Len(q) + 1, NEW v \in S
  PROVE  L!Container!InsertAt(q, i, v) \in Seq(S)
         /\ Inserted(L!Container!InsertAt(q, i, v), q, i, v)
<1> DEFINE n == Len(q)
           a == SubSeq(q, 1, i - 1)
           b == SubSeq(q, i, n)
           e == << v >>
           w == L!Container!InsertAt(q, i, v)
<1>1. w = (a \o e) \o b
  BY DEF L!Container!InsertAt
<1>2. n \in Nat /\ i \in Nat /\ i <= n + 1 /\ 1 <= i
  OBVIOUS
<1>3. /\ a \in Seq(S) /\ Len(a) = i - 1 /\ \A j \in 1..(i - 1) : a[j] = q[j]
      /\ b \in Seq(S) /\ Len(b) = n - i + 1 /\ \A j \in 1..(n - i + 1) : b[j] = q[i + j - 1]
  <2>1. i \in i..n + 1
    BY <1>2
  <2> QED
    BY <2>1, Parts
<1>4. e \in Seq(S) /\ Len(e) = 1 /\ e[1] = v
  OBVIOUS
<1> HIDE DEF a, b, e, w, n
<1>5. /\ a \o e \in Seq(S) /\ Len(a \o e) = i
      /\ \A j \in 1..i : (a \o e)[j] = IF j <= i - 1 THEN a[j] ELSE e[j - (i - 1)]
  <2>1. /\ a \o e \in Seq(S) /\ Len(a \o e) = Len(a) + Len(e)
        /\ \A j \in 1..Len(a) + Len(e) :
             (a \o e)[j] = IF j <= Len(a) THEN a[j] ELSE e[j - Len(a)]
    BY <1>3, <1>4, ConcatProperties
  <2>2. (i - 1) + 1 = i
    BY <1>2
  <2> QED
    BY <1>3, <1>4, <2>1, <2>2, Zenon
<1>6. /\ w \in Seq(S) /\ Len(w) = n + 1
      /\ \A j \in 1..n + 1 : w[j] = IF j <= i THEN (a \o e)[j] ELSE b[j - i]
  <2> DEFINE c == a \o e
  <2> HIDE DEF c
  <2>1. c \in Seq(S) /\ Len(c) = i
    BY <1>5 DEF c
  <2>2. /\ c \o b \in Seq(S) /\ Len(c \o b) = Len(c) + Len(b)
        /\ \A j \in 1..Len(c) + Len(b) :
             (c \o b)[j] = IF j <= Len(c) THEN c[j] ELSE b[j - Len(c)]
    BY <1>3, <2>1, ConcatProperties
  <2>3. i + (n - i + 1) = n + 1
    BY <1>2
  <2>4. w = c \o b
    BY <1>1 DEF c
  <2>5. /\ w \in Seq(S) /\ Len(w) = n + 1
        /\ \A j \in 1..n + 1 : w[j] = IF j <= i THEN c[j] ELSE b[j - i]
    BY <1>3, <2>1, <2>2, <2>3, <2>4, Zenon
  <2> QED
    BY <2>5 DEF c
<1>7. ASSUME NEW j \in 1..n + 1
      PROVE  w[j] = IF j < i THEN q[j] ELSE IF j = i THEN v ELSE q[j - 1]
  <2>1. CASE j < i
    <3>1. j <= i /\ j \in 1..i /\ j <= i - 1 /\ j \in 1..(i - 1)
      BY <1>2, <2>1
    <3> QED
      BY <1>3, <1>5, <1>6, <2>1, <3>1, Zenon
  <2>2. CASE j = i
    <3>1. j <= i /\ j \in 1..i /\ ~(j <= i - 1) /\ j - (i - 1) = 1 /\ ~(j < i)
      BY <1>2, <2>2
    <3> QED
      BY <1>4, <1>5, <1>6, <2>2, <3>1, Zenon
  <2>3. CASE j > i
    <3>1. ~(j <= i) /\ j - i \in 1..(n - i + 1) /\ i + (j - i) - 1 = j - 1 /\ ~(j < i) /\ j # i
      BY <1>2, <2>3
    <3>2. w[j] = b[j - i] /\ b[j - i] = q[i + (j - i) - 1]
      BY <1>3, <1>6, <3>1, Zenon
    <3> QED
      BY <3>1, <3>2, Zenon
  <2> QED
    BY <1>2, <2>1, <2>2, <2>3
<1> QED
  BY <1>6, <1>7 DEF Inserted, w, n

LEMMA RemoveIsErased ==
  ASSUME NEW S, NEW q \in Seq(S), NEW i \in 1..Len(q)
  PROVE  L!Container!RemoveAt(q, i) \in Seq(S)
         /\ Erased(L!Container!RemoveAt(q, i), q, i)
<1> DEFINE n == Len(q)
           a == SubSeq(q, 1, i - 1)
           b == SubSeq(q, i + 1, n)
           w == L!Container!RemoveAt(q, i)
<1>1. w = a \o b
  BY DEF L!Container!RemoveAt
<1>2. n \in Nat /\ i \in Nat /\ i <= n /\ 1 <= i
  OBVIOUS
<1>3. /\ a \in Seq(S) /\ Len(a) = i - 1 /\ \A j \in 1..(i - 1) : a[j] = q[j]
      /\ b \in Seq(S) /\ Len(b) = n - (i + 1) + 1
      /\ \A j \in 1..(n - (i + 1) + 1) : b[j] = q[(i + 1) + j - 1]
  <2>1. i \in 1..n + 1 /\ i + 1 \in i..n + 1
    BY <1>2
  <2> QED
    BY <2>1, Parts
<1> HIDE DEF a, b, w, n
<1>4. /\ a \o b \in Seq(S) /\ Len(a \o b) = Len(a) + Len(b)
      /\ \A j \in 1..Len(a) + Len(b) :
           (a \o b)[j] = IF j <= Len(a) THEN a[j] ELSE b[j - Len(a)]
  BY <1>3, ConcatProperties
<1>5. (i - 1) + (n - (i + 1) + 1) = n - 1
  BY <1>2
<1>6. /\ w \in Seq(S) /\ Len(w) = n - 1
      /\ \A j \in 1..n - 1 : w[j] = IF j <= i - 1 THEN a[j] ELSE b[j - (i - 1)]
  BY <1>1, <1>3, <1>4, <1>5, Zenon
<1>7. ASSUME NEW j \in 1..n - 1
      PROVE  w[j] = IF j < i THEN q[j] ELSE q[j + 1]
  <2>1. CASE j < i
    <3>1. j <= i - 1 /\ j \in 1..(i - 1)
      BY <1>2, <2>1
    <3> QED
      BY <1>3, <1>6, <2>1, <3>1, Zenon
  <2>2. CASE ~(j < i)
    <3>1. ~(j <= i - 1) /\ j - (i - 1) \in 1..(n - (i + 1) + 1)
          /\ (i + 1) + (j - (i - 1)) - 1 = j + 1
      BY <1>2, <2>2
    <3>2. w[j] = b[j - (i - 1)] /\ b[j - (i - 1)] = q[(i + 1) + (j - (i - 1)) - 1]
      BY <1>3, <1>6, <3>1, Zenon
    <3> QED
      BY <2>2, <3>1, <3>2, Zenon
  <2> QED
    BY <2>1, <2>2
<1> QED
  BY <1>6, <1>7 DEF Erased, w, n

-----------------------------------------------------------------------------
(* Chains. *)

\* The i-th node of a chain through the nodes of e, with the sentinels around it.
At(e, i) == IF i = 0 THEN head ELSE IF i = Len(e) + 1 THEN tail ELSE e[i]

Each(e, lv) ==
  /\ e \in Seq(Node)
  /\ \A i \in 1..Len(e) : e[i] \in lv
  /\ \A m \in lv : \E i \in 1..Len(e) : e[i] = m
  /\ \A i, j \in 1..Len(e) : e[i] = e[j] => i = j

Ends(nx, pv) ==
  /\ nx \in [L!All -> L!All] /\ pv \in [L!All -> L!All]
  /\ nx[tail] = null /\ nx[null] = null /\ pv[head] = null

Linked(nx, pv, e) ==
  \A i \in 0..Len(e) : nx[At(e, i)] = At(e, i + 1) /\ pv[At(e, i + 1)] = At(e, i)

Chain(nx, pv, lv, e) == Each(e, lv) /\ Ends(nx, pv) /\ Linked(nx, pv, e)

LEMMA Sentinels ==
  /\ head # tail /\ head # null /\ tail # null
  /\ head \notin Node /\ tail \notin Node /\ null \notin Node
  /\ head \in L!All /\ tail \in L!All /\ null \in L!All /\ Node \subseteq L!All
BY ContainersAssumption DEF ContainersAssumption, L!ListAssumption, L!All

\* The positions of a chain are those of different nodes.
Apart(e) ==
  /\ Len(e) \in Nat
  /\ At(e, 0) = head /\ At(e, Len(e) + 1) = tail
  /\ \A i \in 1..Len(e) : At(e, i) = e[i] /\ e[i] \in Node
  /\ \A i \in 0..Len(e) + 1 : At(e, i) \in L!All /\ At(e, i) # null
  /\ \A i, j \in 0..Len(e) + 1 : At(e, i) = At(e, j) => i = j

LEMMA EachApart ==
  ASSUME NEW e, NEW lv, Each(e, lv)
  PROVE  Apart(e)
<1>1. e \in Seq(Node) /\ \A i, j \in 1..Len(e) : e[i] = e[j] => i = j
  BY DEF Each
<1>2. Len(e) \in Nat /\ \A i \in 1..Len(e) : e[i] \in Node
  BY <1>1
<1>3. At(e, 0) = head /\ At(e, Len(e) + 1) = tail
  BY <1>2 DEF At
<1>4. \A i \in 1..Len(e) : At(e, i) = e[i]
  BY <1>2 DEF At
<1>5. \A i \in 0..Len(e) + 1 : i = 0 \/ i = Len(e) + 1 \/ i \in 1..Len(e)
  BY <1>2
<1>6. \A i \in 0..Len(e) + 1 : At(e, i) \in L!All /\ At(e, i) # null
  BY <1>2, <1>3, <1>4, <1>5, Sentinels
<1>7. ASSUME NEW i \in 0..Len(e) + 1, NEW j \in 0..Len(e) + 1, At(e, i) = At(e, j)
      PROVE  i = j
  BY <1>1, <1>2, <1>3, <1>4, <1>5, <1>7, Sentinels
<1> QED
  BY <1>2, <1>3, <1>4, <1>6, <1>7 DEF Apart

\* A node that is not in the chain is at none of its positions.
LEMMA NewIsElsewhere ==
  ASSUME NEW e, NEW lv, Each(e, lv), NEW n \in Node, n \notin lv, NEW i \in 0..Len(e) + 1
  PROVE  At(e, i) # n
<1>1. Apart(e)
  BY EachApart
<1>2. i = 0 \/ i = Len(e) + 1 \/ i \in 1..Len(e)
  BY <1>1 DEF Apart
<1>3. \A k \in 1..Len(e) : At(e, k) \in lv
  BY <1>1 DEF Apart, Each
<1> QED
  BY <1>1, <1>2, <1>3, Sentinels DEF Apart

Between(w, e, i, n) ==
  /\ Len(w) = Len(e) + 1
  /\ \A j \in 0..i - 1 : At(w, j) = At(e, j)
  /\ At(w, i) = n
  /\ \A j \in i + 1..Len(e) + 2 : At(w, j) = At(e, j - 1)

LEMMA InsertedAt ==
  ASSUME NEW e, NEW lv, Each(e, lv), NEW i \in 1..Len(e) + 1, NEW n \in Node, n \notin lv,
         NEW w \in Seq(Node), Inserted(w, e, i, n)
  PROVE  Between(w, e, i, n) /\ Each(w, lv \cup {n})
<1> DEFINE m == Len(e)
<1>1. Apart(e) /\ m \in Nat
  BY EachApart DEF Apart
<1>2. Len(w) = m + 1 /\ \A j \in 1..m + 1 :
         w[j] = IF j < i THEN e[j] ELSE IF j = i THEN n ELSE e[j - 1]
  BY DEF Inserted
<1>3. At(e, 0) = head /\ At(e, m + 1) = tail /\ \A k \in 1..m : At(e, k) = e[k]
  BY <1>1 DEF Apart
<1> HIDE DEF m
<1>4. At(w, 0) = head /\ At(w, m + 2) = tail /\ \A k \in 1..m + 1 : At(w, k) = w[k]
  BY <1>1, <1>2 DEF At
<1>5. i \in 1..m + 1
  BY DEF m
<1>6. ASSUME NEW j \in 0..i - 1 PROVE At(w, j) = At(e, j)
  <2>1. CASE j = 0
    BY <1>3, <1>4, <2>1
  <2>2. CASE j # 0
    <3>1. j \in 1..m /\ j \in 1..m + 1 /\ j < i
      BY <1>1, <1>5, <2>2
    <3> QED
      BY <1>2, <1>3, <1>4, <3>1
  <2> QED
    BY <2>1, <2>2
<1>7. At(w, i) = n
  <2>1. ~(i < i)
    BY <1>1, <1>5
  <2> QED
    BY <1>2, <1>4, <1>5, <2>1, Zenon
<1>8. ASSUME NEW j \in i + 1..m + 2 PROVE At(w, j) = At(e, j - 1)
  <2>1. CASE j = m + 2
    <3>1. j - 1 = m + 1
      BY <1>1, <2>1
    <3> QED
      BY <1>3, <1>4, <2>1, <3>1
  <2>2. CASE j # m + 2
    <3>1. j - 1 \in 1..m /\ j \in 1..m + 1 /\ ~(j < i) /\ j # i
      BY <1>1, <1>5, <2>2
    <3> QED
      BY <1>2, <1>3, <1>4, <3>1
  <2> QED
    BY <2>1, <2>2
<1>9. Between(w, e, i, n)
  BY <1>2, <1>6, <1>7, <1>8 DEF Between, m
<1>10. /\ \A j \in 1..m : e[j] \in lv
       /\ \A l \in lv : \E j \in 1..m : e[j] = l
       /\ \A j, k \in 1..m : e[j] = e[k] => j = k
  BY DEF Each, m
<1>11. ASSUME NEW j \in 1..m + 1
       PROVE  \/ j < i /\ j \in 1..m /\ w[j] = e[j]
              \/ j = i /\ w[j] = n
              \/ j > i /\ j - 1 \in 1..m /\ w[j] = e[j - 1]
  <2>1. CASE j < i
    <3>1. j \in 1..m
      BY <1>1, <1>5, <2>1
    <3> QED
      BY <1>2, <2>1, <3>1
  <2>2. CASE j = i
    BY <1>1, <1>2, <1>5, <2>2
  <2>3. CASE j > i
    <3>1. j - 1 \in 1..m /\ ~(j < i) /\ j # i
      BY <1>1, <1>5, <2>3
    <3> QED
      BY <1>2, <2>3, <3>1
  <2> QED
    BY <1>1, <1>5, <2>1, <2>2, <2>3
<1>12. \A j \in 1..Len(w) : w[j] \in lv \cup {n}
  BY <1>2, <1>10, <1>11
<1>13. ASSUME NEW l \in lv \cup {n} PROVE \E j \in 1..Len(w) : w[j] = l
  <2>1. CASE l = n
    BY <1>1, <1>2, <1>5, <2>1
  <2>2. CASE l \in lv
    <3>1. PICK j \in 1..m : e[j] = l
      BY <1>10, <2>2
    <3>2. CASE j < i
      <4>1. j \in 1..m + 1
        BY <1>1
      <4> QED
        BY <1>2, <3>1, <3>2, <4>1
    <3>3. CASE ~(j < i)
      <4>1. j + 1 \in 1..m + 1 /\ ~(j + 1 < i) /\ j + 1 # i /\ (j + 1) - 1 = j
        BY <1>1, <1>5, <3>3
      <4> QED
        BY <1>2, <3>1, <4>1
    <3> QED
      BY <3>2, <3>3
  <2> QED
    BY <2>1, <2>2
<1>14. ASSUME NEW j \in 1..m + 1, NEW k \in 1..m + 1, w[j] = w[k] PROVE j = k
  <2>1. /\ \/ j < i /\ j \in 1..m /\ w[j] = e[j]
           \/ j = i /\ w[j] = n
           \/ j > i /\ j - 1 \in 1..m /\ w[j] = e[j - 1]
        /\ \/ k < i /\ k \in 1..m /\ w[k] = e[k]
           \/ k = i /\ w[k] = n
           \/ k > i /\ k - 1 \in 1..m /\ w[k] = e[k - 1]
    BY <1>11
  <2>2. \A l \in 1..m : e[l] # n
    BY <1>10
  <2> QED
    BY <1>1, <1>5, <1>10, <1>14, <2>1, <2>2
<1> QED
  BY <1>2, <1>9, <1>12, <1>13, <1>14 DEF Each

Without(w, e, i) ==
  /\ Len(w) = Len(e) - 1
  /\ \A j \in 0..i - 1 : At(w, j) = At(e, j)
  /\ \A j \in i..Len(e) : At(w, j) = At(e, j + 1)

LEMMA ErasedAt ==
  ASSUME NEW e, NEW lv, Each(e, lv), NEW i \in 1..Len(e),
         NEW w \in Seq(Node), Erased(w, e, i)
  PROVE  Without(w, e, i) /\ Each(w, lv \ {e[i]})
<1> DEFINE m == Len(e)
<1>1. Apart(e) /\ m \in Nat
  BY EachApart DEF Apart
<1>2. Len(w) = m - 1 /\ \A j \in 1..m - 1 : w[j] = IF j < i THEN e[j] ELSE e[j + 1]
  BY DEF Erased
<1>3. At(e, 0) = head /\ At(e, m + 1) = tail /\ \A k \in 1..m : At(e, k) = e[k]
  BY <1>1 DEF Apart
<1> HIDE DEF m
<1>5. i \in 1..m
  BY DEF m
<1>4. At(w, 0) = head /\ At(w, m) = tail /\ \A k \in 1..m - 1 : At(w, k) = w[k]
  BY <1>1, <1>2, <1>5 DEF At
<1>6. ASSUME NEW j \in 0..i - 1 PROVE At(w, j) = At(e, j)
  <2>1. CASE j = 0
    BY <1>3, <1>4, <2>1
  <2>2. CASE j # 0
    <3>1. j \in 1..m /\ j \in 1..m - 1 /\ j < i
      BY <1>1, <1>5, <2>2
    <3> QED
      BY <1>2, <1>3, <1>4, <3>1
  <2> QED
    BY <2>1, <2>2
<1>8. ASSUME NEW j \in i..m PROVE At(w, j) = At(e, j + 1)
  <2>1. CASE j = m
    BY <1>3, <1>4, <2>1
  <2>2. CASE j # m
    <3>1. j + 1 \in 1..m /\ j \in 1..m - 1 /\ ~(j < i)
      BY <1>1, <1>5, <2>2
    <3> QED
      BY <1>2, <1>3, <1>4, <3>1
  <2> QED
    BY <2>1, <2>2
<1>9. Without(w, e, i)
  BY <1>2, <1>6, <1>8 DEF Without, m
<1>10. /\ \A j \in 1..m : e[j] \in lv
       /\ \A l \in lv : \E j \in 1..m : e[j] = l
       /\ \A j, k \in 1..m : e[j] = e[k] => j = k
  BY DEF Each, m
<1>11. ASSUME NEW j \in 1..m - 1
       PROVE  \/ j < i /\ j \in 1..m /\ w[j] = e[j]
              \/ ~(j < i) /\ j + 1 \in 1..m /\ w[j] = e[j + 1]
  <2>1. CASE j < i
    BY <1>1, <1>2, <1>5, <2>1
  <2>2. CASE ~(j < i)
    BY <1>1, <1>2, <1>5, <2>2
  <2> QED
    BY <2>1, <2>2
<1>12. ASSUME NEW j \in 1..m - 1 PROVE w[j] \in lv \ {e[i]}
  <2>1. \A k \in 1..m : k # i => e[k] \in lv \ {e[i]}
    BY <1>5, <1>10
  <2>2. \E k \in 1..m : k # i /\ w[j] = e[k]
    <3>1. CASE j < i /\ j \in 1..m /\ w[j] = e[j]
      <4>1. j # i
        BY <1>1, <1>5, <3>1
      <4> QED
        BY <3>1, <4>1
    <3>2. CASE ~(j < i) /\ j + 1 \in 1..m /\ w[j] = e[j + 1]
      <4>1. j + 1 # i
        BY <1>1, <1>5, <3>2
      <4> QED
        BY <3>2, <4>1
    <3> QED
      BY <1>11, <3>1, <3>2
  <2> QED
    BY <2>1, <2>2
<1>13. ASSUME NEW l \in lv \ {e[i]} PROVE \E j \in 1..m - 1 : w[j] = l
  <2>1. PICK j \in 1..m : e[j] = l
    BY <1>10
  <2>2. CASE j < i
    <3>1. j \in 1..m - 1
      BY <1>1, <1>5, <2>2
    <3> QED
      BY <1>2, <2>1, <2>2, <3>1
  <2>3. CASE j > i
    <3>1. j - 1 \in 1..m - 1 /\ ~(j - 1 < i) /\ (j - 1) + 1 = j
      BY <1>1, <1>5, <2>3
    <3> QED
      BY <1>2, <2>1, <3>1
  <2> QED
    BY <1>5, <2>1, <2>2, <2>3
<1>14. ASSUME NEW j \in 1..m - 1, NEW k \in 1..m - 1, w[j] = w[k] PROVE j = k
  <2>1. /\ \/ j < i /\ j \in 1..m /\ w[j] = e[j]
           \/ ~(j < i) /\ j + 1 \in 1..m /\ w[j] = e[j + 1]
        /\ \/ k < i /\ k \in 1..m /\ w[k] = e[k]
           \/ ~(k < i) /\ k + 1 \in 1..m /\ w[k] = e[k + 1]
    BY <1>11
  <2> QED
    BY <1>1, <1>5, <1>10, <1>14, <2>1
<1> QED
  BY <1>2, <1>9, <1>12, <1>13, <1>14 DEF Each

-----------------------------------------------------------------------------
(* The links after an insert and after an erase. *)

LEMMA InsertLinks ==
  ASSUME NEW nx, NEW pv, NEW lv, NEW e, Chain(nx, pv, lv, e),
         NEW i \in 1..Len(e) + 1, NEW n \in Node, n \notin lv,
         NEW w \in Seq(Node), Inserted(w, e, i, n),
         NEW p, p = At(e, i - 1), NEW o, o = At(e, i),
         NEW nx2, nx2 = [nx EXCEPT ![p] = n, ![n] = o],
         NEW pv2, pv2 = [pv EXCEPT ![n] = p, ![o] = n]
  PROVE  Chain(nx2, pv2, lv \cup {n}, w)
<1> DEFINE m == Len(e)
<1>1. Each(e, lv) /\ Apart(e) /\ Ends(nx, pv) /\ Linked(nx, pv, e) /\ m \in Nat
  BY EachApart DEF Chain, Apart
<1>2. Between(w, e, i, n) /\ Each(w, lv \cup {n})
  BY <1>1, InsertedAt
<1>3. i \in 1..m + 1 /\ i \in 0..m + 1 /\ i - 1 \in 0..m + 1 /\ i - 1 # i /\ i - 1 # m + 1 /\ i # 0
      /\ 0 \in 0..m + 1 /\ m + 1 \in 0..m + 1
  BY <1>1
<1>4. /\ \A j \in 0..m + 1 : At(e, j) \in L!All /\ At(e, j) # null /\ At(e, j) # n
      /\ \A j, k \in 0..m + 1 : At(e, j) = At(e, k) => j = k
      /\ At(e, 0) = head /\ At(e, m + 1) = tail
  BY <1>1, NewIsElsewhere DEF Apart
<1>5. /\ nx \in [L!All -> L!All] /\ pv \in [L!All -> L!All]
      /\ nx[tail] = null /\ nx[null] = null /\ pv[head] = null
  BY <1>1 DEF Ends
<1>6. \A j \in 0..m : nx[At(e, j)] = At(e, j + 1) /\ pv[At(e, j + 1)] = At(e, j)
  BY <1>1 DEF Linked
<1>7. /\ Len(w) = m + 1 /\ At(w, i) = n
      /\ \A j \in 0..i - 1 : At(w, j) = At(e, j)
      /\ \A j \in i + 1..m + 2 : At(w, j) = At(e, j - 1)
  BY <1>2 DEF Between
<1> HIDE DEF m
<1>8. p \in L!All /\ o \in L!All /\ n \in L!All /\ p # n /\ o # n /\ p # null /\ o # null
      /\ n # null /\ n # tail /\ n # head
  BY <1>3, <1>4, Sentinels
<1>9. /\ nx2 \in [L!All -> L!All] /\ pv2 \in [L!All -> L!All]
      /\ nx2[n] = o /\ nx2[p] = n /\ \A x \in L!All \ {n, p} : nx2[x] = nx[x]
      /\ pv2[n] = p /\ pv2[o] = n /\ \A x \in L!All \ {n, o} : pv2[x] = pv[x]
  BY <1>5, <1>8
<1>10. p # tail /\ o # head
  BY <1>3, <1>4
<1>11. Ends(nx2, pv2)
  BY <1>5, <1>8, <1>9, <1>10, Sentinels DEF Ends
<1>12. ASSUME NEW k \in 0..m + 1
       PROVE  nx2[At(w, k)] = At(w, k + 1) /\ pv2[At(w, k + 1)] = At(w, k)
  <2>1. CASE k < i - 1
    <3>1. /\ k \in 0..m /\ k \in 0..m + 1 /\ k + 1 \in 0..m + 1 /\ k # i - 1 /\ k + 1 # i
          /\ k \in 0..i - 1 /\ k + 1 \in 0..i - 1
      BY <1>1, <1>3, <2>1
    <3>2. At(w, k) = At(e, k) /\ At(w, k + 1) = At(e, k + 1)
      BY <1>7, <3>1
    <3>3. At(e, k) \in L!All \ {n, p} /\ At(e, k + 1) \in L!All \ {n, o}
      BY <1>3, <1>4, <3>1
    <3> QED
      BY <1>6, <1>9, <3>1, <3>2, <3>3
  <2>2. CASE k = i - 1
    <3>1. k + 1 = i /\ k \in 0..i - 1
      BY <1>3, <2>2
    <3>2. At(w, k) = p /\ At(w, k + 1) = n
      BY <1>7, <2>2, <3>1
    <3> QED
      BY <1>9, <3>2
  <2>3. CASE k = i
    <3>1. k + 1 \in i + 1..m + 2 /\ (k + 1) - 1 = i
      BY <1>1, <1>3, <2>3
    <3>2. At(w, k) = n /\ At(w, k + 1) = o
      BY <1>7, <2>3, <3>1
    <3> QED
      BY <1>9, <3>2
  <2>4. CASE k > i
    <3>1. /\ k \in i + 1..m + 2 /\ k + 1 \in i + 1..m + 2 /\ (k + 1) - 1 = k /\ (k - 1) + 1 = k
          /\ k - 1 \in 0..m /\ k - 1 \in 0..m + 1 /\ k \in 0..m + 1 /\ k - 1 # i - 1 /\ k # i
      BY <1>1, <1>3, <2>4
    <3>2. At(w, k) = At(e, k - 1) /\ At(w, k + 1) = At(e, k)
      BY <1>7, <3>1
    <3>3. At(e, k - 1) \in L!All \ {n, p} /\ At(e, k) \in L!All \ {n, o}
      BY <1>3, <1>4, <3>1
    <3>4. nx[At(e, k - 1)] = At(e, k) /\ pv[At(e, k)] = At(e, k - 1)
      BY <1>6, <3>1
    <3> QED
      BY <1>9, <3>2, <3>3, <3>4
  <2> QED
    BY <1>3, <2>1, <2>2, <2>3, <2>4
<1>13. Linked(nx2, pv2, w)
  BY <1>7, <1>12 DEF Linked
<1> QED
  BY <1>2, <1>11, <1>13 DEF Chain

LEMMA EraseLinks ==
  ASSUME NEW nx, NEW pv, NEW lv, NEW e, Chain(nx, pv, lv, e),
         NEW i \in 1..Len(e), NEW w \in Seq(Node), Erased(w, e, i),
         NEW c, c = e[i],
         NEW nx2, nx2 = [nx EXCEPT ![pv[c]] = nx[c], ![c] = null],
         NEW pv2, pv2 = [pv EXCEPT ![nx[c]] = pv[c], ![c] = null]
  PROVE  Chain(nx2, pv2, lv \ {c}, w)
<1> DEFINE m == Len(e)
           p == At(e, i - 1)
           o == At(e, i + 1)
<1>1. Each(e, lv) /\ Apart(e) /\ Ends(nx, pv) /\ Linked(nx, pv, e) /\ m \in Nat
  BY EachApart DEF Chain, Apart
<1>2. Without(w, e, i) /\ Each(w, lv \ {c})
  BY <1>1, ErasedAt
<1>3. i \in 1..m /\ i \in 0..m + 1 /\ i - 1 \in 0..m + 1 /\ i + 1 \in 0..m + 1
      /\ i - 1 # i /\ i - 1 # m + 1 /\ i # 0 /\ i # m + 1 /\ i + 1 # 0 /\ i # i + 1 /\ i - 1 # i + 1
      /\ 0 \in 0..m + 1 /\ m + 1 \in 0..m + 1
      /\ i \in 0..m /\ i - 1 \in 0..m /\ (i - 1) + 1 = i
  BY <1>1
<1>4. /\ \A j \in 0..m + 1 : At(e, j) \in L!All /\ At(e, j) # null
      /\ \A j, k \in 0..m + 1 : At(e, j) = At(e, k) => j = k
      /\ At(e, 0) = head /\ At(e, m + 1) = tail /\ At(e, i) = c
  BY <1>1 DEF Apart
<1>5. /\ nx \in [L!All -> L!All] /\ pv \in [L!All -> L!All]
      /\ nx[tail] = null /\ nx[null] = null /\ pv[head] = null
  BY <1>1 DEF Ends
<1>6. \A j \in 0..m : nx[At(e, j)] = At(e, j + 1) /\ pv[At(e, j + 1)] = At(e, j)
  BY <1>1 DEF Linked
<1>7. /\ Len(w) = m - 1
      /\ \A j \in 0..i - 1 : At(w, j) = At(e, j)
      /\ \A j \in i..m : At(w, j) = At(e, j + 1)
  BY <1>2 DEF Without
<1>a. nx[c] = o /\ pv[c] = p
  BY <1>3, <1>4, <1>6
<1> HIDE DEF m, p, o
<1>b. i \in 1..m /\ m \in Nat
  BY <1>1, <1>3
<1>8. p \in L!All /\ o \in L!All /\ c \in L!All /\ p # c /\ o # c /\ p # null /\ o # null
      /\ c # null /\ c # tail /\ c # head
  BY <1>3, <1>4 DEF p, o
<1>9. /\ nx2 \in [L!All -> L!All] /\ pv2 \in [L!All -> L!All]
      /\ nx2[p] = o /\ \A x \in L!All \ {c, p} : nx2[x] = nx[x]
      /\ pv2[o] = p /\ \A x \in L!All \ {c, o} : pv2[x] = pv[x]
  BY <1>5, <1>8, <1>a, Sentinels
<1>10. p # tail /\ o # head
  BY <1>3, <1>4 DEF p, o
<1>11. Ends(nx2, pv2)
  BY <1>5, <1>8, <1>9, <1>10, Sentinels DEF Ends
<1>12. ASSUME NEW k \in 0..m - 1
       PROVE  nx2[At(w, k)] = At(w, k + 1) /\ pv2[At(w, k + 1)] = At(w, k)
  <2>1. CASE k < i - 1
    <3>1. /\ k \in 0..m /\ k \in 0..m + 1 /\ k + 1 \in 0..m + 1 /\ k # i - 1 /\ k + 1 # i + 1
          /\ k # i /\ k + 1 # i /\ k \in 0..i - 1 /\ k + 1 \in 0..i - 1
      BY <1>b, <2>1
    <3>2. At(w, k) = At(e, k) /\ At(w, k + 1) = At(e, k + 1)
      BY <1>7, <3>1
    <3>3. At(e, k) \in L!All \ {c, p} /\ At(e, k + 1) \in L!All \ {c, o}
      <4>1. At(e, k) \in L!All /\ At(e, k) # c /\ At(e, k) # p
        BY <1>3, <1>4, <3>1, Zenon DEF p
      <4>2. At(e, k + 1) \in L!All /\ At(e, k + 1) # c /\ At(e, k + 1) # o
        BY <1>3, <1>4, <3>1, Zenon DEF o
      <4> QED
        BY <4>1, <4>2, Zenon
    <3> QED
      BY <1>6, <1>9, <3>1, <3>2, <3>3
  <2>2. CASE k = i - 1
    <3>1. k + 1 = i /\ k \in 0..i - 1 /\ i \in i..m
      BY <1>3, <2>2
    <3>2. At(w, k) = p /\ At(w, k + 1) = o
      BY <1>7, <2>2, <3>1 DEF p, o
    <3> QED
      BY <1>9, <3>2
  <2>3. CASE k > i - 1
    <3>1. /\ k \in i..m /\ k + 1 \in i..m
          /\ k + 1 \in 0..m /\ k + 1 \in 0..m + 1 /\ (k + 1) + 1 \in 0..m + 1
          /\ k + 1 # i - 1 /\ k + 1 # i /\ (k + 1) + 1 # i /\ (k + 1) + 1 # i + 1
      BY <1>b, <2>3
    <3>2. At(w, k) = At(e, k + 1) /\ At(w, k + 1) = At(e, (k + 1) + 1)
      BY <1>7, <3>1
    <3>3. At(e, k + 1) \in L!All \ {c, p} /\ At(e, (k + 1) + 1) \in L!All \ {c, o}
      <4>1. At(e, k + 1) \in L!All /\ At(e, k + 1) # c /\ At(e, k + 1) # p
        BY <1>3, <1>4, <3>1, Zenon DEF p
      <4>2. /\ At(e, (k + 1) + 1) \in L!All
            /\ At(e, (k + 1) + 1) # c /\ At(e, (k + 1) + 1) # o
        BY <1>3, <1>4, <3>1, Zenon DEF o
      <4> QED
        BY <4>1, <4>2, Zenon
    <3>4. nx[At(e, k + 1)] = At(e, (k + 1) + 1) /\ pv[At(e, (k + 1) + 1)] = At(e, k + 1)
      BY <1>6, <3>1
    <3> QED
      BY <1>9, <3>2, <3>3, <3>4
  <2> QED
    BY <1>3, <2>1, <2>2, <2>3
<1>13. Linked(nx2, pv2, w)
  BY <1>7, <1>12 DEF Linked
<1> QED
  BY <1>2, <1>11, <1>13 DEF Chain

-----------------------------------------------------------------------------
(* The walk along a chain. *)

IsStep(f, nx) == f = [k \in Nat |-> IF k = 0 THEN head ELSE nx[f[k - 1]]]
StepOf(nx) == CHOOSE f : IsStep(f, nx)

LEMMA StepExists ==
  ASSUME NEW nx, NEW pv, NEW lv, NEW e, Chain(nx, pv, lv, e)
  PROVE  \E f : IsStep(f, nx)
<1> DEFINE m == Len(e)
           g == [k \in Nat |-> IF k <= m + 1 THEN At(e, k) ELSE null]
<1>1. Apart(e) /\ Ends(nx, pv) /\ Linked(nx, pv, e) /\ m \in Nat
  BY EachApart DEF Chain, Apart
<1>2. \A j \in 0..m : nx[At(e, j)] = At(e, j + 1)
  BY <1>1 DEF Linked
<1>3. nx[At(e, m + 1)] = null /\ nx[null] = null /\ At(e, 0) = head
  BY <1>1 DEF Ends, Apart
<1> HIDE DEF m
<1>4. /\ \A k \in 0..m + 1 : g[k] = At(e, k)
      /\ \A k \in Nat : k > m + 1 => g[k] = null
  BY <1>1
<1> HIDE DEF g
<1>5. ASSUME NEW k \in Nat PROVE g[k] = IF k = 0 THEN head ELSE nx[g[k - 1]]
  <2>1. CASE k = 0
    <3>1. 0 \in 0..m + 1
      BY <1>1
    <3> QED
      BY <1>3, <1>4, <2>1, <3>1
  <2>2. CASE k # 0 /\ k <= m + 1
    <3>1. k \in 0..m + 1 /\ k - 1 \in 0..m + 1 /\ k - 1 \in 0..m /\ (k - 1) + 1 = k
      BY <1>1, <2>2
    <3> QED
      BY <1>2, <1>4, <2>2, <3>1, Zenon
  <2>3. CASE k = m + 2
    <3>1. k > m + 1 /\ k - 1 = m + 1 /\ m + 1 \in 0..m + 1 /\ k # 0
      BY <1>1, <2>3
    <3> QED
      BY <1>3, <1>4, <3>1, Zenon
  <2>4. CASE k > m + 2
    <3>1. k > m + 1 /\ k - 1 \in Nat /\ k - 1 > m + 1 /\ k # 0
      BY <1>1, <2>4
    <3> QED
      BY <1>3, <1>4, <3>1, Zenon
  <2> QED
    BY <1>1, <2>1, <2>2, <2>3, <2>4
<1>6. g = [k \in Nat |-> g[k]]
  BY DEF g
<1>7. IsStep(g, nx)
  BY <1>5, <1>6, Zenon DEF IsStep
<1> QED
  BY <1>7

\* Induction over a set of numbers, from the well-foundedness of <.
LEMMA SetInduction ==
  ASSUME NEW S, 0 \in S, \A n \in Nat : n \in S => n + 1 \in S
  PROVE  Nat \subseteq S
<1> SUFFICES ASSUME Nat \ S # {} PROVE FALSE
  OBVIOUS
<1> DEFINE R == OpToRel(<, Nat)
           T == Nat \ S
<1>1. IsWellFoundedOn(R, Nat)
  BY NatLessThanWellFounded
<1>2. T \subseteq Nat /\ T # {}
  OBVIOUS
<1>3. \A y \in Nat, x \in Nat : y < x => <<y, x>> \in R
  BY DEF OpToRel
<1> HIDE DEF R, T
<1>4. PICK x \in T : \A y \in T : ~(<<y, x>> \in R)
  BY <1>1, <1>2, WFMin
<1>5. x \in Nat /\ x # 0
  BY <1>2 DEF T
<1>6. x - 1 \in Nat /\ x - 1 < x
  BY <1>5
<1>7. x - 1 \notin T
  BY <1>3, <1>4, <1>5, <1>6
<1>8. (x - 1) + 1 \in S
  BY <1>6, <1>7 DEF T
<1> QED
  BY <1>5, <1>8 DEF T

\* The k-th step of the walk is the k-th node of the chain.
LEMMA StepsAreAt ==
  ASSUME NEW nx, NEW pv, NEW lv, NEW e, Chain(nx, pv, lv, e)
  PROVE  \A k \in 0..Len(e) + 1 : StepOf(nx)[k] = At(e, k)
<1> DEFINE m == Len(e)
           f == StepOf(nx)
           S == {k \in Nat : k <= m + 1 => f[k] = At(e, k)}
<1>1. Apart(e) /\ Linked(nx, pv, e) /\ m \in Nat
  BY EachApart DEF Chain, Apart
<1>2. \A j \in 0..m : nx[At(e, j)] = At(e, j + 1)
  BY <1>1 DEF Linked
<1>3. At(e, 0) = head
  BY <1>1 DEF Apart
<1>4. IsStep(f, nx)
  BY StepExists, Zenon DEF StepOf
<1> HIDE DEF m, f
<1>5. \A k \in Nat : f[k] = IF k = 0 THEN head ELSE nx[f[k - 1]]
  BY <1>4, Zenon DEF IsStep
<1>6. 0 \in S
  BY <1>3, <1>5
<1>7. ASSUME NEW k \in Nat, k \in S PROVE k + 1 \in S
  <2> SUFFICES ASSUME k + 1 <= m + 1 PROVE f[k + 1] = At(e, k + 1)
    OBVIOUS
  <2>1. k <= m + 1 /\ k \in 0..m /\ k + 1 \in Nat /\ k + 1 # 0 /\ (k + 1) - 1 = k
    BY <1>1
  <2>2. f[k] = At(e, k)
    BY <1>7, <2>1
  <2> QED
    BY <1>2, <1>5, <2>1, <2>2, Zenon
<1>8. Nat \subseteq S
  <2> HIDE DEF S
  <2> QED
    BY <1>6, <1>7, SetInduction
<1>9. ASSUME NEW k \in 0..m + 1 PROVE f[k] = At(e, k)
  <2>1. k \in Nat /\ k <= m + 1
    BY <1>1
  <2> QED
    BY <1>8, <2>1
<1> QED
  BY <1>9 DEF m, f

LEMMA EachCount ==
  ASSUME NEW e, NEW lv, Each(e, lv)
  PROVE  Cardinality(lv) = Len(e)
<1>1. /\ Len(e) \in Nat /\ e \in [1..Len(e) -> lv]
      /\ \A m \in lv : \E i \in 1..Len(e) : e[i] = m
      /\ \A i, j \in 1..Len(e) : e[i] = e[j] => i = j
  BY DEF Each
<1>2. e \in Bijection(1..Len(e), lv)
  BY <1>1 DEF Bijection, Injection, Surjection, IsInjective
<1>3. ExistsBijection(1..Len(e), lv)
  BY <1>2 DEF ExistsBijection
<1> QED
  BY <1>1, <1>3, FS_CountingElements

\* What List calls its elements are the nodes of the chain.
Walk(nx, lv) == [k \in 1..L!Cardinality(lv) |-> StepOf(nx)[k]]

LEMMA WalkIsChain ==
  ASSUME NEW nx, NEW pv, NEW lv, NEW e, Chain(nx, pv, lv, e)
  PROVE  /\ Walk(nx, lv) = e
         /\ L!Cardinality(lv) = Len(e)
         /\ StepOf(nx)[Len(e) + 1] = tail
<1>1. Each(e, lv) /\ Apart(e) /\ e \in Seq(Node) /\ Len(e) \in Nat
  BY EachApart DEF Chain, Apart, Each
<1>2. \A S : L!Cardinality(S) = Cardinality(S)
  BY Zenon DEF L!Cardinality, Cardinality
<1>3. L!Cardinality(lv) = Len(e)
  BY <1>1, <1>2, EachCount
<1>4. \A k \in 0..Len(e) + 1 : StepOf(nx)[k] = At(e, k)
  BY StepsAreAt
<1>5. Len(e) + 1 \in 0..Len(e) + 1 /\ \A k \in 1..Len(e) : k \in 0..Len(e) + 1
  BY <1>1
<1>6. \A k \in 1..Len(e) : StepOf(nx)[k] = e[k]
  BY <1>1, <1>4, <1>5 DEF Apart
<1>7. StepOf(nx)[Len(e) + 1] = tail
  BY <1>1, <1>4, <1>5 DEF Apart
<1>8. e = [k \in 1..Len(e) |-> e[k]]
  BY <1>1
<1>9. Walk(nx, lv) = e
  BY <1>3, <1>6, <1>8, Zenon DEF Walk
<1> QED
  BY <1>3, <1>7, <1>9

LEMMA WalkOfList ==
  /\ L!Elements = Walk(next, listLive) /\ L!Elements' = Walk(next', listLive')
  /\ L!Step = StepOf(next)
<1>1. L!Step = StepOf(next) /\ L!Step' = StepOf(next')
  BY Zenon DEF L!Step, StepOf, IsStep
<1> QED
  BY <1>1, Zenon DEF L!Elements, Walk

-----------------------------------------------------------------------------
(* The list. *)

LInv == /\ Chain(next, prev, listLive, L!Elements)
        /\ it \in listLive \cup {head, tail, null}

\* A step of the links and the nodes is one of the sequence the walk meets.
LEMMA NextChain ==
  ASSUME NEW e, Chain(next', prev', listLive', e)
  PROVE  L!Elements' = e /\ Chain(next, prev, listLive, L!Elements)'
<1>1. L!Elements' = Walk(next', listLive')
  BY WalkOfList
<1>2. Walk(next', listLive') = e
  BY WalkIsChain
<1>3. L!Elements' = e
  BY <1>1, <1>2, Zenon
<1>4. Chain(next', prev', listLive', L!Elements')
  BY <1>3, Zenon
<1> QED
  BY <1>3, <1>4

ChainStep == Chain(next, prev, listLive, L!Elements)' /\ [L!Container!Next]_(L!Elements)

LEMMA InsertStep ==
  ASSUME LInv, NEW i \in 1..Len(L!Elements) + 1, NEW n \in Node,
         L!insert(At(L!Elements, i), n)
  PROVE  ChainStep /\ listLive' = listLive \cup {n}
<1> DEFINE e == L!Elements
           o == At(e, i)
           w == L!Container!InsertAt(e, i, n)
<1>1. /\ n \notin listLive /\ listLive' = listLive \cup {n}
      /\ next' = [next EXCEPT ![prev[o]] = n, ![n] = o]
      /\ prev' = [prev EXCEPT ![n] = prev[o], ![o] = n]
  BY DEF L!insert
<1>2. Chain(next, prev, listLive, e)
  BY DEF LInv
<1> HIDE DEF e
<1>3. e \in Seq(Node) /\ Len(e) \in Nat /\ Linked(next, prev, e)
  BY <1>2 DEF Chain, Each
<1>4. i \in 1..Len(e) + 1
  BY DEF e
<1>5. prev[o] = At(e, i - 1)
  <2>1. i - 1 \in 0..Len(e) /\ (i - 1) + 1 = i
    BY <1>3, <1>4
  <2>2. prev[At(e, (i - 1) + 1)] = At(e, i - 1)
    BY <1>3, <2>1, Zenon DEF Linked
  <2> QED
    BY <2>1, <2>2
<1>6. w \in Seq(Node) /\ Inserted(w, e, i, n)
  BY <1>3, <1>4, InsertIsInserted
<1> DEFINE p == prev[o]
<1> HIDE DEF o, w, p
<1>7. /\ next' = [next EXCEPT ![p] = n, ![n] = o]
      /\ prev' = [prev EXCEPT ![n] = p, ![o] = n]
      /\ p = At(e, i - 1) /\ o = At(e, i)
  BY <1>1, <1>5, Zenon DEF o, p
<1>8. Chain(next', prev', listLive \cup {n}, w)
  <2>1. n \notin listLive
    BY <1>1
  <2> QED
    BY <1>2, <1>4, <1>6, <1>7, <2>1, InsertLinks
<1>9. Chain(next', prev', listLive', w)
  BY <1>1, <1>8, Zenon
<1>10. L!Elements' = w /\ Chain(next, prev, listLive, L!Elements)'
  BY <1>9, NextChain
<1>11. [L!Container!Next]_(L!Elements)
  <2>1. L!Elements' = L!Container!InsertAt(L!Elements, i, n)
    BY <1>10 DEF w, e
  <2> QED
    BY <2>1, Zenon DEF L!Container!Next
<1> QED
  BY <1>1, <1>10, <1>11 DEF ChainStep

LEMMA EraseStep ==
  ASSUME LInv, NEW i \in 1..Len(L!Elements), L!erase(L!Elements[i])
  PROVE  ChainStep /\ listLive' = listLive \ {L!Elements[i]}
<1> DEFINE e == L!Elements
           c == e[i]
           w == L!Container!RemoveAt(e, i)
<1>1. /\ listLive' = listLive \ {c}
      /\ next' = [next EXCEPT ![prev[c]] = next[c], ![c] = null]
      /\ prev' = [prev EXCEPT ![next[c]] = prev[c], ![c] = null]
  BY DEF L!erase
<1>2. Chain(next, prev, listLive, e)
  BY DEF LInv
<1>3. i \in 1..Len(e)
  OBVIOUS
<1> HIDE DEF e
<1>4. e \in Seq(Node) /\ Len(e) \in Nat
  BY <1>2 DEF Chain, Each
<1>6. w \in Seq(Node) /\ Erased(w, e, i)
  BY <1>3, <1>4, RemoveIsErased
<1>7. c = e[i]
  OBVIOUS
<1> HIDE DEF w, c
<1>8. Chain(next', prev', listLive \ {c}, w)
  BY <1>1, <1>2, <1>3, <1>6, <1>7, EraseLinks
<1>9. Chain(next', prev', listLive', w)
  BY <1>1, <1>8, Zenon
<1>10. L!Elements' = w /\ Chain(next, prev, listLive, L!Elements)'
  BY <1>9, NextChain
<1>11. [L!Container!Next]_(L!Elements)
  <2>1. L!Elements' = L!Container!RemoveAt(L!Elements, i)
    BY <1>10 DEF w, e
  <2> QED
    BY <2>1, Zenon DEF L!Container!Next
<1> QED
  BY <1>1, <1>10, <1>11 DEF ChainStep, c, e

\* The empty chain, of the constructor and of clear.
LEMMA EmptyLinks ==
  ASSUME NEW nx, nx = [n \in L!All |-> IF n = head THEN tail ELSE null],
         NEW pv, pv = [n \in L!All |-> IF n = tail THEN head ELSE null]
  PROVE  Chain(nx, pv, {}, << >>)
<1>1. Each(<< >>, {})
  BY DEF Each
<1>2. Len(<< >>) = 0
  OBVIOUS
<1>3. At(<< >>, 0) = head /\ At(<< >>, 1) = tail
  BY <1>2 DEF At
<1>4. Ends(nx, pv)
  BY Sentinels DEF Ends
<1>5. nx[head] = tail /\ pv[tail] = head
  BY Sentinels
<1>6. Linked(nx, pv, << >>)
  <2>1. \A k \in 0..Len(<< >>) : k = 0 /\ k + 1 = 1
    BY <1>2
  <2> QED
    BY <1>3, <1>5, <2>1 DEF Linked
<1> QED
  BY <1>1, <1>4, <1>6 DEF Chain

LEMMA ListInvInit ==
  ASSUME L!Init
  PROVE  LInv /\ L!Elements = << >>
<1>1. /\ next = [n \in L!All |-> IF n = head THEN tail ELSE null]
      /\ prev = [n \in L!All |-> IF n = tail THEN head ELSE null]
      /\ listLive = {} /\ it = tail
  BY DEF L!Init
<1>2. Chain(next, prev, {}, << >>)
  BY <1>1, EmptyLinks
<1>3. Chain(next, prev, listLive, << >>)
  BY <1>1, <1>2, Zenon
<1>4. L!Elements = << >>
  BY <1>3, WalkIsChain, WalkOfList
<1>5. Chain(next, prev, listLive, L!Elements)
  BY <1>3, <1>4, Zenon
<1> QED
  BY <1>1, <1>4, <1>5 DEF LInv

LEMMA ClearStep ==
  ASSUME LInv, L!clear
  PROVE  ChainStep
<1>1. /\ next' = [n \in L!All |-> IF n = head THEN tail ELSE null]
      /\ prev' = [n \in L!All |-> IF n = tail THEN head ELSE null]
      /\ listLive' = {}
  BY DEF L!clear
<1>2. Chain(next', prev', {}, << >>)
  BY <1>1, EmptyLinks
<1>3. Chain(next', prev', listLive', << >>)
  BY <1>1, <1>2, Zenon
<1>4. L!Elements' = << >> /\ Chain(next, prev, listLive, L!Elements)'
  BY <1>3, NextChain
<1> QED
  BY <1>4 DEF ChainStep, L!Container!Next

\* The places an iterator can be at, and what a step of one of the calls keeps.
LEMMA Places ==
  ASSUME LInv
  PROVE  /\ Apart(L!Elements) /\ Each(L!Elements, listLive)
         /\ Linked(next, prev, L!Elements) /\ Ends(next, prev)
         /\ next[head] = At(L!Elements, 1) /\ prev[tail] = At(L!Elements, Len(L!Elements))
         /\ \A m \in listLive : \E i \in 1..Len(L!Elements) : m = L!Elements[i]
<1> DEFINE e == L!Elements
<1>1. Each(e, listLive) /\ Linked(next, prev, e) /\ Ends(next, prev)
  BY DEF LInv, Chain
<1> HIDE DEF e
<1>2. Apart(e)
  BY <1>1, EachApart
<1>3. 0 \in 0..Len(e) /\ Len(e) \in 0..Len(e) /\ 0 + 1 = 1
  BY <1>2 DEF Apart
<1>4. next[head] = At(e, 1)
  BY <1>1, <1>2, <1>3 DEF Linked, Apart
<1>5. prev[tail] = At(e, Len(e))
  BY <1>1, <1>2, <1>3 DEF Linked, Apart
<1>6. \A m \in listLive : \E i \in 1..Len(e) : m = e[i]
  BY <1>1 DEF Each
<1> QED
  BY <1>1, <1>2, <1>4, <1>5, <1>6 DEF e

\* Where the links lead is where an iterator can be.
LEMMA LinksLead ==
  ASSUME LInv, NEW m \in listLive \cup {head, tail}
  PROVE  /\ next[m] \in listLive \cup {head, tail, null}
         /\ prev[m] \in listLive \cup {head, tail, null}
         /\ m # tail => next[m] \in listLive \cup {tail} /\ prev[next[m]] = m
<1> DEFINE e == L!Elements
<1>1. Apart(e) /\ Each(e, listLive) /\ Linked(next, prev, e) /\ Ends(next, prev)
  BY Places
<1> HIDE DEF e
<1>2. /\ Len(e) \in Nat /\ At(e, 0) = head /\ At(e, Len(e) + 1) = tail
      /\ \A i \in 1..Len(e) : At(e, i) = e[i] /\ e[i] \in listLive
      /\ \A l \in listLive : \E i \in 1..Len(e) : e[i] = l
  BY <1>1 DEF Apart, Each
<1>3. \A i \in 0..Len(e) : next[At(e, i)] = At(e, i + 1) /\ prev[At(e, i + 1)] = At(e, i)
  BY <1>1 DEF Linked
<1>4. next[tail] = null /\ prev[head] = null
  BY <1>1 DEF Ends
<1>5. \E i \in 0..Len(e) + 1 : m = At(e, i)
  <2>1. CASE m \in listLive
    <3>1. PICK i \in 1..Len(e) : e[i] = m
      BY <1>2, <2>1
    <3>2. i \in 0..Len(e) + 1 /\ m = At(e, i)
      BY <1>2, <3>1
    <3> QED
      BY <3>2
  <2>2. CASE m = head
    <3>1. 0 \in 0..Len(e) + 1
      BY <1>2
    <3> QED
      BY <1>2, <2>2, <3>1
  <2>3. CASE m = tail
    <3>1. Len(e) + 1 \in 0..Len(e) + 1
      BY <1>2
    <3> QED
      BY <1>2, <2>3, <3>1
  <2> QED
    BY <2>1, <2>2, <2>3
<1>6. PICK i \in 0..Len(e) + 1 : m = At(e, i)
  BY <1>5
<1>7. \A k \in 0..Len(e) + 1 : k = 0 \/ k = Len(e) + 1 \/ k \in 1..Len(e)
  BY <1>2
<1>8. \A k \in 0..Len(e) + 1 : At(e, k) \in listLive \cup {head, tail}
  BY <1>2, <1>7
<1>9. m # tail => next[m] \in listLive \cup {tail} /\ prev[next[m]] = m
  <2> SUFFICES ASSUME m # tail PROVE next[m] \in listLive \cup {tail} /\ prev[next[m]] = m
    OBVIOUS
  <2>1. i \in 0..Len(e) /\ i + 1 \in 0..Len(e) + 1 /\ i + 1 # 0
    BY <1>2, <1>6
  <2>2. i + 1 = Len(e) + 1 \/ i + 1 \in 1..Len(e)
    BY <1>2, <2>1
  <2>3. At(e, i + 1) \in listLive \cup {tail}
    BY <1>2, <2>2
  <2>4. next[At(e, i)] = At(e, i + 1) /\ prev[At(e, i + 1)] = At(e, i)
    BY <1>3, <2>1
  <2> QED
    BY <1>6, <2>3, <2>4
<1>10. prev[m] \in listLive \cup {head, tail, null}
  <2>1. CASE i = 0
    BY <1>2, <1>4, <1>6, <2>1
  <2>2. CASE i # 0
    <3>1. i - 1 \in 0..Len(e) /\ i - 1 \in 0..Len(e) + 1 /\ (i - 1) + 1 = i
      BY <1>2, <2>2
    <3>2. prev[At(e, (i - 1) + 1)] = At(e, i - 1)
      BY <1>3, <3>1
    <3> QED
      BY <1>6, <1>8, <3>1, <3>2
  <2> QED
    BY <2>1, <2>2
<1> QED
  BY <1>4, <1>9, <1>10

LEMMA ListStays ==
  ASSUME LInv, UNCHANGED <<next, prev, listLive>>
  PROVE  ChainStep
<1>1. Chain(next, prev, listLive, L!Elements)
  BY DEF LInv
<1>2. Chain(next', prev', listLive', L!Elements)
  BY <1>1, Zenon
<1>3. L!Elements' = L!Elements /\ Chain(next, prev, listLive, L!Elements)'
  BY <1>2, NextChain
<1> QED
  BY <1>3 DEF ChainStep

\* The positions of the calls that insert and erase.
LEMMA PushStep ==
  ASSUME LInv, NEW n \in Node, L!push_front(n) \/ L!push_back(n)
  PROVE  LInv' /\ ChainStep
<1> DEFINE e == L!Elements
<1>1. /\ Apart(e) /\ next[head] = At(e, 1) /\ tail = At(e, Len(e) + 1) /\ Len(e) \in Nat
      /\ 1 \in 1..Len(e) + 1 /\ Len(e) + 1 \in 1..Len(e) + 1
  BY Places DEF Apart
<1>2. /\ L!insert(At(e, 1), n) \/ L!insert(At(e, Len(e) + 1), n)
      /\ it' = it
  BY <1>1, Zenon DEF L!push_front, L!push_back
<1>3. ChainStep /\ listLive' = listLive \cup {n}
  BY <1>1, <1>2, InsertStep
<1>4. it' \in listLive' \cup {head, tail, null}
  BY <1>2, <1>3 DEF LInv
<1> QED
  BY <1>3, <1>4 DEF LInv, ChainStep

LEMMA PopStep ==
  ASSUME LInv, L!pop_front \/ L!pop_back
  PROVE  LInv' /\ ChainStep
<1> DEFINE e == L!Elements
<1>1. /\ Apart(e) /\ next[head] = At(e, 1) /\ prev[tail] = At(e, Len(e))
  BY Places
<1>2. next[head] # tail
  BY DEF L!pop_front, L!pop_back, L!empty
<1> HIDE DEF e
<1>3. /\ Len(e) \in Nat /\ At(e, Len(e) + 1) = tail
      /\ \A i \in 1..Len(e) : At(e, i) = e[i]
  BY <1>1 DEF Apart
<1>4. Len(e) # 0
  BY <1>1, <1>2, <1>3
<1>5. 1 \in 1..Len(e) /\ Len(e) \in 1..Len(e)
  BY <1>3, <1>4
<1>6. PICK i \in 1..Len(e) : L!erase(e[i]) /\ it' = L!Kept(e[i])
  <2>1. next[head] = e[1] /\ prev[tail] = e[Len(e)]
    BY <1>1, <1>3, <1>5
  <2> QED
    BY <1>5, <2>1, Zenon DEF L!pop_front, L!pop_back
<1>7. ChainStep /\ listLive' = listLive \ {e[i]}
  BY <1>6, EraseStep DEF e
<1>8. it' \in listLive' \cup {head, tail, null}
  BY <1>6, <1>7 DEF LInv, L!Kept
<1> QED
  BY <1>7, <1>8 DEF LInv, ChainStep

LEMMA InsertAtItStep ==
  ASSUME LInv, NEW n \in Node, L!InsertAtIt(n)
  PROVE  LInv' /\ ChainStep
<1> DEFINE e == L!Elements
<1>1. /\ Apart(e) /\ \A m \in listLive : \E i \in 1..Len(e) : m = e[i]
  BY Places
<1>2. it # null /\ it # head /\ L!insert(it, n) /\ it' = n
  BY DEF L!InsertAtIt
<1> HIDE DEF e
<1>3. /\ Len(e) \in Nat /\ At(e, Len(e) + 1) = tail
      /\ \A i \in 1..Len(e) : At(e, i) = e[i]
  BY <1>1 DEF Apart
<1>4. PICK i \in 1..Len(e) + 1 : it = At(e, i)
  <2>1. it \in listLive \/ it = tail
    BY <1>2 DEF LInv
  <2>2. CASE it \in listLive
    <3>1. PICK i \in 1..Len(e) : it = e[i]
      BY <1>1, <2>2
    <3>2. i \in 1..Len(e) + 1 /\ it = At(e, i)
      BY <1>3, <3>1
    <3> QED
      BY <3>2
  <2>3. CASE it = tail
    <3>1. Len(e) + 1 \in 1..Len(e) + 1
      BY <1>3
    <3> QED
      BY <1>3, <2>3, <3>1
  <2> QED
    BY <2>1, <2>2, <2>3
<1>5. L!insert(At(e, i), n)
  BY <1>2, <1>4, Zenon
<1>6. ChainStep /\ listLive' = listLive \cup {n}
  BY <1>5, InsertStep DEF e
<1> QED
  BY <1>2, <1>6 DEF LInv, ChainStep

LEMMA EraseAtItStep ==
  ASSUME LInv, L!EraseAtIt
  PROVE  LInv' /\ ChainStep
<1> DEFINE e == L!Elements
<1>1. CASE it \in {head, tail}
  <2>1. it' = tail /\ UNCHANGED <<next, prev, listLive>>
    BY <1>1 DEF L!EraseAtIt
  <2> QED
    BY <2>1, ListStays DEF LInv, ChainStep
<1>2. CASE it \notin {head, tail}
  <2>1. it # null /\ L!erase(it) /\ it' = next[it]
    BY <1>2 DEF L!EraseAtIt
  <2>2. it \in listLive
    BY <1>2, <2>1 DEF LInv
  <2>3. Apart(e) /\ Each(e, listLive) /\ Linked(next, prev, e)
    BY Places
  <2>4. PICK i \in 1..Len(e) : it = e[i]
    BY <2>2, Places
  <2>5. L!erase(L!Elements[i])
    BY <2>1, <2>4, Zenon
  <2>6. ChainStep /\ listLive' = listLive \ {it}
    <3>1. ChainStep /\ listLive' = listLive \ {L!Elements[i]}
      BY <2>5, EraseStep
    <3> QED
      BY <2>4, <3>1
  <2> HIDE DEF e
  <2>7. next[it] \in listLive \cup {tail} /\ next[it] # it
    <3>1. /\ i \in 0..Len(e) /\ i + 1 # i /\ i \in 0..Len(e) + 1 /\ i + 1 \in 0..Len(e) + 1
      BY <2>3 DEF Apart
    <3>2. it = At(e, i) /\ next[it] = At(e, i + 1)
      BY <2>3, <2>4, <3>1 DEF Linked, Apart
    <3>3. next[it] # it
      BY <2>3, <3>1, <3>2 DEF Apart
    <3>4. it \in listLive \cup {head, tail} /\ it # tail
      BY <1>2, <2>2
    <3>5. next[it] \in listLive \cup {tail}
      BY <3>4, LinksLead
    <3> QED
      BY <3>3, <3>5
  <2>8. it' \in listLive' \cup {head, tail, null}
    BY <2>1, <2>6, <2>7
  <2> QED
    BY <2>6, <2>8 DEF LInv, ChainStep
<1> QED
  BY <1>1, <1>2

LEMMA MoveStep ==
  ASSUME LInv, L!Begin \/ L!End \/ L!Increment \/ L!Decrement
  PROVE  LInv' /\ ChainStep
<1>1. /\ UNCHANGED <<next, prev, listLive>>
      /\ \/ it' = tail \/ it' = next[head]
         \/ it # null /\ it' = next[it]
         \/ it # null /\ it' = prev[it]
  BY DEF L!Begin, L!End, L!Increment, L!Decrement
<1>2. ChainStep
  BY <1>1, ListStays
<1>3. \A m \in listLive \cup {head, tail} :
        /\ next[m] \in listLive \cup {head, tail, null}
        /\ prev[m] \in listLive \cup {head, tail, null}
  BY LinksLead
<1>4. it' \in listLive \cup {head, tail, null}
  BY <1>1, <1>3 DEF LInv
<1>5. it' \in listLive' \cup {head, tail, null}
  BY <1>1, <1>4
<1> QED
  BY <1>2, <1>5 DEF LInv, ChainStep

LEMMA ListInvStep ==
  ASSUME LInv, [L!Next]_list
  PROVE  LInv' /\ [L!Container!Next]_(L!Elements)
<1>1. CASE UNCHANGED list
  BY <1>1, ListStays DEF list, LInv, ChainStep
<1>2. CASE L!clear
  <2>1. ChainStep
    BY <1>2, ClearStep
  <2>2. it' \in listLive' \cup {head, tail, null}
    BY <1>2 DEF L!clear
  <2> QED
    BY <2>1, <2>2 DEF ChainStep, LInv
<1>3. CASE ~L!clear /\ L!Next
  BY <1>3, PushStep, PopStep, InsertAtItStep, EraseAtItStep, MoveStep DEF L!Next, ChainStep
<1> QED
  BY <1>1, <1>2, <1>3

LEMMA ListInvSafe == LInv => ListSafe
<1> SUFFICES ASSUME LInv PROVE ListSafe
  OBVIOUS
<1> DEFINE e == L!Elements
<1>1. Chain(next, prev, listLive, e) /\ Each(e, listLive) /\ e \in Seq(Node)
  BY DEF LInv, Chain, Each
<1>2. \A m \in listLive \cup {head} : next[m] # null /\ prev[next[m]] = m
  <2>1. \A m \in listLive \cup {head} : m \in listLive \cup {head, tail} /\ m # tail
    BY <1>1, Sentinels DEF Each
  <2>2. \A m \in listLive : m \in Node
    BY <1>1 DEF Each
  <2> QED
    BY <2>1, <2>2, LinksLead, Sentinels
<1>3. L!Range(e) = listLive
  <2> HIDE DEF e
  <2> QED
    BY <1>1 DEF L!Range, Each
<1>4. L!Step[L!Cardinality(listLive) + 1] = tail
  <2> HIDE DEF e
  <2>1. L!Cardinality(listLive) = Len(e) /\ StepOf(next)[Len(e) + 1] = tail
    BY <1>1, WalkIsChain
  <2> QED
    BY <2>1, WalkOfList, Zenon
<1> QED
  BY <1>2, <1>3, <1>4 DEF ListSafe, L!ListSafe, LInv

\* However the nodes are inserted and erased, at the ends or at an iterator, the
\* links back are the inverse of the links forward and the walk from the head
\* meets every node that is allocated, and no other, before the tail; a valid
\* iterator is in the list (myList.h:109-131).
THEOREM ListSafeAlways == Spec => []ListSafe
<1>1. Init => LInv
  BY ListInvInit DEF Init
<1>2. LInv /\ [Next]_vars => LInv'
  BY StepsOfOne, ListInvStep DEF L!vars, list
<1> QED
  BY <1>1, <1>2, ListInvSafe, PTL DEF Spec

\* Every call of the list inserts a node at a position of the sequence that print
\* meets, removes one, empties it or leaves it as it is (myList.h:97, 109, 120).
THEOREM ListImplementsContainer == Spec => ListIsContainer
<1>1. Init => LInv /\ L!Container!Init
  BY ListInvInit DEF L!Container!Init, Init
<1>2. LInv /\ [Next]_vars => LInv' /\ [L!Container!Next]_(L!Elements)
  BY StepsOfOne, ListInvStep DEF L!vars, list
<1> QED
  BY <1>1, <1>2, PTL DEF Spec, ListIsContainer, L!ListIsContainer, L!Container!Spec

-----------------------------------------------------------------------------
(* Recursion on the natural numbers: a function that iterates F from a.     *)

IsIter(f, F, a, n) == /\ DOMAIN f = 0..n
                      /\ f[0] = a
                      /\ \A i \in 0..n : i # 0 => f[i] = F[f[i - 1]]

LEMMA IterPrefix ==
  ASSUME NEW F, NEW a
  PROVE  \A n \in Nat : \E f : IsIter(f, F, a, n)
<1> DEFINE S == {n \in Nat : \E f : IsIter(f, F, a, n)}
<1>1. 0 \in S
  <2> DEFINE f == [i \in 0..0 |-> a]
  <2>1. IsIter(f, F, a, 0)
    BY DEF IsIter
  <2> HIDE DEF f
  <2> QED
    BY <2>1
<1>2. ASSUME NEW n \in Nat, n \in S PROVE n + 1 \in S
  <2>1. PICK f : IsIter(f, F, a, n)
    BY <1>2
  <2>2. DOMAIN f = 0..n /\ f[0] = a /\ \A i \in 0..n : i # 0 => f[i] = F[f[i - 1]]
    BY <2>1 DEF IsIter
  <2> DEFINE g == [i \in 0..n + 1 |-> IF i <= n THEN f[i] ELSE F[f[n]]]
  <2>3. DOMAIN g = 0..n + 1 /\ (\A i \in 0..n : g[i] = f[i]) /\ g[n + 1] = F[f[n]]
    <3>1. n + 1 \in 0..n + 1 /\ ~(n + 1 <= n) /\ \A i \in 0..n : i \in 0..n + 1 /\ i <= n
      OBVIOUS
    <3> QED
      BY <3>1, Zenon
  <2> HIDE DEF g
  <2>4. ASSUME NEW i \in 0..n + 1, i # 0 PROVE g[i] = F[g[i - 1]]
    <3>1. CASE i = n + 1
      <4>1. n \in 0..n /\ i - 1 = n
        BY <3>1
      <4> QED
        BY <2>3, <3>1, <4>1
    <3>2. CASE i # n + 1
      <4>1. i \in 0..n /\ i - 1 \in 0..n
        BY <2>4, <3>2
      <4> QED
        BY <2>2, <2>3, <2>4, <4>1
    <3> QED
      BY <3>1, <3>2
  <2>5. 0 \in 0..n
    OBVIOUS
  <2>6. IsIter(g, F, a, n + 1)
    BY <2>2, <2>3, <2>4, <2>5 DEF IsIter
  <2> QED
    BY <2>6
<1> HIDE DEF S
<1>3. Nat \subseteq S
  BY <1>1, <1>2, SetInduction
<1> QED
  BY <1>3 DEF S

LEMMA IterUnique ==
  ASSUME NEW F, NEW a, NEW m \in Nat, NEW n \in Nat, NEW f, NEW g,
         IsIter(f, F, a, m), IsIter(g, F, a, n)
  PROVE  \A i \in Nat : i <= m /\ i <= n => f[i] = g[i]
<1> DEFINE S == {i \in Nat : i <= m /\ i <= n => f[i] = g[i]}
<1>1. /\ f[0] = a /\ \A i \in 0..m : i # 0 => f[i] = F[f[i - 1]]
      /\ g[0] = a /\ \A i \in 0..n : i # 0 => g[i] = F[g[i - 1]]
  BY DEF IsIter
<1>2. 0 \in S
  BY <1>1
<1>3. ASSUME NEW i \in Nat, i \in S PROVE i + 1 \in S
  <2> SUFFICES ASSUME i + 1 <= m, i + 1 <= n PROVE f[i + 1] = g[i + 1]
    OBVIOUS
  <2>1. i <= m /\ i <= n /\ i + 1 \in 0..m /\ i + 1 \in 0..n /\ i + 1 # 0 /\ (i + 1) - 1 = i
    OBVIOUS
  <2>2. f[i] = g[i]
    BY <1>3, <2>1
  <2> QED
    BY <1>1, <2>1, <2>2, Zenon
<1> HIDE DEF S
<1>4. Nat \subseteq S
  BY <1>2, <1>3, SetInduction
<1> QED
  BY <1>4 DEF S

Iterates(f, F, a) == f = [n \in Nat |-> IF n = 0 THEN a ELSE F[f[n - 1]]]

LEMMA IterExists ==
  ASSUME NEW F, NEW a
  PROVE  \E f : Iterates(f, F, a)
<1> DEFINE pre(n) == CHOOSE f : IsIter(f, F, a, n)
           g == [n \in Nat |-> pre(n)[n]]
<1>1. \A n \in Nat : IsIter(pre(n), F, a, n)
  BY IterPrefix
<1>2. \A n \in Nat : g[n] = pre(n)[n]
  OBVIOUS
<1>3. g = [n \in Nat |-> g[n]]
  OBVIOUS
<1> HIDE DEF pre, g
<1>4. ASSUME NEW n \in Nat PROVE g[n] = IF n = 0 THEN a ELSE F[g[n - 1]]
  <2>1. IsIter(pre(n), F, a, n)
    BY <1>1
  <2>2. CASE n = 0
    BY <1>2, <2>1, <2>2 DEF IsIter
  <2>3. CASE n # 0
    <3>1. n - 1 \in Nat /\ n - 1 <= n /\ n - 1 <= n - 1 /\ n \in 0..n
      BY <2>3
    <3>2. pre(n)[n] = F[pre(n)[n - 1]]
      BY <2>1, <2>3, <3>1 DEF IsIter
    <3>3. IsIter(pre(n - 1), F, a, n - 1)
      BY <1>1, <3>1
    <3>4. pre(n)[n - 1] = pre(n - 1)[n - 1]
      BY <2>1, <3>1, <3>3, IterUnique
    <3> QED
      BY <1>2, <2>3, <3>1, <3>2, <3>4
  <2> QED
    BY <2>2, <2>3
<1>5. Iterates(g, F, a)
  BY <1>3, <1>4, Zenon DEF Iterates
<1> QED
  BY <1>5

\* The same, with the values in a set.
LEMMA IterWithin ==
  ASSUME NEW S, NEW a \in S, NEW F \in [S -> S]
  PROVE  \E f : /\ f = [n \in Nat |-> f[n]]
                /\ f[0] = a
                /\ \A n \in Nat : f[n] \in S
                /\ \A n \in Nat : n # 0 => f[n] = F[f[n - 1]]
<1>1. PICK f : Iterates(f, F, a)
  BY IterExists
<1>2. f = [n \in Nat |-> f[n]]
  BY <1>1 DEF Iterates
<1>3. \A n \in Nat : f[n] = IF n = 0 THEN a ELSE F[f[n - 1]]
  BY <1>1, Zenon DEF Iterates
<1>4. f[0] = a
  BY <1>3
<1>5. \A n \in Nat : n # 0 => f[n] = F[f[n - 1]]
  BY <1>3
<1> DEFINE T == {n \in Nat : f[n] \in S}
<1>6. 0 \in T
  BY <1>4
<1>7. ASSUME NEW n \in Nat, n \in T PROVE n + 1 \in T
  <2>1. n + 1 \in Nat /\ n + 1 # 0 /\ (n + 1) - 1 = n
    OBVIOUS
  <2>2. f[n + 1] = F[f[n]]
    BY <1>5, <2>1
  <2> QED
    BY <1>7, <2>1, <2>2
<1> HIDE DEF T
<1>8. Nat \subseteq T
  BY <1>6, <1>7, SetInduction
<1>9. \A n \in Nat : f[n] \in S
  BY <1>8 DEF T
<1> QED
  BY <1>2, <1>4, <1>5, <1>9

-----------------------------------------------------------------------------
(* SharedPtr: what is counted, what is reached and what a release deletes.  *)

Held(sc, al, pt, o) == {g \in sc \cup al : pt[g] = o}

\* Each object has been counted: it has as many owners as its count says, one
\* at least, and a pointer points to nothing else than such an object.
Counted(sc, al, pt, rc) ==
  /\ sc \subseteq Variable /\ al \subseteq Object /\ IsFiniteSet(sc \cup al)
  /\ pt \in [P!Pointer -> Object \cup {null}] /\ rc \in [Object -> Int]
  /\ \A g \in sc \cup al : pt[g] \in al \cup {null}
  /\ \A o \in al : rc[o] = Cardinality(Held(sc, al, pt, o)) /\ rc[o] # 0

Now == Counted(scope, alive, ptr, ref_count)

LEMMA SharedLink ==
  /\ \A S : P!Cardinality(S) = Cardinality(S)
  /\ IsFiniteSet(Object) /\ Cardinality(Object) \in Nat
  /\ Variable \cap Object = {} /\ null \notin Object
  /\ P!Pointer = Variable \cup Object
<1>1. \A S : P!Cardinality(S) = Cardinality(S)
  BY Zenon DEF P!Cardinality, Cardinality
<1>2. \A S : P!IsFiniteSet(S) <=> IsFiniteSet(S)
  BY Zenon DEF P!IsFiniteSet, IsFiniteSet
<1>3. P!IsFiniteSet(Object) /\ Variable \cap Object = {} /\ null \notin Object
  BY ContainersAssumption DEF ContainersAssumption, P!SharedPtrAssumption
<1>4. IsFiniteSet(Object)
  BY <1>2, <1>3
<1>5. Cardinality(Object) \in Nat
  BY <1>4, FS_CardinalityType
<1> QED
  BY <1>1, <1>3, <1>4, <1>5 DEF P!Pointer

\* One more step from pointer to pointer.
RStep(X) == X \cup ({ptr[g] : g \in X} \ {null})
IsReach(r) == r = [n \in Nat |-> IF n = 0 THEN scope ELSE RStep(r[n - 1])]

LEMMA ReachedIs ==
  ASSUME Now
  PROVE  \E r : /\ r[0] = scope
                /\ \A n \in Nat : n # 0 => r[n] = RStep(r[n - 1])
                /\ P!Reached = r[Cardinality(Object)]
<1> DEFINE S == SUBSET (scope \cup alive)
           F == [X \in S |-> RStep(X)]
<1>1. \A X \in S : RStep(X) \in S
  BY DEF Now, Counted, RStep
<1>2. scope \in S /\ F \in [S -> S]
  BY <1>1
<1>3. \A X \in S : F[X] = RStep(X)
  OBVIOUS
<1> HIDE DEF F, S
<1>4. PICK f : /\ f = [n \in Nat |-> f[n]]
               /\ f[0] = scope
               /\ \A n \in Nat : f[n] \in S
               /\ \A n \in Nat : n # 0 => f[n] = F[f[n - 1]]
  BY <1>2, IterWithin
<1>5. \A n \in Nat : f[n] = IF n = 0 THEN scope ELSE RStep(f[n - 1])
  <2>1. \A n \in Nat : n # 0 => n - 1 \in Nat
    OBVIOUS
  <2> QED
    BY <1>3, <1>4, <2>1
<1>6. IsReach(f)
  BY <1>4, <1>5, Zenon DEF IsReach
<1> DEFINE r == CHOOSE r : IsReach(r)
<1>7. IsReach(r)
  BY <1>6, Zenon
<1>8. P!Reached = r[P!Cardinality(Object)]
  BY Zenon DEF P!Reached, IsReach, RStep
<1>9. P!Reached = r[Cardinality(Object)]
  BY <1>8, SharedLink
<1> HIDE DEF r
<1>10. \A n \in Nat : r[n] = IF n = 0 THEN scope ELSE RStep(r[n - 1])
  BY <1>7, Zenon DEF IsReach
<1>11. r[0] = scope
  BY <1>10
<1> QED
  BY <1>9, <1>10, <1>11

\* The variables are reached, what is reached is alive, and no set is entered
\* that nothing from outside points into.
LEMMA ReachedFacts ==
  ASSUME Now
  PROVE  /\ scope \subseteq P!Reached /\ P!Reached \subseteq scope \cup alive
         /\ \A C : /\ C \cap scope = {}
                   /\ \A g \in scope \cup alive : ptr[g] \in C => g \in C
                   => C \cap P!Reached = {}
<1>1. PICK r : /\ r[0] = scope
               /\ \A n \in Nat : n # 0 => r[n] = RStep(r[n - 1])
               /\ P!Reached = r[Cardinality(Object)]
  BY ReachedIs
<1>2. \A n \in Nat : n + 1 \in Nat /\ n + 1 # 0 /\ (n + 1) - 1 = n
  OBVIOUS
<1>3. \A n \in Nat : r[n + 1] = RStep(r[n])
  BY <1>1, <1>2
<1>4. Cardinality(Object) \in Nat
  BY SharedLink
<1> DEFINE T == {n \in Nat : scope \subseteq r[n] /\ r[n] \subseteq scope \cup alive}
<1>5. 0 \in T
  BY <1>1
<1>6. ASSUME NEW n \in Nat, n \in T PROVE n + 1 \in T
  <2>1. r[n + 1] = RStep(r[n]) /\ n + 1 \in Nat
    BY <1>3
  <2>2. \A g \in scope \cup alive : ptr[g] \in alive \cup {null}
    BY DEF Now, Counted
  <2>3. scope \subseteq RStep(r[n]) /\ RStep(r[n]) \subseteq scope \cup alive
    BY <1>6, <2>2 DEF RStep
  <2> QED
    BY <2>1, <2>3
<1>7. Nat \subseteq T
  <2> HIDE DEF T
  <2> QED
    BY <1>5, <1>6, SetInduction
<1>8. ASSUME NEW C, C \cap scope = {}, \A g \in scope \cup alive : ptr[g] \in C => g \in C
      PROVE  C \cap P!Reached = {}
  <2> DEFINE U == {n \in Nat : C \cap r[n] = {}}
  <2>1. 0 \in U
    BY <1>1, <1>8
  <2>2. ASSUME NEW n \in Nat, n \in U PROVE n + 1 \in U
    <3>1. r[n + 1] = RStep(r[n]) /\ n + 1 \in Nat /\ r[n] \subseteq scope \cup alive
      BY <1>3, <1>7
    <3>2. C \cap RStep(r[n]) = {}
      BY <1>8, <2>2, <3>1 DEF RStep
    <3> QED
      BY <3>1, <3>2
  <2> HIDE DEF U
  <2>3. Nat \subseteq U
    BY <2>1, <2>2, SetInduction
  <2> QED
    BY <1>1, <1>4, <2>3 DEF U
<1> QED
  BY <1>1, <1>4, <1>7, <1>8

DStep(X) == X \cup P!OnlyOwned(X)
IsDeleted(d, h) == d = [n \in Nat |-> IF n = 0 THEN P!OnlyOwned({h}) ELSE DStep(d[n - 1])]

LEMMA DeletedIs ==
  ASSUME NEW h
  PROVE  \E d : /\ d[0] = P!OnlyOwned({h})
                /\ \A n \in Nat : d[n + 1] = DStep(d[n])
                /\ P!Deleted(h) = d[Cardinality(Object)]
<1> DEFINE S == SUBSET alive
           F == [X \in S |-> DStep(X)]
           a == P!OnlyOwned({h})
<1>1. \A X \in S : DStep(X) \in S
  BY DEF DStep, P!OnlyOwned
<1>2. a \in S /\ F \in [S -> S]
  BY <1>1 DEF P!OnlyOwned
<1>3. \A X \in S : F[X] = DStep(X)
  OBVIOUS
<1> HIDE DEF F, S, a
<1>4. PICK f : /\ f = [n \in Nat |-> f[n]]
               /\ f[0] = a
               /\ \A n \in Nat : f[n] \in S
               /\ \A n \in Nat : n # 0 => f[n] = F[f[n - 1]]
  BY <1>2, IterWithin
<1>5. \A n \in Nat : f[n] = IF n = 0 THEN a ELSE DStep(f[n - 1])
  <2>1. \A n \in Nat : n # 0 => n - 1 \in Nat
    OBVIOUS
  <2> QED
    BY <1>3, <1>4, <2>1
<1>6. IsDeleted(f, h)
  BY <1>4, <1>5, Zenon DEF IsDeleted, a
<1> DEFINE d == CHOOSE d : IsDeleted(d, h)
<1>7. IsDeleted(d, h)
  BY <1>6, Zenon
<1>8. P!Deleted(h) = d[P!Cardinality(Object)]
  BY Zenon DEF P!Deleted, IsDeleted, DStep
<1>9. P!Deleted(h) = d[Cardinality(Object)]
  BY <1>8, SharedLink
<1> HIDE DEF d
<1>10. \A n \in Nat : d[n] = IF n = 0 THEN P!OnlyOwned({h}) ELSE DStep(d[n - 1])
  BY <1>7, Zenon DEF IsDeleted
<1>11. d[0] = P!OnlyOwned({h})
  BY <1>10
<1>12. \A n \in Nat : n + 1 \in Nat /\ n + 1 # 0 /\ (n + 1) - 1 = n
  OBVIOUS
<1>13. \A n \in Nat : d[n + 1] = DStep(d[n])
  BY <1>10, <1>12
<1> QED
  BY <1>9, <1>11, <1>13

LEMMA OneOwner ==
  ASSUME Now, NEW o \in alive, ref_count[o] = 1,
         NEW g1 \in scope \cup alive, NEW g2 \in scope \cup alive, ptr[g1] = o, ptr[g2] = o
  PROVE  g1 = g2
<1> DEFINE S == Held(scope, alive, ptr, o)
<1>1. IsFiniteSet(scope \cup alive) /\ S \in SUBSET (scope \cup alive)
  BY DEF Now, Counted, Held
<1>2. IsFiniteSet(S)
  BY <1>1, FS_Subset
<1>3. Cardinality(S) = 1
  BY DEF Now, Counted
<1>4. g1 \in S /\ g2 \in S
  BY DEF Held
<1> HIDE DEF S
<1>5. \E x : S = {x}
  BY <1>2, <1>3, FS_Singleton
<1> QED
  BY <1>4, <1>5

\* What a release has deleted so far: objects with one owner, among themselves
\* or the pointer released, and all but the last of these point into it.
Owned(X, h) == /\ X \subseteq alive
               /\ \A o \in X : ref_count[o] = 1 /\ \E g \in {h} \cup X : ptr[g] = o
Path(X, h) == \E last \in {h} \cup X : \A g \in {h} \cup X : g # last => ptr[g] \in X

LEMMA OwnedAvoids ==
  ASSUME Now, NEW h \in P!Reached, NEW X, Owned(X, h)
  PROVE  h \notin X
<1> SUFFICES ASSUME h \in X PROVE FALSE
  OBVIOUS
<1>1. X \cap scope = {}
  BY SharedLink DEF Now, Counted, Owned
<1>2. ASSUME NEW g \in scope \cup alive, ptr[g] \in X PROVE g \in X
  <2>1. PICK k \in {h} \cup X : ptr[k] = ptr[g]
    BY <1>2 DEF Owned
  <2>2. k \in X /\ k \in scope \cup alive /\ ptr[g] \in alive /\ ref_count[ptr[g]] = 1
    BY <1>2, <2>1 DEF Owned
  <2>3. k = g
    BY <2>1, <2>2, OneOwner
  <2> QED
    BY <2>2, <2>3
<1>3. X \cap P!Reached = {}
  BY <1>1, <1>2, ReachedFacts
<1> QED
  BY <1>3

LEMMA PathStart ==
  ASSUME NEW h
  PROVE  Owned(P!OnlyOwned({h}), h) /\ Path(P!OnlyOwned({h}), h)
<1> DEFINE X == P!OnlyOwned({h})
<1>1. X \subseteq alive /\ \A o \in X : ref_count[o] = 1 /\ ptr[h] = o
  BY DEF P!OnlyOwned
<1> HIDE DEF X
<1>2. Owned(X, h)
  BY <1>1 DEF Owned
<1>3. Path(X, h)
  <2>1. CASE X = {}
    BY <2>1 DEF Path
  <2>2. CASE X # {}
    <3>1. ptr[h] \in X /\ X = {ptr[h]}
      BY <1>1, <2>2
    <3>2. \A g \in {h} \cup X : g # ptr[h] => ptr[g] \in X
      BY <3>1
    <3> QED
      BY <3>1, <3>2 DEF Path
  <2> QED
    BY <2>1, <2>2
<1> QED
  BY <1>2, <1>3 DEF X

LEMMA PathGrows ==
  ASSUME NEW h, NEW X, Owned(X, h), Path(X, h)
  PROVE  Owned(DStep(X), h) /\ Path(DStep(X), h)
<1> DEFINE Y == P!OnlyOwned(X)
<1>1. Y \subseteq alive /\ \A o \in Y : ref_count[o] = 1 /\ \E g \in X : ptr[g] = o
  BY DEF P!OnlyOwned
<1> HIDE DEF Y
<1>2. Owned(X \cup Y, h)
  BY <1>1 DEF Owned
<1>3. Path(X \cup Y, h)
  <2>1. PICK last \in {h} \cup X : \A g \in {h} \cup X : g # last => ptr[g] \in X
    BY DEF Path
  <2>2. CASE Y \subseteq X
    <3>1. X \cup Y = X
      BY <2>2
    <3> QED
      BY <3>1
  <2>3. CASE ~(Y \subseteq X)
    <3>1. \A o \in Y : o \in X \/ o = ptr[last]
      BY <1>1, <2>1
    <3>2. ptr[last] \in Y /\ X \cup Y = X \cup {ptr[last]}
      BY <2>3, <3>1
    <3>3. \A g \in {h} \cup (X \cup Y) : g # ptr[last] => ptr[g] \in X \cup Y
      BY <2>1, <3>2
    <3>4. ptr[last] \in {h} \cup (X \cup Y)
      BY <3>2
    <3> QED
      BY <3>3, <3>4 DEF Path
  <2> QED
    BY <2>2, <2>3
<1> QED
  BY <1>2, <1>3 DEF DStep, Y

\* Deleting goes on until it meets nothing more, in no more steps than there
\* are objects.
LEMMA DeletedFacts ==
  ASSUME Now, NEW h \in P!Reached
  PROVE  /\ Owned(P!Deleted(h), h) /\ Path(P!Deleted(h), h)
         /\ P!OnlyOwned({h} \cup P!Deleted(h)) \subseteq P!Deleted(h)
<1> DEFINE N == Cardinality(Object)
<1>1. PICK d : /\ d[0] = P!OnlyOwned({h})
               /\ \A n \in Nat : d[n + 1] = DStep(d[n])
               /\ P!Deleted(h) = d[N]
  BY DeletedIs
<1>2. N \in Nat /\ IsFiniteSet(Object) /\ alive \subseteq Object
  BY SharedLink DEF Now, Counted
<1> HIDE DEF N
<1> DEFINE T == {n \in Nat : Owned(d[n], h) /\ Path(d[n], h) /\ d[0] \subseteq d[n]}
<1>3. Nat \subseteq T
  <2>1. 0 \in T
    BY <1>1, PathStart
  <2>2. ASSUME NEW n \in Nat, n \in T PROVE n + 1 \in T
    <3>1. d[n + 1] = DStep(d[n]) /\ n + 1 \in Nat
      BY <1>1
    <3>2. Owned(DStep(d[n]), h) /\ Path(DStep(d[n]), h)
      BY <2>2, PathGrows
    <3>3. d[0] \subseteq DStep(d[n])
      BY <2>2 DEF DStep
    <3> QED
      BY <3>1, <3>2, <3>3
  <2> HIDE DEF T
  <2> QED
    BY <2>1, <2>2, SetInduction
<1>4. \A n \in Nat : IsFiniteSet(d[n]) /\ Cardinality(d[n]) \in Nat /\ Cardinality(d[n]) <= N
  <2> SUFFICES ASSUME NEW n \in Nat
               PROVE  IsFiniteSet(d[n]) /\ Cardinality(d[n]) \in Nat /\ Cardinality(d[n]) <= N
    OBVIOUS
  <2>1. d[n] \in SUBSET Object
    BY <1>2, <1>3 DEF Owned
  <2>2. IsFiniteSet(d[n]) /\ Cardinality(d[n]) <= N
    BY <1>2, <2>1, FS_Subset DEF N
  <2> QED
    BY <2>2, FS_CardinalityType
<1> DEFINE U == {n \in Nat : d[n + 1] = d[n] \/ Cardinality(d[n]) >= n + 1}
<1>5. Nat \subseteq U
  <2>1. 0 \in U
    <3>1. CASE d[0] = {}
      <4>1. DStep({}) = {}
        BY DEF DStep, P!OnlyOwned
      <4>2. d[0 + 1] = DStep(d[0])
        BY <1>1
      <4> QED
        BY <3>1, <4>1, <4>2
    <3>2. CASE d[0] # {}
      <4>1. Cardinality(d[0]) # 0 /\ Cardinality(d[0]) \in Nat
        BY <1>4, <3>2, FS_EmptySet
      <4>2. Cardinality(d[0]) >= 0 + 1
        BY <4>1
      <4> QED
        BY <4>2
    <3> QED
      BY <3>1, <3>2
  <2>2. ASSUME NEW n \in Nat, n \in U PROVE n + 1 \in U
    <3>1. n + 1 \in Nat /\ d[n + 1] = DStep(d[n]) /\ d[(n + 1) + 1] = DStep(d[n + 1])
      BY <1>1
    <3>2. CASE d[n + 1] = d[n]
      <4>1. d[(n + 1) + 1] = d[n + 1]
        BY <3>1, <3>2
      <4> QED
        BY <3>1, <4>1
    <3>3. CASE d[n + 1] # d[n]
      <4>1. Cardinality(d[n]) >= n + 1
        BY <2>2, <3>3
      <4>2. d[n] \in SUBSET d[n + 1]
        BY <3>1 DEF DStep
      <4>3. Cardinality(d[n]) <= Cardinality(d[n + 1])
            /\ Cardinality(d[n + 1]) # Cardinality(d[n])
        BY <1>4, <3>1, <3>3, <4>2, FS_Subset
      <4>4. Cardinality(d[n + 1]) >= (n + 1) + 1
        BY <1>4, <3>1, <4>1, <4>3
      <4> QED
        BY <3>1, <4>4
    <3> QED
      BY <3>2, <3>3
  <2> HIDE DEF U
  <2> QED
    BY <2>1, <2>2, SetInduction
<1>6. d[N + 1] = d[N]
  <2>1. d[N + 1] = d[N] \/ Cardinality(d[N]) >= N + 1
    BY <1>2, <1>5
  <2> QED
    BY <1>2, <1>4, <2>1
<1>7. P!OnlyOwned(d[N]) \subseteq d[N]
  BY <1>1, <1>2, <1>6 DEF DStep
<1>8. P!OnlyOwned({h} \cup d[N]) \subseteq P!OnlyOwned({h}) \cup P!OnlyOwned(d[N])
  BY DEF P!OnlyOwned
<1>9. Owned(d[N], h) /\ Path(d[N], h) /\ P!OnlyOwned({h}) \subseteq d[N]
  BY <1>1, <1>2, <1>3
<1> QED
  BY <1>1, <1>7, <1>8, <1>9

\* After a release the pointer points to nothing, and the objects that are left
\* have been counted.
LEMMA ReleaseCounted ==
  ASSUME Now, NEW h \in P!Reached
  PROVE  /\ Counted(scope, alive \ P!Deleted(h), [ptr EXCEPT ![h] = null], P!Released(h))
         /\ h \in scope \cup (alive \ P!Deleted(h))
<1> DEFINE X == P!Deleted(h)
           pt == [ptr EXCEPT ![h] = null]
           al == alive \ X
           cut(o) == {g \in {h} \cup X : ptr[g] = o}
<1>1. /\ Owned(X, h) /\ Path(X, h) /\ P!OnlyOwned({h} \cup X) \subseteq X
      /\ h \in scope \cup alive /\ h \notin X
  BY DeletedFacts, OwnedAvoids, ReachedFacts
<1>2. /\ scope \subseteq Variable /\ alive \subseteq Object /\ IsFiniteSet(scope \cup alive)
      /\ ptr \in [P!Pointer -> Object \cup {null}] /\ ref_count \in [Object -> Int]
      /\ \A g \in scope \cup alive : ptr[g] \in alive \cup {null}
      /\ \A o \in alive : /\ ref_count[o] = Cardinality(Held(scope, alive, ptr, o))
                          /\ ref_count[o] # 0
  BY DEF Now, Counted
<1>3. \A S : P!Cardinality(S) = Cardinality(S)
  BY SharedLink
<1>4. P!Released(h) = [o \in Object |-> ref_count[o] - P!Cardinality(cut(o))]
  BY DEF P!Released
<1>5. X \subseteq alive /\ X \cap scope = {} /\ null \notin X /\ null \notin alive
  BY <1>1, <1>2, SharedLink DEF Owned
<1>6. pt \in [P!Pointer -> Object \cup {null}]
  BY <1>2
<1>7. /\ pt[h] = null
      /\ \A g \in scope \cup alive : g # h => pt[g] = ptr[g]
  BY <1>1, <1>2, SharedLink
<1> HIDE DEF X, pt, al
<1>8. ASSUME NEW g \in scope \cup al PROVE pt[g] \in al \cup {null}
  <2>1. g \in scope \cup alive /\ g \notin X
    BY <1>5 DEF al
  <2>2. CASE g = h
    BY <1>7, <2>2
  <2>3. CASE g # h
    <3>1. pt[g] = ptr[g] /\ ptr[g] \in alive \cup {null}
      BY <1>2, <1>7, <2>1, <2>3
    <3>2. ASSUME ptr[g] \in X PROVE FALSE
      <4>1. PICK k \in {h} \cup X : ptr[k] = ptr[g]
        BY <1>1, <3>2 DEF Owned
      <4>2. ptr[g] \in alive /\ ref_count[ptr[g]] = 1 /\ k \in scope \cup alive
        BY <1>1, <1>5, <3>2 DEF Owned
      <4>3. k = g
        BY <2>1, <4>1, <4>2, OneOwner
      <4> QED
        BY <2>1, <2>3, <4>3
    <3> QED
      BY <3>1, <3>2 DEF al
  <2> QED
    BY <2>2, <2>3
<1>9. ASSUME NEW o \in al
      PROVE  /\ P!Released(h)[o] = Cardinality(Held(scope, al, pt, o))
             /\ P!Released(h)[o] # 0
  <2> DEFINE H0 == Held(scope, alive, ptr, o)
             H1 == Held(scope, al, pt, o)
             C == cut(o)
  <2>1. o \in alive /\ o \in Object /\ o \notin X /\ o # null
    BY <1>2, <1>5, SharedLink DEF al
  <2>2. H1 = H0 \ C /\ C \subseteq H0
    <3>1. \A g : g \in scope \cup al <=> g \in scope \cup alive /\ g \notin X
      BY <1>5 DEF al
    <3>2. C \subseteq H0
      BY <1>1, <1>5 DEF Held
    <3>3. ASSUME NEW g PROVE g \in H1 <=> g \in H0 \ C
      BY <1>7, <2>1, <3>1 DEF Held
    <3> QED
      BY <3>2, <3>3
  <2>3. IsFiniteSet(H0) /\ Cardinality(H0) \in Nat /\ ref_count[o] = Cardinality(H0)
    <3>1. H0 \in SUBSET (scope \cup alive)
      BY DEF Held
    <3>2. IsFiniteSet(H0)
      BY <1>2, <3>1, FS_Subset
    <3> QED
      BY <1>2, <2>1, <3>2, FS_CardinalityType
  <2>4. P!Released(h)[o] = ref_count[o] - Cardinality(C)
    BY <1>3, <1>4, <2>1
  <2> HIDE DEF H0, H1, C
  <2>5. IsFiniteSet(H1) /\ Cardinality(H1) = Cardinality(H0) - Cardinality(C)
    <3>1. H0 \cap C = C
      BY <2>2
    <3>2. IsFiniteSet(H0 \ C) /\ Cardinality(H0 \ C) = Cardinality(H0) - Cardinality(H0 \cap C)
      BY <2>3, FS_Difference
    <3> QED
      BY <2>2, <3>1, <3>2
  <2>6. ASSUME Cardinality(H1) = 0 PROVE FALSE
    <3>1. H1 = {}
      BY <2>5, <2>6, FS_EmptySet
    <3>2. H0 = C
      BY <2>2, <3>1
    <3>3. PICK last \in {h} \cup X : \A g \in {h} \cup X : g # last => ptr[g] \in X
      BY <1>1 DEF Path
    <3>4. \A g \in C : g = last
      BY <2>1, <3>3 DEF C
    <3>5. C # {}
      BY <1>2, <2>1, <2>3, <3>2, FS_EmptySet
    <3>6. C = {last}
      BY <3>4, <3>5
    <3>7. ref_count[o] = 1
      BY <2>3, <3>2, <3>6, FS_Singleton
    <3>8. last \in {h} \cup X /\ ptr[last] = o
      BY <3>6 DEF C
    <3>9. o \in P!OnlyOwned({h} \cup X)
      BY <2>1, <3>7, <3>8 DEF P!OnlyOwned
    <3> QED
      BY <1>1, <2>1, <3>9
  <2> QED
    BY <2>3, <2>4, <2>5, <2>6 DEF H1
<1>10. P!Released(h) \in [Object -> Int]
  <2> SUFFICES ASSUME NEW o \in Object PROVE ref_count[o] - P!Cardinality(cut(o)) \in Int
    BY <1>4
  <2>1. cut(o) \in SUBSET (scope \cup alive)
    BY <1>1, <1>5
  <2>2. Cardinality(cut(o)) \in Nat
    BY <1>2, <2>1, FS_Subset, FS_CardinalityType
  <2> QED
    BY <1>2, <1>3, <2>2
<1>11. IsFiniteSet(scope \cup al)
  <2>1. scope \cup al \in SUBSET (scope \cup alive)
    BY DEF al
  <2> QED
    BY <1>2, <2>1, FS_Subset
<1>12. al \subseteq Object
  BY <1>2 DEF al
<1>13. Counted(scope, al, pt, P!Released(h))
  BY <1>2, <1>6, <1>8, <1>9, <1>10, <1>11, <1>12 DEF Counted
<1>14. h \in scope \cup al
  BY <1>1 DEF al
<1> QED
  BY <1>13, <1>14 DEF X, al, pt

\* A variable is constructed or destroyed while it points to nothing.
LEMMA AddVariable ==
  ASSUME NEW sc, NEW al, NEW pt, NEW rc, Counted(sc, al, pt, rc), NEW h \in Variable \ sc
  PROVE  Counted(sc \cup {h}, al, [pt EXCEPT ![h] = null], rc)
<1> DEFINE p2 == [pt EXCEPT ![h] = null]
<1>1. /\ sc \subseteq Variable /\ al \subseteq Object /\ IsFiniteSet(sc \cup al)
      /\ pt \in [P!Pointer -> Object \cup {null}] /\ rc \in [Object -> Int]
      /\ \A g \in sc \cup al : pt[g] \in al \cup {null}
      /\ \A o \in al : rc[o] = Cardinality(Held(sc, al, pt, o)) /\ rc[o] # 0
  BY DEF Counted
<1>2. h \notin sc \cup al /\ h \in P!Pointer
  BY <1>1, SharedLink
<1>3. /\ p2 \in [P!Pointer -> Object \cup {null}] /\ p2[h] = null
      /\ \A g \in P!Pointer : g # h => p2[g] = pt[g]
  BY <1>1, <1>2
<1> HIDE DEF p2
<1>4. sc \cup al \subseteq P!Pointer
  BY <1>1, SharedLink
<1>5. ASSUME NEW o \in al PROVE Held(sc \cup {h}, al, p2, o) = Held(sc, al, pt, o)
  <2>1. o # null
    BY <1>1, SharedLink
  <2> QED
    BY <1>2, <1>3, <1>4, <2>1 DEF Held
<1>6. IsFiniteSet((sc \cup {h}) \cup al)
  <2>1. (sc \cup {h}) \cup al = (sc \cup al) \cup {h}
    OBVIOUS
  <2> QED
    BY <1>1, <2>1, FS_AddElement
<1>7. \A g \in (sc \cup {h}) \cup al : p2[g] \in al \cup {null}
  BY <1>1, <1>2, <1>3, <1>4
<1>8. Counted(sc \cup {h}, al, p2, rc)
  BY <1>1, <1>3, <1>5, <1>6, <1>7 DEF Counted
<1> QED
  BY <1>8 DEF p2

LEMMA DropVariable ==
  ASSUME NEW sc, NEW al, NEW pt, NEW rc, Counted(sc, al, pt, rc), NEW h \in sc, pt[h] = null
  PROVE  Counted(sc \ {h}, al, pt, rc)
<1>1. /\ sc \subseteq Variable /\ al \subseteq Object /\ IsFiniteSet(sc \cup al)
      /\ pt \in [P!Pointer -> Object \cup {null}] /\ rc \in [Object -> Int]
      /\ \A g \in sc \cup al : pt[g] \in al \cup {null}
      /\ \A o \in al : rc[o] = Cardinality(Held(sc, al, pt, o)) /\ rc[o] # 0
  BY DEF Counted
<1>2. ASSUME NEW o \in al PROVE Held(sc \ {h}, al, pt, o) = Held(sc, al, pt, o)
  <2>1. o # null
    BY <1>1, SharedLink
  <2> QED
    BY <2>1 DEF Held
<1>3. (sc \ {h}) \cup al \in SUBSET (sc \cup al)
  OBVIOUS
<1>4. IsFiniteSet((sc \ {h}) \cup al)
  BY <1>1, <1>3, FS_Subset
<1> QED
  BY <1>1, <1>2, <1>4 DEF Counted

\* A pointer to nothing is made to point to an object that is counted.
LEMMA PointTo ==
  ASSUME NEW sc, NEW al, NEW pt, NEW rc, Counted(sc, al, pt, rc),
         NEW h \in sc \cup al, pt[h] = null, NEW q \in al \cup {null}
  PROVE  Counted(sc, al, [pt EXCEPT ![h] = q], P!Incremented(rc, q))
<1> DEFINE p2 == [pt EXCEPT ![h] = q]
           r2 == P!Incremented(rc, q)
<1>1. /\ sc \subseteq Variable /\ al \subseteq Object /\ IsFiniteSet(sc \cup al)
      /\ pt \in [P!Pointer -> Object \cup {null}] /\ rc \in [Object -> Int]
      /\ \A g \in sc \cup al : pt[g] \in al \cup {null}
      /\ \A o \in al : rc[o] = Cardinality(Held(sc, al, pt, o)) /\ rc[o] # 0
  BY DEF Counted
<1>2. h \in P!Pointer /\ sc \cup al \subseteq P!Pointer /\ null \notin al
  BY <1>1, SharedLink
<1>3. /\ p2 \in [P!Pointer -> Object \cup {null}] /\ p2[h] = q
      /\ \A g \in P!Pointer : g # h => p2[g] = pt[g]
  BY <1>1, <1>2
<1>4. /\ r2 \in [Object -> Int]
      /\ \A o \in Object : r2[o] = IF o = q THEN rc[o] + 1 ELSE rc[o]
  <2>1. CASE q = null
    <3>1. r2 = rc
      BY <2>1 DEF P!Incremented
    <3> QED
      BY <1>1, <2>1, <3>1, SharedLink
  <2>2. CASE q # null
    <3>1. r2 = [rc EXCEPT ![q] = @ + 1]
      BY <2>2 DEF P!Incremented
    <3> HIDE DEF r2
    <3>2. q \in Object
      BY <1>1, <2>2
    <3> QED
      BY <1>1, <3>1, <3>2
  <2> QED
    BY <2>1, <2>2
<1> HIDE DEF p2, r2
<1>5. ASSUME NEW o \in al
      PROVE  r2[o] = Cardinality(Held(sc, al, p2, o)) /\ r2[o] # 0
  <2> DEFINE H0 == Held(sc, al, pt, o)
             H1 == Held(sc, al, p2, o)
  <2>1. o # null /\ o \in Object
    BY <1>1, SharedLink
  <2>2. H0 \in SUBSET (sc \cup al) /\ h \notin H0
    BY <2>1 DEF Held
  <2>3. IsFiniteSet(H0) /\ Cardinality(H0) \in Nat /\ rc[o] = Cardinality(H0) /\ rc[o] # 0
    <3> HIDE DEF H0
    <3>1. IsFiniteSet(H0)
      BY <1>1, <2>2, FS_Subset
    <3> QED
      BY <1>1, <3>1, FS_CardinalityType DEF H0
  <2>4. CASE o = q
    <3>1. H1 = H0 \cup {h}
      BY <1>2, <1>3, <2>4 DEF Held
    <3> HIDE DEF H0, H1
    <3>2. Cardinality(H1) = Cardinality(H0) + 1
      BY <2>2, <2>3, <3>1, FS_AddElement
    <3>3. r2[o] = rc[o] + 1
      BY <1>4, <2>1, <2>4
    <3>4. r2[o] = Cardinality(H1) /\ r2[o] # 0
      BY <2>3, <3>2, <3>3
    <3> QED
      BY <3>4 DEF H1
  <2>5. CASE o # q
    <3>1. H1 = H0
      BY <1>2, <1>3, <2>1, <2>5 DEF Held
    <3>2. r2[o] = rc[o]
      BY <1>4, <2>1, <2>5
    <3> HIDE DEF H0, H1
    <3>3. r2[o] = Cardinality(H1) /\ r2[o] # 0
      BY <2>3, <3>1, <3>2
    <3> QED
      BY <3>3 DEF H1
  <2> QED
    BY <2>4, <2>5
<1>6. \A g \in sc \cup al : p2[g] \in al \cup {null}
  BY <1>1, <1>2, <1>3
<1>7. Counted(sc, al, p2, r2)
  BY <1>1, <1>3, <1>4, <1>5, <1>6 DEF Counted
<1> QED
  BY <1>7 DEF p2, r2

\* It is made to point to a new object, whose member points to nothing.
LEMMA PointNew ==
  ASSUME NEW sc, NEW al, NEW pt, NEW rc, Counted(sc, al, pt, rc),
         NEW h \in sc \cup al, pt[h] = null, NEW o \in Object \ al
  PROVE  Counted(sc, al \cup {o}, [pt EXCEPT ![h] = o, ![o] = null], [rc EXCEPT ![o] = 1])
<1> DEFINE p2 == [pt EXCEPT ![h] = o, ![o] = null]
           r2 == [rc EXCEPT ![o] = 1]
<1>1. /\ sc \subseteq Variable /\ al \subseteq Object /\ IsFiniteSet(sc \cup al)
      /\ pt \in [P!Pointer -> Object \cup {null}] /\ rc \in [Object -> Int]
      /\ \A g \in sc \cup al : pt[g] \in al \cup {null}
      /\ \A k \in al : rc[k] = Cardinality(Held(sc, al, pt, k)) /\ rc[k] # 0
  BY DEF Counted
<1>2. /\ h \in P!Pointer /\ sc \cup al \subseteq P!Pointer /\ null \notin al
      /\ o \in P!Pointer /\ o \notin sc \cup al /\ o # h /\ o # null
  BY <1>1, SharedLink
<1>3. /\ p2 \in [P!Pointer -> Object \cup {null}] /\ p2[h] = o /\ p2[o] = null
      /\ \A g \in P!Pointer : g # h /\ g # o => p2[g] = pt[g]
  BY <1>1, <1>2
<1>4. /\ r2 \in [Object -> Int] /\ r2[o] = 1
      /\ \A k \in Object : k # o => r2[k] = rc[k]
  BY <1>1
<1> HIDE DEF p2, r2
<1>5. ASSUME NEW k \in al \cup {o}
      PROVE  r2[k] = Cardinality(Held(sc, al \cup {o}, p2, k)) /\ r2[k] # 0
  <2>1. CASE k = o
    <3>1. \A g \in sc \cup al : pt[g] # o
      BY <1>1, <1>2
    <3>2. Held(sc, al \cup {o}, p2, o) = {h}
      BY <1>2, <1>3, <3>1 DEF Held
    <3>3. Cardinality({h}) = 1
      BY FS_Singleton
    <3>4. r2[k] = 1 /\ Cardinality(Held(sc, al \cup {o}, p2, k)) = 1
      BY <1>4, <2>1, <3>2, <3>3
    <3> QED
      BY <3>4
  <2>2. CASE k # o
    <3>1. k \in al /\ k # null /\ k \in Object
      BY <1>1, <1>2, <2>2
    <3>2. Held(sc, al \cup {o}, p2, k) = Held(sc, al, pt, k)
      BY <1>2, <1>3, <2>2, <3>1 DEF Held
    <3> QED
      BY <1>1, <1>4, <2>2, <3>1, <3>2
  <2> QED
    BY <2>1, <2>2
<1>6. \A g \in sc \cup (al \cup {o}) : p2[g] \in (al \cup {o}) \cup {null}
  BY <1>1, <1>2, <1>3
<1>7. IsFiniteSet(sc \cup (al \cup {o}))
  <2>1. sc \cup (al \cup {o}) = (sc \cup al) \cup {o}
    OBVIOUS
  <2> QED
    BY <1>1, <2>1, FS_AddElement
<1>8. al \cup {o} \subseteq Object
  BY <1>1
<1>9. Counted(sc, al \cup {o}, p2, r2)
  BY <1>1, <1>3, <1>4, <1>5, <1>6, <1>7, <1>8 DEF Counted
<1> QED
  BY <1>9 DEF p2, r2

\* It takes over what another pointer points to.
LEMMA MoveTo ==
  ASSUME NEW sc, NEW al, NEW pt, NEW rc, Counted(sc, al, pt, rc),
         NEW h \in sc \cup al, pt[h] = null, NEW a \in sc \cup al, a # h
  PROVE  Counted(sc, al, [pt EXCEPT ![h] = pt[a], ![a] = null], rc)
<1> DEFINE p2 == [pt EXCEPT ![h] = pt[a], ![a] = null]
<1>1. /\ sc \subseteq Variable /\ al \subseteq Object /\ IsFiniteSet(sc \cup al)
      /\ pt \in [P!Pointer -> Object \cup {null}] /\ rc \in [Object -> Int]
      /\ \A g \in sc \cup al : pt[g] \in al \cup {null}
      /\ \A k \in al : rc[k] = Cardinality(Held(sc, al, pt, k)) /\ rc[k] # 0
  BY DEF Counted
<1>2. /\ h \in P!Pointer /\ a \in P!Pointer /\ sc \cup al \subseteq P!Pointer /\ null \notin al
  BY <1>1, SharedLink
<1>3. /\ p2 \in [P!Pointer -> Object \cup {null}] /\ p2[h] = pt[a] /\ p2[a] = null
      /\ \A g \in P!Pointer : g # h /\ g # a => p2[g] = pt[g]
  BY <1>1, <1>2
<1> HIDE DEF p2
<1>5. ASSUME NEW k \in al
      PROVE  rc[k] = Cardinality(Held(sc, al, p2, k)) /\ rc[k] # 0
  <2> DEFINE H0 == Held(sc, al, pt, k)
             H1 == Held(sc, al, p2, k)
  <2>1. k # null
    BY <1>2
  <2>2. H0 \in SUBSET (sc \cup al) /\ h \notin H0
    BY <2>1 DEF Held
  <2>3. CASE pt[a] = k
    <3>1. H1 = (H0 \ {a}) \cup {h} /\ a \in H0
      BY <1>2, <1>3, <2>1, <2>3 DEF Held
    <3> HIDE DEF H0, H1
    <3>2. IsFiniteSet(H0) /\ Cardinality(H0) \in Nat
      BY <1>1, <2>2, FS_Subset, FS_CardinalityType
    <3>3. IsFiniteSet(H0 \ {a}) /\ Cardinality(H0 \ {a}) = Cardinality(H0) - 1
      BY <3>1, <3>2, FS_RemoveElement
    <3>4. h \notin H0 \ {a}
      BY <2>2
    <3>5. Cardinality(H1) = Cardinality(H0 \ {a}) + 1
      BY <3>1, <3>3, <3>4, FS_AddElement
    <3>6. Cardinality(H1) = Cardinality(H0)
      BY <3>2, <3>3, <3>5
    <3> QED
      BY <1>1, <3>6 DEF H0, H1
  <2>4. CASE pt[a] # k
    <3>1. H1 = H0
      BY <1>2, <1>3, <2>1, <2>4 DEF Held
    <3> QED
      BY <1>1, <3>1
  <2> QED
    BY <2>3, <2>4
<1>6. \A g \in sc \cup al : p2[g] \in al \cup {null}
  BY <1>1, <1>2, <1>3
<1>7. Counted(sc, al, p2, rc)
  BY <1>1, <1>3, <1>5, <1>6 DEF Counted
<1> QED
  BY <1>7 DEF p2

-----------------------------------------------------------------------------
(* SharedPtr. *)

PInv == ~freedRead => Now

NextNow == Counted(scope', alive', ptr', ref_count')

LEMMA SharedInvInit ==
  ASSUME P!Init
  PROVE  PInv
<1>1. /\ scope = {} /\ alive = {}
      /\ ptr = [h \in P!Pointer |-> null] /\ ref_count = [o \in Object |-> 0]
  BY DEF P!Init
<1>2. IsFiniteSet({} \cup {})
  BY FS_EmptySet
<1> QED
  BY <1>1, <1>2 DEF PInv, Now, Counted

\* What is read through a pointer that is left after a release is still there.
LEMMA ReadAfterRelease ==
  ASSUME Now, NEW h \in P!Reached, NEW a \in P!Reached \ {h}, a \notin P!Deleted(h)
  PROVE  /\ [ptr EXCEPT ![h] = null][a] = ptr[a] /\ [ptr EXCEPT ![h] = null][h] = null
         /\ h \in P!Pointer /\ a \in P!Pointer
         /\ a \in scope \cup (alive \ P!Deleted(h))
         /\ ptr[a] \in (alive \ P!Deleted(h)) \cup {null}
<1> DEFINE X == P!Deleted(h)
           pt == [ptr EXCEPT ![h] = null]
<1>1. /\ Counted(scope, alive \ X, pt, P!Released(h)) /\ P!Reached \subseteq scope \cup alive
      /\ ptr \in [P!Pointer -> Object \cup {null}] /\ scope \cup alive \subseteq P!Pointer
  BY ReleaseCounted, ReachedFacts, SharedLink DEF Now, Counted
<1>2. h \in P!Pointer /\ a \in P!Pointer /\ a # h /\ a \in scope \cup (alive \ X)
  BY <1>1
<1>3. pt[a] = ptr[a] /\ pt[h] = null
  BY <1>1, <1>2
<1> HIDE DEF X, pt
<1>4. pt[a] \in (alive \ X) \cup {null}
  BY <1>1, <1>2 DEF Counted
<1> QED
  BY <1>2, <1>3, <1>4 DEF X, pt

LEMMA ConstructStep ==
  ASSUME Now, NEW h, NEW o, P!Construct(h, o)
  PROVE  NextNow
<1> DEFINE pt == [ptr EXCEPT ![h] = null]
<1>1. /\ h \in Variable \ scope /\ o \in Object \ alive
      /\ scope' = scope \cup {h} /\ alive' = alive \cup {o}
      /\ ptr' = [ptr EXCEPT ![h] = o, ![o] = null]
      /\ ref_count' = [ref_count EXCEPT ![o] = 1]
  BY DEF P!Construct
<1>2. Counted(scope \cup {h}, alive, pt, ref_count)
  BY <1>1, AddVariable DEF Now
<1>3. pt[h] = null /\ [pt EXCEPT ![h] = o, ![o] = null] = [ptr EXCEPT ![h] = o, ![o] = null]
  BY <1>1, SharedLink DEF Now, Counted
<1> HIDE DEF pt
<1>4. h \in (scope \cup {h}) \cup alive
  OBVIOUS
<1>5. Counted(scope \cup {h}, alive \cup {o}, [pt EXCEPT ![h] = o, ![o] = null],
              [ref_count EXCEPT ![o] = 1])
  BY <1>1, <1>2, <1>3, <1>4, PointNew
<1> QED
  BY <1>1, <1>3, <1>5, Zenon DEF NextNow

LEMMA ConstructCopyStep ==
  ASSUME Now, NEW h, NEW a, P!ConstructCopy(h, a)
  PROVE  NextNow
<1> DEFINE pt == [ptr EXCEPT ![h] = null]
           q == ptr[a]
<1>1. /\ h \in Variable \ scope /\ a \in P!Reached
      /\ scope' = scope \cup {h} /\ alive' = alive
      /\ ptr' = [ptr EXCEPT ![h] = q]
      /\ ref_count' = P!Incremented(ref_count, q)
  BY DEF P!ConstructCopy
<1>2. Counted(scope \cup {h}, alive, pt, ref_count)
  BY <1>1, AddVariable DEF Now
<1>3. q \in alive \cup {null}
  BY <1>1, ReachedFacts DEF Now, Counted
<1> HIDE DEF q
<1>4. pt[h] = null /\ [pt EXCEPT ![h] = q] = [ptr EXCEPT ![h] = q]
  BY <1>1, SharedLink DEF Now, Counted
<1> HIDE DEF pt
<1>5. h \in (scope \cup {h}) \cup alive
  OBVIOUS
<1>6. Counted(scope \cup {h}, alive, [pt EXCEPT ![h] = q], P!Incremented(ref_count, q))
  BY <1>2, <1>3, <1>4, <1>5, PointTo
<1> QED
  BY <1>1, <1>4, <1>6, Zenon DEF NextNow

LEMMA ConstructMoveStep ==
  ASSUME Now, NEW h, NEW a, P!ConstructMove(h, a)
  PROVE  NextNow
<1> DEFINE pt == [ptr EXCEPT ![h] = null]
<1>1. /\ h \in Variable \ scope /\ a \in P!Reached
      /\ scope' = scope \cup {h} /\ alive' = alive /\ ref_count' = ref_count
      /\ ptr' = [ptr EXCEPT ![h] = ptr[a], ![a] = null]
  BY DEF P!ConstructMove
<1>2. Counted(scope \cup {h}, alive, pt, ref_count)
  BY <1>1, AddVariable DEF Now
<1>3. /\ a \in scope \cup alive /\ h \notin scope \cup alive /\ a # h
      /\ h \in P!Pointer /\ a \in P!Pointer /\ ptr \in [P!Pointer -> Object \cup {null}]
  BY <1>1, ReachedFacts, SharedLink DEF Now, Counted
<1>4. pt[h] = null /\ pt[a] = ptr[a]
  BY <1>3
<1>5. [pt EXCEPT ![h] = pt[a], ![a] = null] = [ptr EXCEPT ![h] = ptr[a], ![a] = null]
  BY <1>3
<1> HIDE DEF pt
<1>6. h \in (scope \cup {h}) \cup alive /\ a \in (scope \cup {h}) \cup alive
  BY <1>3
<1>7. Counted(scope \cup {h}, alive, [pt EXCEPT ![h] = pt[a], ![a] = null], ref_count)
  BY <1>2, <1>3, <1>4, <1>6, MoveTo
<1> QED
  BY <1>1, <1>5, <1>7, Zenon DEF NextNow

LEMMA DestroyStep ==
  ASSUME Now, NEW h, P!Destroy(h)
  PROVE  NextNow
<1> DEFINE X == P!Deleted(h)
           pt == [ptr EXCEPT ![h] = null]
<1>1. /\ h \in scope /\ scope' = scope \ {h} /\ alive' = alive \ X
      /\ ref_count' = P!Released(h) /\ ptr' = pt
  BY DEF P!Destroy
<1>2. h \in P!Reached
  BY <1>1, ReachedFacts
<1>3. Counted(scope, alive \ X, pt, P!Released(h))
  BY <1>2, ReleaseCounted
<1>4. pt[h] = null
  BY <1>1, SharedLink DEF Now, Counted
<1> HIDE DEF X, pt
<1>5. Counted(scope \ {h}, alive \ X, pt, P!Released(h))
  BY <1>1, <1>3, <1>4, DropVariable
<1> QED
  BY <1>1, <1>5, Zenon DEF NextNow

LEMMA ResetStep ==
  ASSUME Now, NEW h, P!Reset(h)
  PROVE  NextNow
<1>1. /\ h \in P!Reached /\ scope' = scope /\ alive' = alive \ P!Deleted(h)
      /\ ref_count' = P!Released(h) /\ ptr' = [ptr EXCEPT ![h] = null]
  BY DEF P!Reset
<1>2. Counted(scope, alive \ P!Deleted(h), [ptr EXCEPT ![h] = null], P!Released(h))
  BY <1>1, ReleaseCounted
<1> QED
  BY <1>1, <1>2, Zenon DEF NextNow

LEMMA ResetToStep ==
  ASSUME Now, NEW h, NEW o, P!ResetTo(h, o)
  PROVE  NextNow
<1> DEFINE X == P!Deleted(h)
           pt == [ptr EXCEPT ![h] = null]
           rel == P!Released(h)
<1>1. /\ h \in P!Reached /\ o \in Object \ alive
      /\ alive' = (alive \ X) \cup {o} /\ scope' = scope
      /\ ref_count' = [rel EXCEPT ![o] = 1]
      /\ ptr' = [ptr EXCEPT ![h] = o, ![o] = null]
  BY DEF P!ResetTo
<1>2. Counted(scope, alive \ X, pt, rel) /\ h \in scope \cup (alive \ X)
  BY <1>1, ReleaseCounted
<1>3. h \in P!Pointer /\ o \in P!Pointer /\ ptr \in [P!Pointer -> Object \cup {null}]
  BY <1>1, ReachedFacts, SharedLink DEF Now, Counted
<1>4. pt[h] = null /\ [pt EXCEPT ![h] = o, ![o] = null] = [ptr EXCEPT ![h] = o, ![o] = null]
  BY <1>3
<1> HIDE DEF X, pt, rel
<1>5. o \in Object \ (alive \ X)
  BY <1>1
<1>6. Counted(scope, (alive \ X) \cup {o}, [pt EXCEPT ![h] = o, ![o] = null],
              [rel EXCEPT ![o] = 1])
  BY <1>2, <1>4, <1>5, PointNew
<1> QED
  BY <1>1, <1>4, <1>6, Zenon DEF NextNow

LEMMA AssignCopyStep ==
  ASSUME Now, NEW h, NEW a, P!AssignCopy(h, a)
  PROVE  ~freedRead' => NextNow
<1> DEFINE X == P!Deleted(h)
           pt == [ptr EXCEPT ![h] = null]
           q == ptr[a]
           rel == P!Released(h)
<1>1. /\ h \in P!Reached /\ a \in P!Reached \ {h}
      /\ alive' = alive \ X /\ scope' = scope
      /\ freedRead' = (a \in X)
      /\ ptr' = [ptr EXCEPT ![h] = q]
      /\ ref_count' = P!Incremented(rel, q)
  BY DEF P!AssignCopy
<1> SUFFICES ASSUME a \notin X PROVE NextNow
  BY <1>1
<1>2. Counted(scope, alive \ X, pt, rel) /\ h \in scope \cup (alive \ X)
  BY <1>1, ReleaseCounted
<1>3. /\ pt[h] = null /\ h \in P!Pointer /\ q \in (alive \ X) \cup {null}
      /\ ptr \in [P!Pointer -> Object \cup {null}]
  BY <1>1, ReadAfterRelease DEF Now, Counted
<1> HIDE DEF q, X, rel
<1>4. [pt EXCEPT ![h] = q] = [ptr EXCEPT ![h] = q]
  BY <1>3
<1> HIDE DEF pt
<1>5. Counted(scope, alive \ X, [pt EXCEPT ![h] = q], P!Incremented(rel, q))
  BY <1>2, <1>3, PointTo
<1> QED
  BY <1>1, <1>4, <1>5, Zenon DEF NextNow

LEMMA AssignMoveStep ==
  ASSUME Now, NEW h, NEW a, P!AssignMove(h, a)
  PROVE  ~freedRead' => NextNow
<1> DEFINE X == P!Deleted(h)
           pt == [ptr EXCEPT ![h] = null]
           rel == P!Released(h)
<1>1. /\ h \in P!Reached /\ a \in P!Reached \ {h}
      /\ alive' = alive \ X /\ scope' = scope
      /\ freedRead' = (a \in X)
      /\ ptr' = [ptr EXCEPT ![h] = ptr[a], ![a] = null]
      /\ ref_count' = rel
  BY DEF P!AssignMove
<1> SUFFICES ASSUME a \notin X PROVE NextNow
  BY <1>1
<1>2. Counted(scope, alive \ X, pt, rel) /\ h \in scope \cup (alive \ X)
  BY <1>1, ReleaseCounted
<1>3. /\ pt[h] = null /\ pt[a] = ptr[a] /\ h \in P!Pointer /\ a \in P!Pointer /\ a # h
      /\ a \in scope \cup (alive \ X) /\ ptr \in [P!Pointer -> Object \cup {null}]
  BY <1>1, ReadAfterRelease DEF Now, Counted
<1> HIDE DEF X, rel
<1>4. [pt EXCEPT ![h] = pt[a], ![a] = null] = [ptr EXCEPT ![h] = ptr[a], ![a] = null]
  BY <1>3
<1> HIDE DEF pt
<1>5. Counted(scope, alive \ X, [pt EXCEPT ![h] = pt[a], ![a] = null], rel)
  BY <1>2, <1>3, MoveTo
<1> QED
  BY <1>1, <1>4, <1>5, Zenon DEF NextNow

LEMMA SharedInvStep ==
  ASSUME PInv, [P!Next]_(P!vars)
  PROVE  PInv'
<1>1. CASE UNCHANGED P!vars
  BY <1>1 DEF P!vars, PInv, Now
<1>2. CASE P!Next
  <2>1. Now
    BY <1>2 DEF P!Next, PInv
  <2>2. PICK h \in P!Pointer :
          \/ \E o \in Object : P!Construct(h, o) \/ P!ResetTo(h, o)
          \/ \E a \in P!Pointer : \/ P!ConstructCopy(h, a) \/ P!ConstructMove(h, a)
                                  \/ P!AssignCopy(h, a) \/ P!AssignMove(h, a)
          \/ P!Destroy(h) \/ P!Reset(h)
    BY <1>2, Zenon DEF P!Next
  <2>3. ~freedRead' => NextNow
    BY <2>1, <2>2, ConstructStep, ConstructCopyStep, ConstructMoveStep, DestroyStep, ResetStep,
       ResetToStep, AssignCopyStep, AssignMoveStep
  <2> QED
    BY <2>3 DEF PInv, Now, NextNow
<1> QED
  BY <1>1, <1>2

LEMMA SharedInvSafe == PInv => SharedPtrSafe
<1> SUFFICES ASSUME PInv, ~freedRead
    PROVE /\ \A o \in alive : ref_count[o] = P!Cardinality(P!Holders(o)) /\ ref_count[o] > 0
          /\ \A h \in P!Live : ptr[h] \in alive \cup {null}
  BY DEF SharedPtrSafe, P!SharedPtrSafe
<1>1. /\ scope \subseteq Variable /\ alive \subseteq Object /\ IsFiniteSet(scope \cup alive)
      /\ \A g \in scope \cup alive : ptr[g] \in alive \cup {null}
      /\ \A o \in alive : /\ ref_count[o] = Cardinality(Held(scope, alive, ptr, o))
                          /\ ref_count[o] # 0
  BY DEF PInv, Now, Counted
<1>2. ASSUME NEW o \in alive
      PROVE  ref_count[o] = P!Cardinality(P!Holders(o)) /\ ref_count[o] > 0
  <2>1. P!Holders(o) = Held(scope, alive, ptr, o)
    BY DEF P!Holders, P!Live, Held
  <2>2. Held(scope, alive, ptr, o) \in SUBSET (scope \cup alive)
    BY DEF Held
  <2>3. Cardinality(Held(scope, alive, ptr, o)) \in Nat
    BY <1>1, <2>2, FS_Subset, FS_CardinalityType
  <2>4. P!Cardinality(P!Holders(o)) = Cardinality(P!Holders(o))
    BY SharedLink
  <2> QED
    BY <1>1, <2>1, <2>3, <2>4
<1> QED
  BY <1>1, <1>2 DEF P!Live

\* Whatever the order of copies, moves, assignments, resets and destructions,
\* and however the objects point to each other: until a freed pointer is read,
\* the count of an object that was not deleted is the number of pointers to it,
\* and nothing points to one that was (simpleSharedPtr.h:19, 48, 59, 65).
THEOREM SharedPtrSafeAlways == Spec => []SharedPtrSafe
<1>1. Init => PInv
  BY SharedInvInit DEF Init
<1>2. PInv /\ [Next]_vars => PInv'
  <2>1. [Next]_vars => [P!Next]_(P!vars)
    BY DEF Next, vars, deque, list, hash, shared, tree, avl, P!vars
  <2> QED
    BY <2>1, SharedInvStep
<1> QED
  BY <1>1, <1>2, SharedInvSafe, PTL DEF Spec

-----------------------------------------------------------------------------
(* HashMap: chains, and how often a key is in one. *)

Entry == [key : Key, val : Value]

\* How often a key is in a chain.
Num(s, k) == Cardinality(H!At(s, k))

\* The sizes that the model and the proofs speak of are the same.
LEMMA HashSizeIs ==
  ASSUME NEW s
  PROVE  H!Cardinality(s) = Cardinality(s)
BY Zenon DEF H!Cardinality, Cardinality

LEMMA UpToSize ==
  ASSUME NEW n \in Nat
  PROVE  IsFiniteSet(1..n) /\ Cardinality(1..n) = n
<1>1. 1 \in Int /\ n \in Int /\ (IF 1 > n THEN 0 ELSE n - 1 + 1) = n
  OBVIOUS
<1>2. IsFiniteSet(1..n) /\ Cardinality(1..n) = IF 1 > n THEN 0 ELSE n - 1 + 1
  BY <1>1, FS_Interval
<1> QED
  BY <1>1, <1>2

LEMMA AtFinite ==
  ASSUME NEW s \in Seq(Entry), NEW k
  PROVE  /\ H!At(s, k) \subseteq 1..Len(s) /\ IsFiniteSet(H!At(s, k))
         /\ Num(s, k) \in Nat /\ Num(s, k) <= Len(s)
<1>1. H!At(s, k) \subseteq 1..Len(s)
  BY DEF H!At
<1>2. IsFiniteSet(1..Len(s)) /\ Cardinality(1..Len(s)) = Len(s) /\ Len(s) \in Nat
  BY UpToSize
<1>3. IsFiniteSet(H!At(s, k)) /\ Cardinality(H!At(s, k)) <= Len(s)
  BY <1>1, <1>2, FS_Subset
<1> QED
  BY <1>1, <1>3, FS_CardinalityType DEF Num

\* Sets of numbers that are as many after a shift.
LEMMA Shifted ==
  ASSUME NEW S \in SUBSET Nat, IsFiniteSet(S), NEW T, NEW f \in [S -> T],
         \A x, y \in S : f[x] = f[y] => x = y,
         \A z \in T : \E x \in S : f[x] = z
  PROVE  IsFiniteSet(T) /\ Cardinality(T) = Cardinality(S)
<1>1. f \in Bijection(S, T)
  BY DEF Bijection, Injection, Surjection, IsInjective
<1> QED
  BY <1>1, FS_Bijection DEF ExistsBijection

LEMMA NumEmpty ==
  ASSUME NEW k
  PROVE  Num(<< >>, k) = 0
<1>1. H!At(<< >>, k) = {}
  BY DEF H!At
<1> QED
  BY <1>1, FS_EmptySet DEF Num

LEMMA NumConcat ==
  ASSUME NEW s \in Seq(Entry), NEW t \in Seq(Entry), NEW k
  PROVE  Num(s \o t, k) = Num(s, k) + Num(t, k)
<1> DEFINE n == Len(s)
           A == H!At(s, k)
           B == H!At(t, k)
           C == {i \in n + 1..n + Len(t) : t[i - n].key = k}
           f == [i \in B |-> n + i]
<1>1. n \in Nat /\ Len(t) \in Nat /\ Len(s \o t) = n + Len(t)
  OBVIOUS
<1>2. A \subseteq 1..n /\ IsFiniteSet(A) /\ B \subseteq 1..Len(t) /\ IsFiniteSet(B)
  BY AtFinite
<1>3. H!At(s \o t, k) = A \cup C
  <2>1. \A i \in 1..n : (s \o t)[i] = s[i]
    OBVIOUS
  <2>2. \A i \in n + 1..n + Len(t) : (s \o t)[i] = t[i - n]
    OBVIOUS
  <2>3. 1..n + Len(t) = (1..n) \cup (n + 1..n + Len(t))
    BY <1>1
  <2>4. H!At(s \o t, k) = {i \in 1..n + Len(t) : (s \o t)[i].key = k}
    BY <1>1 DEF H!At
  <2>5. A = {i \in 1..n : s[i].key = k}
    BY DEF H!At
  <2> HIDE DEF A
  <2> QED
    BY <2>1, <2>2, <2>3, <2>4, <2>5
<1>4. A \cap C = {}
  BY <1>1, <1>2
<1>5. IsFiniteSet(C) /\ Cardinality(C) = Cardinality(B)
  <2>1. B = {i \in 1..Len(t) : t[i].key = k}
    BY DEF H!At
  <2>2. \A i \in B : i \in Nat /\ f[i] = n + i /\ (n + i) - n = i /\ n + i \in n + 1..n + Len(t)
    BY <1>1, <1>2
  <2>3. \A i \in B : f[i] \in C
    BY <2>1, <2>2
  <2>4. \A z \in C : z - n \in B /\ n + (z - n) = z
    <3>1. \A z \in n + 1..n + Len(t) : z - n \in 1..Len(t) /\ n + (z - n) = z
      BY <1>1
    <3> QED
      BY <2>1, <3>1
  <2>5. B \in SUBSET Nat
    BY <2>2
  <2> HIDE DEF B, C
  <2>6. f \in [B -> C]
    BY <2>3
  <2>7. \A x, y \in B : f[x] = f[y] => x = y
    BY <1>1, <2>2
  <2>8. \A z \in C : \E x \in B : f[x] = z
    BY <2>2, <2>4
  <2> HIDE DEF f
  <2> QED
    BY <1>2, <2>5, <2>6, <2>7, <2>8, Shifted
<1> HIDE DEF A, B, C
<1>6. Cardinality(A \cup C) = Cardinality(A) + Cardinality(C)
  <2>1. Cardinality(A \cup C) = Cardinality(A) + Cardinality(C) - Cardinality(A \cap C)
    BY <1>2, <1>5, FS_Union
  <2>2. Cardinality(A \cap C) = 0 /\ Cardinality(A) \in Nat /\ Cardinality(C) \in Nat
    BY <1>2, <1>4, <1>5, FS_EmptySet, FS_CardinalityType
  <2> QED
    BY <2>1, <2>2
<1> QED
  BY <1>3, <1>5, <1>6 DEF Num, A, B

LEMMA NumOne ==
  ASSUME NEW e, NEW k
  PROVE  Num(<<e>>, k) = IF e.key = k THEN 1 ELSE 0
<1>1. H!At(<<e>>, k) = IF e.key = k THEN {1} ELSE {}
  <2>1. 1..Len(<<e>>) = {1} /\ <<e>>[1] = e
    OBVIOUS
  <2> QED
    BY <2>1 DEF H!At
<1> QED
  BY <1>1, FS_EmptySet, FS_Singleton DEF Num

LEMMA ReverseIs ==
  ASSUME NEW s \in Seq(Entry)
  PROVE  /\ H!Reverse(s) \in Seq(Entry) /\ Len(H!Reverse(s)) = Len(s)
         /\ \A i \in 1..Len(s) : /\ (Len(s) - i) + 1 \in 1..Len(s)
                                 /\ H!Reverse(s)[i] = s[(Len(s) - i) + 1]
<1>1. Len(s) \in Nat /\ \A i \in 1..Len(s) : (Len(s) - i) + 1 \in 1..Len(s)
  OBVIOUS
<1> QED
  BY <1>1 DEF H!Reverse

LEMMA NumReverse ==
  ASSUME NEW s \in Seq(Entry), NEW k
  PROVE  Num(H!Reverse(s), k) = Num(s, k)
<1> DEFINE n == Len(s)
           r == H!Reverse(s)
           A == H!At(s, k)
           B == H!At(r, k)
           f == [i \in A |-> (n - i) + 1]
<1>1. /\ n \in Nat /\ Len(r) = n
      /\ \A i \in 1..n : (n - i) + 1 \in 1..n /\ r[i] = s[(n - i) + 1]
  BY ReverseIs
<1>2. A = {i \in 1..n : s[i].key = k} /\ B = {i \in 1..n : r[i].key = k}
  BY <1>1 DEF H!At
<1>3. IsFiniteSet(A) /\ A \in SUBSET Nat
  <2>1. IsFiniteSet(A)
    BY AtFinite
  <2>2. A \subseteq 1..n
    BY <1>2
  <2> HIDE DEF A
  <2> QED
    BY <1>1, <2>1, <2>2
<1> HIDE DEF A, B, r
<1>4. \A i \in 1..n : (n - ((n - i) + 1)) + 1 = i
  BY <1>1
<1>5. \A i \in A : f[i] = (n - i) + 1 /\ f[i] \in B
  BY <1>1, <1>2, <1>4
<1>6. \A z \in B : (n - z) + 1 \in A /\ (n - ((n - z) + 1)) + 1 = z
  BY <1>1, <1>2, <1>4
<1>7. f \in [A -> B]
  BY <1>5
<1>8. \A x, y \in A : f[x] = f[y] => x = y
  BY <1>1, <1>2, <1>5
<1>9. \A z \in B : \E x \in A : f[x] = z
  BY <1>5, <1>6
<1> HIDE DEF f
<1>10. Cardinality(B) = Cardinality(A)
  BY <1>3, <1>7, <1>8, <1>9, Shifted
<1> QED
  BY <1>10 DEF Num, A, B, r

\* F[i] is the concatenation of the first i sequences.
IsFlat(F, ss, n) == /\ F \in [0..n -> Seq(Entry)] /\ F[0] = << >>
                    /\ \A i \in 1..n : F[i] = F[i - 1] \o ss[i]

LEMMA FlatExists ==
  ASSUME NEW n \in Nat, NEW ss \in [1..n -> Seq(Entry)]
  PROVE  \E F : IsFlat(F, ss, n)
<1> DEFINE S == {m \in Nat : m <= n => \E F : IsFlat(F, ss, m)}
<1>1. 0 \in S
  <2> DEFINE F == [i \in 0..0 |-> << >>]
  <2>1. F \in [0..0 -> Seq(Entry)] /\ F[0] = << >> /\ 1..0 = {}
    OBVIOUS
  <2>2. IsFlat(F, ss, 0)
    BY <2>1 DEF IsFlat
  <2> QED
    BY <2>2
<1>2. ASSUME NEW m \in Nat, m \in S PROVE m + 1 \in S
  <2> SUFFICES ASSUME m + 1 <= n PROVE \E F : IsFlat(F, ss, m + 1)
    OBVIOUS
  <2>1. PICK F : IsFlat(F, ss, m)
    BY <1>2
  <2>2. /\ F \in [0..m -> Seq(Entry)] /\ F[0] = << >>
        /\ \A i \in 1..m : F[i] = F[i - 1] \o ss[i]
    BY <2>1 DEF IsFlat
  <2> DEFINE G == [i \in 0..m + 1 |-> IF i <= m THEN F[i] ELSE F[m] \o ss[m + 1]]
  <2>3. /\ \A i \in 0..m : i \in 0..m + 1 /\ G[i] = F[i]
        /\ m + 1 \in 0..m + 1 /\ G[m + 1] = F[m] \o ss[m + 1]
    <3>1. \A i \in 0..m : i \in 0..m + 1 /\ i <= m
      OBVIOUS
    <3>2. m + 1 \in 0..m + 1 /\ ~(m + 1 <= m)
      OBVIOUS
    <3> QED
      BY <3>1, <3>2, Zenon
  <2>4. m + 1 \in 1..n /\ ss[m + 1] \in Seq(Entry) /\ F[m] \in Seq(Entry)
    BY <2>2
  <2>5. G \in [0..m + 1 -> Seq(Entry)]
    <3>1. \A i \in 0..m + 1 : (IF i <= m THEN F[i] ELSE F[m] \o ss[m + 1]) \in Seq(Entry)
      <4>1. F[m] \o ss[m + 1] \in Seq(Entry)
        BY <2>4
      <4>2. \A i \in 0..m + 1 : i <= m => F[i] \in Seq(Entry)
        BY <2>2
      <4> QED
        BY <4>1, <4>2
    <3> QED
      BY <3>1
  <2> HIDE DEF G
  <2>6. ASSUME NEW i \in 1..m + 1 PROVE G[i] = G[i - 1] \o ss[i]
    <3>1. CASE i = m + 1
      <4>1. i - 1 = m /\ m \in 0..m
        BY <3>1
      <4> QED
        BY <2>3, <3>1, <4>1, Zenon
    <3>2. CASE i # m + 1
      <4>1. i \in 1..m /\ i \in 0..m /\ i - 1 \in 0..m
        BY <3>2
      <4> QED
        BY <2>2, <2>3, <4>1, Zenon
    <3> QED
      BY <3>1, <3>2
  <2>7. G[0] = << >>
    <3>1. 0 \in 0..m
      OBVIOUS
    <3> QED
      BY <2>2, <2>3, <3>1, Zenon
  <2>8. IsFlat(G, ss, m + 1)
    BY <2>5, <2>6, <2>7, Zenon DEF IsFlat
  <2> QED
    BY <2>8
<1> HIDE DEF S
<1>3. Nat \subseteq S
  BY <1>1, <1>2, SetInduction
<1> QED
  BY <1>3 DEF S

\* FlattenSeq is the last of them.
LEMMA FlatIs ==
  ASSUME NEW n \in Nat, NEW ss \in [1..n -> Seq(Entry)]
  PROVE  \E F : IsFlat(F, ss, n) /\ H!FlattenSeq(ss) = F[n]
<1>1. PICK F : IsFlat(F, ss, n)
  BY FlatExists
<1>2. /\ F \in [0..n -> Seq(Entry)] /\ F[0] = << >>
      /\ \A i \in 1..n : F[i] = F[i - 1] \o ss[i]
  BY <1>1 DEF IsFlat
<1>3. Len(ss) = n
  OBVIOUS
<1>4. CASE n = 0
  <2>1. ss = << >>
    BY <1>4
  <2>2. H!FlattenSeq(ss) = ss
    BY <1>3, <1>4, Zenon DEF H!FlattenSeq
  <2> QED
    BY <1>1, <1>2, <1>4, <2>1, <2>2
<1>5. CASE n # 0
  <2> DEFINE Body(g) == [i \in 1..n |-> IF i = 1 THEN ss[i] ELSE g[i - 1] \o ss[i]]
             h == CHOOSE g : g = Body(g)
             f == [i \in 1..n |-> F[i]]
             S == {i \in Nat : i + 1 <= n => h[i + 1] = F[i + 1]}
  <2>1. H!FlattenSeq(ss) = h[n]
    BY <1>3, <1>5, Zenon DEF H!FlattenSeq
  <2>2. f = Body(f)
    <3>1. ASSUME NEW i \in 1..n PROVE F[i] = IF i = 1 THEN ss[i] ELSE f[i - 1] \o ss[i]
      <4>1. CASE i = 1
        <5>1. F[1] = F[0] \o ss[1] /\ << >> \o ss[1] = ss[1]
          <6>1. 1 \in 1..n /\ 1 - 1 = 0 /\ ss[1] \in Seq(Entry)
            BY <4>1
          <6>2. << >> \o ss[1] = ss[1]
            BY <6>1
          <6> QED
            BY <1>2, <6>1, <6>2
        <5> QED
          BY <1>2, <4>1, <5>1
      <4>2. CASE i # 1
        <5>1. i - 1 \in 1..n
          BY <4>2
        <5>2. f[i - 1] = F[i - 1]
          BY <5>1
        <5> HIDE DEF f
        <5> QED
          BY <1>2, <4>2, <5>2, Zenon
      <4> QED
        BY <4>1, <4>2
    <3> QED
      BY <3>1, Zenon
  <2>3. h = Body(h)
    <3> HIDE DEF Body, f
    <3> QED
      BY <2>2, Zenon
  <2>4. \A i \in 1..n : h[i] = IF i = 1 THEN ss[i] ELSE h[i - 1] \o ss[i]
    <3> HIDE DEF h
    <3> QED
      BY <2>3, Zenon
  <2> HIDE DEF h, f, Body
  <2>5. \A i \in 1..n : f[i] = IF i = 1 THEN ss[i] ELSE f[i - 1] \o ss[i]
    <3>1. \A i \in 1..n : Body(f)[i] = IF i = 1 THEN ss[i] ELSE f[i - 1] \o ss[i]
      BY Zenon DEF Body
    <3> QED
      BY <2>2, <3>1, Zenon
  <2>6. \A i \in 1..n : f[i] = F[i]
    BY DEF f
  <2>7. 0 \in S
    <3>1. 0 + 1 = 1 /\ 1 \in 1..n
      BY <1>5
    <3> QED
      BY <2>4, <2>5, <2>6, <3>1, Zenon
  <2>8. ASSUME NEW i \in Nat, i \in S PROVE i + 1 \in S
    <3> SUFFICES ASSUME (i + 1) + 1 <= n PROVE h[(i + 1) + 1] = F[(i + 1) + 1]
      OBVIOUS
    <3>1. /\ i + 1 <= n /\ i + 1 \in 1..n /\ (i + 1) + 1 \in 1..n
          /\ (i + 1) + 1 # 1 /\ ((i + 1) + 1) - 1 = i + 1
      OBVIOUS
    <3>2. h[i + 1] = F[i + 1]
      BY <2>8, <3>1
    <3> DEFINE j == (i + 1) + 1
    <3>3. j \in 1..n /\ j - 1 \in 1..n /\ j # 1 /\ h[j - 1] = F[j - 1]
      BY <3>1, <3>2
    <3> HIDE DEF j
    <3>4. h[j] = h[j - 1] \o ss[j] /\ f[j] = f[j - 1] \o ss[j]
      BY <2>4, <2>5, <3>3
    <3>5. h[j] = F[j]
      BY <2>6, <3>3, <3>4
    <3> QED
      BY <3>5 DEF j
  <2> HIDE DEF S
  <2>9. Nat \subseteq S
    BY <2>7, <2>8, SetInduction
  <2>10. n - 1 \in S /\ (n - 1) + 1 <= n /\ (n - 1) + 1 = n
    <3>1. n - 1 \in Nat
      BY <1>5
    <3> QED
      BY <2>9, <3>1
  <2>11. h[n] = F[n]
    BY <2>10 DEF S
  <2> QED
    BY <1>1, <2>1, <2>11
<1> QED
  BY <1>4, <1>5

\* The positions up to i in a set.
To(is, i) == {j \in 1..i : j \in is}

LEMMA ToNext ==
  ASSUME NEW is, NEW i \in Nat, i # 0
  PROVE  /\ IsFiniteSet(To(is, i)) /\ Cardinality(To(is, i)) \in Nat
         /\ Cardinality(To(is, i)) = Cardinality(To(is, i - 1)) + (IF i \in is THEN 1 ELSE 0)
         /\ Cardinality(To(is, 0)) = 0
<1>1. \A j \in Nat : IsFiniteSet(To(is, j)) /\ Cardinality(To(is, j)) \in Nat
  <2> TAKE j \in Nat
  <2>1. IsFiniteSet(1..j) /\ To(is, j) \in SUBSET (1..j)
    BY UpToSize DEF To
  <2> QED
    BY <2>1, FS_Subset, FS_CardinalityType
<1>2. i - 1 \in Nat /\ 1..i = (1..i - 1) \cup {i} /\ i \notin 1..i - 1
  OBVIOUS
<1>3. To(is, i) = IF i \in is THEN To(is, i - 1) \cup {i} ELSE To(is, i - 1)
  BY <1>2 DEF To
<1>4. i \notin To(is, i - 1)
  BY <1>2 DEF To
<1> DEFINE A == To(is, i)
           B == To(is, i - 1)
<1>5. /\ IsFiniteSet(A) /\ Cardinality(A) \in Nat
      /\ IsFiniteSet(B) /\ Cardinality(B) \in Nat
  BY <1>1, <1>2
<1>6. A = (IF i \in is THEN B \cup {i} ELSE B) /\ i \notin B
  BY <1>3, <1>4
<1> HIDE DEF A, B
<1>7. Cardinality(B \cup {i}) = Cardinality(B) + 1
  BY <1>5, <1>6, FS_AddElement
<1>8. Cardinality(A) = Cardinality(B) + (IF i \in is THEN 1 ELSE 0)
  BY <1>5, <1>6, <1>7
<1>9. Cardinality(To(is, 0)) = 0
  <2>1. To(is, 0) = {}
    BY DEF To
  <2> QED
    BY <2>1, FS_EmptySet
<1> QED
  BY <1>5, <1>8, <1>9 DEF A, B

\* The positions of a key among some of a chain.
KeyAt(s, is, k) == {j \in is : s[j].key = k}

\* What Kept returns: as many nodes as positions, from the chain, a key as often
\* as it is at one of them.
LEMMA KeptIs ==
  ASSUME NEW s \in Seq(Entry), NEW is \in SUBSET (1..Len(s))
  PROVE  /\ H!Kept(s, is) \in Seq(Entry)
         /\ Len(H!Kept(s, is)) = Cardinality(is)
         /\ \A i \in 1..Len(H!Kept(s, is)) : \E j \in is : H!Kept(s, is)[i] = s[j]
         /\ \A k : Num(H!Kept(s, is), k) = Cardinality(KeyAt(s, is, k))
<1> DEFINE n == Len(s)
           ss == [i \in 1..n |-> IF i \in is THEN <<s[i]>> ELSE << >>]
           Good(f, i) == /\ Len(f) = Cardinality(To(is, i))
                         /\ \A j \in 1..Len(f) : \E m \in is : f[j] = s[m]
                         /\ \A k : Num(f, k) = Cardinality(To(KeyAt(s, is, k), i))
<1>1. n \in Nat /\ \A i \in 1..n : s[i] \in Entry
  OBVIOUS
<1>2. ss \in [1..n -> Seq(Entry)]
  <2>1. \A i \in 1..n : <<s[i]>> \in Seq(Entry) /\ << >> \in Seq(Entry)
    BY <1>1
  <2> QED
    BY <2>1
<1>3. \A i \in 1..n : ss[i] = IF i \in is THEN <<s[i]>> ELSE << >>
  OBVIOUS
<1>4. H!Kept(s, is) = H!FlattenSeq(ss)
  BY DEF H!Kept
<1> HIDE DEF ss, n
<1>5. PICK F : IsFlat(F, ss, n) /\ H!FlattenSeq(ss) = F[n]
  BY <1>1, <1>2, FlatIs
<1>6. /\ F \in [0..n -> Seq(Entry)] /\ F[0] = << >>
      /\ \A i \in 1..n : F[i] = F[i - 1] \o ss[i]
  BY <1>5 DEF IsFlat
<1> DEFINE S == {i \in Nat : i <= n => Good(F[i], i)}
<1>7. 0 \in S
  <2>1. \A p : Cardinality(To(p, 0)) = 0
    <3>1. \A p : To(p, 0) = {}
      BY DEF To
    <3> QED
      BY <3>1, FS_EmptySet
  <2>2. Len(F[0]) = 0 /\ 1..Len(F[0]) = {} /\ \A k : Num(F[0], k) = 0
    BY <1>6, NumEmpty
  <2>3. Good(F[0], 0)
    BY <2>1, <2>2
  <2> HIDE DEF Good
  <2> QED
    BY <2>3
<1>8. ASSUME NEW m \in Nat, m \in S PROVE m + 1 \in S
  <2> DEFINE i == m + 1
             f == F[m]
             g == F[i]
  <2> SUFFICES ASSUME i <= n PROVE Good(g, i)
    OBVIOUS
  <2>1. m <= n /\ m \in 0..n /\ i \in 1..n /\ i \in Nat /\ i # 0 /\ i - 1 = m
    BY <1>1
  <2>2. Good(f, m)
    BY <1>8, <2>1
  <2>3. g = f \o ss[i] /\ f \in Seq(Entry) /\ ss[i] \in Seq(Entry)
    BY <1>2, <1>6, <2>1
  <2> HIDE DEF i, f, g
  <2>4. \A p : Cardinality(To(p, i)) = Cardinality(To(p, m)) + (IF i \in p THEN 1 ELSE 0)
    BY <2>1, ToNext
  <2>5. \A p : Cardinality(To(p, m)) \in Nat
    <3>1. \A p : To(p, m) \in SUBSET (1..m)
      BY DEF To
    <3>2. IsFiniteSet(1..m)
      BY UpToSize
    <3> QED
      BY <3>1, <3>2, FS_Subset, FS_CardinalityType
  <2>6. CASE i \in is
    <3>1. ss[i] = <<s[i]>> /\ s[i] \in Entry
      BY <1>1, <1>3, <2>1, <2>6
    <3>2. Len(g) = Len(f) + 1 /\ Len(f) \in Nat
          /\ (\A j \in 1..Len(f) : g[j] = f[j]) /\ g[Len(f) + 1] = s[i]
      BY <2>3, <3>1
    <3>3. Len(g) = Cardinality(To(is, i))
      BY <2>2, <2>4, <2>6, <3>2
    <3>4. \A j \in 1..Len(g) : \E q \in is : g[j] = s[q]
      <4>1. \A j \in 1..Len(g) : j \in 1..Len(f) \/ j = Len(f) + 1
        BY <3>2
      <4> QED
        BY <2>2, <2>6, <3>2, <4>1
    <3>5. ASSUME NEW k PROVE Num(g, k) = Cardinality(To(KeyAt(s, is, k), i))
      <4>1. Num(g, k) = Num(f, k) + Num(ss[i], k)
        BY <2>3, NumConcat
      <4>2. Num(ss[i], k) = IF s[i].key = k THEN 1 ELSE 0
        BY <3>1, NumOne
      <4>3. i \in KeyAt(s, is, k) <=> s[i].key = k
        BY <2>6 DEF KeyAt
      <4>4. Num(f, k) = Cardinality(To(KeyAt(s, is, k), m))
        BY <2>2
      <4>5. Cardinality(To(KeyAt(s, is, k), i))
              = Cardinality(To(KeyAt(s, is, k), m)) + (IF i \in KeyAt(s, is, k) THEN 1 ELSE 0)
        BY <2>4
      <4> QED
        BY <4>1, <4>2, <4>3, <4>4, <4>5
    <3> QED
      BY <3>3, <3>4, <3>5
  <2>7. CASE i \notin is
    <3>1. ss[i] = << >>
      BY <1>3, <2>1, <2>7
    <3>2. g = f
      BY <2>3, <3>1
    <3>3. \A k : i \notin KeyAt(s, is, k)
      BY <2>7 DEF KeyAt
    <3>4. \A p : i \notin p => Cardinality(To(p, i)) = Cardinality(To(p, m))
      BY <2>4, <2>5
    <3>5. /\ Len(f) = Cardinality(To(is, i))
          /\ \A k : Num(f, k) = Cardinality(To(KeyAt(s, is, k), i))
      BY <2>2, <2>7, <3>3, <3>4
    <3> QED
      BY <2>2, <3>2, <3>5
  <2> QED
    BY <2>6, <2>7
<1> HIDE DEF S
<1>9. Nat \subseteq S
  BY <1>7, <1>8, SetInduction
<1>10. Good(F[n], n)
  <2>1. n \in S /\ n <= n
    BY <1>1, <1>9
  <2> HIDE DEF Good
  <2> QED
    BY <2>1 DEF S
<1>11. To(is, n) = is /\ \A k : To(KeyAt(s, is, k), n) = KeyAt(s, is, k)
  BY DEF To, KeyAt, n
<1>12. F[n] \in Seq(Entry)
  BY <1>1, <1>6
<1> QED
  BY <1>4, <1>5, <1>10, <1>11, <1>12

-----------------------------------------------------------------------------
(* Tables, and their nodes bucket by bucket. *)

\* A table of n buckets, each node in the bucket of its key; and the place, a
\* bucket and a position, of each node.
Home(k, n) == hash_func_(k) % n
Table(b, n) == /\ n \in Nat \ {0}
               /\ b \in [0..n - 1 -> Seq(Entry)]
               /\ \A l \in 0..n - 1 : \A i \in 1..Len(b[l]) : Home(b[l][i].key, n) = l
Nodes(b) == UNION {{l} \X DOMAIN b[l] : l \in DOMAIN b}

LEMMA HomeIs ==
  ASSUME NEW n \in Nat \ {0}, NEW k \in Key
  PROVE  Home(k, n) \in 0..n - 1
<1>1. hash_func_(k) \in Nat
  BY ContainersAssumption DEF ContainersAssumption, H!HashMapAssumption
<1>2. \A a \in Nat : a % n \in 0..n - 1
  OBVIOUS
<1> QED
  BY <1>1, <1>2 DEF Home

LEMMA TableSize ==
  ASSUME NEW n \in Nat \ {0}, NEW b, DOMAIN b = 0..n - 1
  PROVE  H!Cardinality(DOMAIN b) = n
<1>1. 0 \in Int /\ n - 1 \in Int /\ (IF 0 > n - 1 THEN 0 ELSE (n - 1) - 0 + 1) = n
  OBVIOUS
<1>2. Cardinality(0..n - 1) = IF 0 > n - 1 THEN 0 ELSE (n - 1) - 0 + 1
  BY <1>1, FS_Interval
<1> QED
  BY <1>1, <1>2, HashSizeIs

\* The nodes of one bucket.
LEMMA RowSize ==
  ASSUME NEW l, NEW n \in Nat
  PROVE  IsFiniteSet({l} \X (1..n)) /\ Cardinality({l} \X (1..n)) = n
<1>1. IsFiniteSet({l}) /\ Cardinality({l}) = 1
  BY FS_Singleton
<1>2. IsFiniteSet(1..n) /\ Cardinality(1..n) = n
  BY UpToSize
<1> DEFINE S == {l}
           T == 1..n
<1> HIDE DEF S, T
<1>3. IsFiniteSet(S \X T) /\ Cardinality(S \X T) = Cardinality(S) * Cardinality(T)
  BY <1>1, <1>2, FS_Product DEF S, T
<1>4. Cardinality(S) * Cardinality(T) = n
  <2>1. Cardinality(S) = 1 /\ Cardinality(T) = n
    BY <1>1, <1>2 DEF S, T
  <2>2. 1 * n = n
    OBVIOUS
  <2> QED
    BY <2>1, <2>2
<1> QED
  BY <1>3, <1>4 DEF S, T

\* The nodes of the first i buckets, and those of all but one.
Below(b, i) == {p \in Nodes(b) : p[1] < i}
Beside(b, l) == {p \in Nodes(b) : p[1] # l}

LEMMA BelowNext ==
  ASSUME NEW n \in Nat, NEW b \in [0..n - 1 -> Seq(Entry)], NEW i \in Nat, i <= n,
         IsFiniteSet(Below(b, i)), i # n
  PROVE  /\ IsFiniteSet(Below(b, i + 1))
         /\ Cardinality(Below(b, i + 1)) = Cardinality(Below(b, i)) + Len(b[i])
         /\ Below(b, i + 1) = Below(b, i) \cup ({i} \X (1..Len(b[i])))
<1> DEFINE R == {i} \X (1..Len(b[i]))
           A == Below(b, i)
<1>1. i \in 0..n - 1 /\ b[i] \in Seq(Entry) /\ Len(b[i]) \in Nat /\ DOMAIN b[i] = 1..Len(b[i])
  OBVIOUS
<1>2. R \subseteq Nodes(b)
  BY <1>1 DEF Nodes
<1>3. \A p \in Nodes(b) : p[1] = i => p \in R
  BY <1>1 DEF Nodes
<1>4. \A p \in Nodes(b) : p[1] \in Nat
  BY DEF Nodes
<1>5. \A p \in R : p[1] = i
  OBVIOUS
<1>6. Below(b, i + 1) = A \cup R
  <2>1. \A x \in Nat : x < i + 1 <=> x < i \/ x = i
    OBVIOUS
  <2> HIDE DEF R
  <2>2. \A p \in Nodes(b) : p[1] < i + 1 <=> p[1] < i \/ p \in R
    BY <1>3, <1>4, <1>5, <2>1
  <2> QED
    BY <1>2, <2>2, <1>5 DEF Below
<1>7. IsFiniteSet(R) /\ Cardinality(R) = Len(b[i])
  BY <1>1, RowSize
<1>8. A \cap R = {}
  BY <1>5 DEF Below
<1> HIDE DEF A, R
<1>9. /\ IsFiniteSet(A \cup R) /\ Cardinality(A \cap R) = 0
      /\ Cardinality(A \cup R) = Cardinality(A) + Cardinality(R) - Cardinality(A \cap R)
      /\ Cardinality(A) \in Nat
  BY <1>7, <1>8, FS_Union, FS_EmptySet, FS_CardinalityType DEF A
<1>10. IsFiniteSet(A \cup R) /\ Cardinality(A \cup R) = Cardinality(A) + Len(b[i])
  BY <1>1, <1>7, <1>9
<1> QED
  BY <1>6, <1>10, Zenon DEF A, R

LEMMA BelowFinite ==
  ASSUME NEW n \in Nat, NEW b \in [0..n - 1 -> Seq(Entry)]
  PROVE  /\ \A i \in 0..n : IsFiniteSet(Below(b, i)) /\ Cardinality(Below(b, i)) \in Nat
         /\ Cardinality(Below(b, 0)) = 0
         /\ Below(b, n) = Nodes(b)
         /\ IsFiniteSet(Nodes(b)) /\ Cardinality(Nodes(b)) \in Nat
<1> DEFINE S == {i \in Nat : i <= n => IsFiniteSet(Below(b, i))}
<1>1. \A p \in Nodes(b) : p[1] \in Nat /\ p[1] < n
  BY DEF Nodes
<1>2. Below(b, 0) = {} /\ Below(b, n) = Nodes(b)
  BY <1>1 DEF Below
<1>3. 0 \in S
  BY <1>2, FS_EmptySet
<1>4. ASSUME NEW i \in Nat, i \in S PROVE i + 1 \in S
  <2> SUFFICES ASSUME i + 1 <= n PROVE IsFiniteSet(Below(b, i + 1))
    OBVIOUS
  <2>1. i <= n /\ i # n
    OBVIOUS
  <2> QED
    BY <1>4, <2>1, BelowNext
<1> HIDE DEF S
<1>5. Nat \subseteq S
  BY <1>3, <1>4, SetInduction
<1>6. \A i \in 0..n : IsFiniteSet(Below(b, i))
  BY <1>5 DEF S
<1>7. n \in 0..n
  OBVIOUS
<1> QED
  BY <1>2, <1>6, <1>7, FS_EmptySet, FS_CardinalityType

\* One bucket apart from the others.
LEMMA BesideSize ==
  ASSUME NEW n \in Nat, NEW b \in [0..n - 1 -> Seq(Entry)], NEW l \in 0..n - 1
  PROVE  /\ Cardinality(Beside(b, l)) \in Nat
         /\ Cardinality(Nodes(b)) = Cardinality(Beside(b, l)) + Len(b[l])
<1> DEFINE R == {l} \X (1..Len(b[l]))
           A == Beside(b, l)
<1>1. b[l] \in Seq(Entry) /\ Len(b[l]) \in Nat /\ DOMAIN b[l] = 1..Len(b[l])
  OBVIOUS
<1>2. R \subseteq Nodes(b)
  BY <1>1 DEF Nodes
<1>3. \A p \in Nodes(b) : p[1] = l => p \in R
  BY <1>1 DEF Nodes
<1>4. \A p \in R : p[1] = l
  OBVIOUS
<1>5. IsFiniteSet(R) /\ Cardinality(R) = Len(b[l])
  BY <1>1, RowSize
<1> HIDE DEF R
<1>6. Nodes(b) = A \cup R /\ A \cap R = {}
  BY <1>2, <1>3, <1>4 DEF Beside
<1>7. IsFiniteSet(A)
  <2>1. A \in SUBSET Nodes(b)
    BY DEF Beside
  <2> QED
    BY <2>1, BelowFinite, FS_Subset
<1> HIDE DEF A
<1>8. /\ Cardinality(A \cap R) = 0 /\ Cardinality(A) \in Nat
      /\ Cardinality(A \cup R) = Cardinality(A) + Cardinality(R) - Cardinality(A \cap R)
  BY <1>5, <1>6, <1>7, FS_Union, FS_EmptySet, FS_CardinalityType
<1> QED
  BY <1>1, <1>5, <1>6, <1>8 DEF A

\* Another chain in one bucket.
LEMMA OtherChain ==
  ASSUME NEW n \in Nat, NEW b \in [0..n - 1 -> Seq(Entry)], NEW l \in 0..n - 1,
         NEW d \in [0..n - 1 -> Seq(Entry)], \A m \in 0..n - 1 : m # l => d[m] = b[m]
  PROVE  Cardinality(Nodes(d)) = Cardinality(Nodes(b)) - Len(b[l]) + Len(d[l])
<1>2. Beside(d, l) = Beside(b, l)
  <2>1. \A f \in [0..n - 1 -> Seq(Entry)] :
          Beside(f, l) = UNION {{m} \X DOMAIN f[m] : m \in (0..n - 1) \ {l}}
    BY DEF Beside, Nodes
  <2>2. {{m} \X DOMAIN d[m] : m \in (0..n - 1) \ {l}} = {{m} \X DOMAIN b[m] : m \in (0..n - 1) \ {l}}
    OBVIOUS
  <2> QED
    BY <2>1, <2>2
<1>3. /\ Cardinality(Nodes(b)) = Cardinality(Beside(b, l)) + Len(b[l])
      /\ Cardinality(Nodes(d)) = Cardinality(Beside(d, l)) + Len(d[l])
      /\ Cardinality(Beside(b, l)) \in Nat /\ Len(b[l]) \in Nat /\ Len(d[l]) \in Nat
  <2>1. /\ Cardinality(Nodes(b)) = Cardinality(Beside(b, l)) + Len(b[l])
        /\ Cardinality(Beside(b, l)) \in Nat
    BY BesideSize
  <2>2. Cardinality(Nodes(d)) = Cardinality(Beside(d, l)) + Len(d[l])
    BY BesideSize
  <2>3. Len(b[l]) \in Nat /\ Len(d[l]) \in Nat
    OBVIOUS
  <2> QED
    BY <2>1, <2>2, <2>3
<1>4. Cardinality(Nodes(d)) = Cardinality(Nodes(b)) - Len(b[l]) + Len(d[l])
  BY <1>2, <1>3
<1> QED
  BY <1>4

Chained(b, n) == H!FlattenSeq([i \in 1..n |-> b[i - 1]])

\* All chains one after the other.
LEMMA ChainedIs ==
  ASSUME NEW n, NEW b, Table(b, n)
  PROVE  /\ Chained(b, n) \in Seq(Entry)
         /\ Len(Chained(b, n)) = Cardinality(Nodes(b))
         /\ \A k \in Key : Num(Chained(b, n), k) = Num(b[Home(k, n)], k)
<1> DEFINE ss == [i \in 1..n |-> b[i - 1]]
           Good(f, i) == /\ Len(f) = Cardinality(Below(b, i))
                         /\ \A k \in Key : Num(f, k) = IF Home(k, n) < i
                                                       THEN Num(b[Home(k, n)], k) ELSE 0
<1>1. /\ n \in Nat \ {0} /\ b \in [0..n - 1 -> Seq(Entry)]
      /\ \A l \in 0..n - 1 : \A i \in 1..Len(b[l]) : Home(b[l][i].key, n) = l
  BY DEF Table
<1>2. ss \in [1..n -> Seq(Entry)]
  <2>1. \A i \in 1..n : i - 1 \in 0..n - 1
    BY <1>1
  <2> QED
    BY <1>1, <2>1
<1>3. \A i \in 1..n : ss[i] = b[i - 1]
  OBVIOUS
<1>4. Chained(b, n) = H!FlattenSeq(ss)
  BY DEF Chained
<1> HIDE DEF ss
<1>5. PICK F : IsFlat(F, ss, n) /\ H!FlattenSeq(ss) = F[n]
  BY <1>1, <1>2, FlatIs
<1>6. /\ F \in [0..n -> Seq(Entry)] /\ F[0] = << >>
      /\ \A i \in 1..n : F[i] = F[i - 1] \o ss[i]
  BY <1>5 DEF IsFlat
<1> DEFINE S == {i \in Nat : i <= n => Good(F[i], i)}
<1>7. 0 \in S
  <2>1. Len(F[0]) = 0 /\ Cardinality(Below(b, 0)) = 0 /\ \A k \in Key : Num(F[0], k) = 0
    BY <1>1, <1>6, NumEmpty, BelowFinite
  <2>2. \A k \in Key : ~(Home(k, n) < 0)
    BY <1>1, HomeIs
  <2>3. Good(F[0], 0)
    BY <2>1, <2>2
  <2> HIDE DEF Good
  <2> QED
    BY <2>3
<1>8. ASSUME NEW m \in Nat, m \in S PROVE m + 1 \in S
  <2> DEFINE i == m + 1
             f == F[m]
             g == F[i]
             c == b[m]
  <2> SUFFICES ASSUME i <= n PROVE Good(g, i)
    OBVIOUS
  <2>1. m <= n /\ m # n /\ m \in 0..n /\ m \in 0..n - 1 /\ i \in 1..n /\ i - 1 = m
    BY <1>1
  <2>2. Good(f, m)
    BY <1>8, <2>1
  <2>3. g = f \o c /\ f \in Seq(Entry) /\ c \in Seq(Entry)
    BY <1>1, <1>3, <1>6, <2>1
  <2>4. Cardinality(Below(b, i)) = Cardinality(Below(b, m)) + Len(c)
    <3>1. IsFiniteSet(Below(b, m))
      BY <1>1, <2>1, BelowFinite
    <3> QED
      BY <1>1, <2>1, <3>1, BelowNext
  <2>5. ASSUME NEW k \in Key
        PROVE  Num(g, k) = IF Home(k, n) < i THEN Num(b[Home(k, n)], k) ELSE 0
    <3> DEFINE h == Home(k, n)
    <3>1. h \in 0..n - 1
      BY <1>1, HomeIs
    <3>2. h < i <=> h < m \/ h = m
      BY <3>1
    <3>3. Num(g, k) = Num(f, k) + Num(c, k)
      BY <2>3, NumConcat
    <3>4. Num(f, k) = IF h < m THEN Num(b[h], k) ELSE 0
      BY <2>2
    <3>5. Num(c, k) \in Nat /\ Num(b[h], k) \in Nat
      <4>1. b[h] \in Seq(Entry)
        BY <1>1, <3>1
      <4> QED
        BY <2>3, <4>1, AtFinite
    <3>6. h # m => Num(c, k) = 0
      <4> SUFFICES ASSUME h # m PROVE Num(c, k) = 0
        OBVIOUS
      <4>1. \A j \in 1..Len(c) : c[j].key # k
        BY <1>1, <2>1
      <4>2. H!At(c, k) = {}
        BY <4>1 DEF H!At
      <4> QED
        BY <4>2, FS_EmptySet DEF Num
    <3>7. h = m => b[h] = c
      OBVIOUS
    <3>8. ~(m < m)
      OBVIOUS
    <3> HIDE DEF h, c, f, g, i
    <3>9. Num(g, k) = IF h < i THEN Num(b[h], k) ELSE 0
      <4>1. CASE h = m
        BY <3>2, <3>3, <3>4, <3>5, <3>7, <3>8, <4>1
      <4>2. CASE h # m
        <5>1. Num(g, k) = Num(f, k)
          <6>1. Num(f, k) \in Nat
            BY <3>4, <3>5
          <6> QED
            BY <3>3, <3>6, <4>2, <6>1
        <5> QED
          BY <3>2, <3>4, <4>2, <5>1
      <4> QED
        BY <4>1, <4>2
    <3> QED
      BY <3>9 DEF h
  <2>6. Len(g) = Len(f) + Len(c) /\ Len(f) = Cardinality(Below(b, m))
    <3>1. Len(f) = Cardinality(Below(b, m))
      BY <2>2
    <3> HIDE DEF f, g, c, i
    <3>2. Len(g) = Len(f) + Len(c)
      BY <2>3
    <3> QED
      BY <3>1, <3>2
  <2>7. Len(g) = Cardinality(Below(b, i))
    BY <2>4, <2>6
  <2> QED
    BY <2>5, <2>7
<1> HIDE DEF S
<1>9. Nat \subseteq S
  BY <1>7, <1>8, SetInduction
<1>10. Good(F[n], n)
  <2>1. n \in S /\ n <= n
    BY <1>1, <1>9
  <2> HIDE DEF Good
  <2> QED
    BY <2>1 DEF S
<1>11. \A k \in Key : Home(k, n) < n
  BY <1>1, HomeIs
<1>12. Below(b, n) = Nodes(b)
  BY <1>1, BelowFinite
<1>13. F[n] \in Seq(Entry)
  BY <1>1, <1>6
<1> QED
  BY <1>4, <1>5, <1>10, <1>11, <1>12, <1>13

\* Buckets of the sizes f.
Grid(f, n) == UNION {{l} \X (1..f[l]) : l \in 0..n - 1}

LEMMA GridGrows ==
  ASSUME NEW n \in Nat, NEW f \in [0..n - 1 -> Nat], NEW g \in [0..n - 1 -> Nat],
         NEW h \in 0..n - 1, g[h] = f[h] + 1, \A l \in 0..n - 1 : l # h => g[l] = f[l],
         IsFiniteSet(Grid(f, n))
  PROVE  IsFiniteSet(Grid(g, n)) /\ Cardinality(Grid(g, n)) = Cardinality(Grid(f, n)) + 1
<1> DEFINE p == <<h, f[h] + 1>>
           A == Grid(f, n)
<1>1. \A l \in 0..n - 1 : l # h => {l} \X (1..g[l]) = {l} \X (1..f[l])
  OBVIOUS
<1>2. {h} \X (1..g[h]) = ({h} \X (1..f[h])) \cup {p}
  <2>1. f[h] \in Nat
    OBVIOUS
  <2>2. 1..g[h] = (1..f[h]) \cup {f[h] + 1}
    BY <2>1
  <2> QED
    BY <2>2
<1>3. \A f1 : Grid(f1, n) = ({h} \X (1..f1[h])) \cup UNION {{l} \X (1..f1[l]) : l \in (0..n - 1) \ {h}}
  BY DEF Grid
<1>4. UNION {{l} \X (1..g[l]) : l \in (0..n - 1) \ {h}} = UNION {{l} \X (1..f[l]) : l \in (0..n - 1) \ {h}}
  <2>1. {{l} \X (1..g[l]) : l \in (0..n - 1) \ {h}} = {{l} \X (1..f[l]) : l \in (0..n - 1) \ {h}}
    BY <1>1
  <2> QED
    BY <2>1
<1>5. Grid(g, n) = A \cup {p}
  <2> DEFINE U == UNION {{l} \X (1..f[l]) : l \in (0..n - 1) \ {h}}
             B == {h} \X (1..f[h])
             C == {h} \X (1..g[h])
  <2>1. Grid(g, n) = C \cup U /\ A = B \cup U /\ C = B \cup {p}
    BY <1>2, <1>3, <1>4, Zenon
  <2> HIDE DEF U, B, C, A, p
  <2> QED
    BY <2>1
<1>6. p \notin A
  <2>1. ASSUME NEW l \in 0..n - 1, p \in {l} \X (1..f[l]) PROVE FALSE
    <3>1. l = h /\ f[h] + 1 \in 1..f[h] /\ f[h] \in Nat
      BY <2>1
    <3> QED
      BY <3>1
  <2> QED
    BY <2>1 DEF Grid
<1> HIDE DEF A, p
<1>7. IsFiniteSet(A)
  BY DEF A
<1> QED
  BY <1>5, <1>6, <1>7, FS_AddElement DEF A

\* The positions of a list whose keys belong in bucket l of n, and the table
\* of the nodes at them.
Bound(s, l, n) == {i \in 1..Len(s) : Home(s[i].key, n) = l}
Spread(s, n) == [l \in 0..n - 1 |-> H!Reverse(H!Kept(s, Bound(s, l, n)))]

\* As many nodes up to m as there are positions.
LEMMA SpreadSize ==
  ASSUME NEW n \in Nat \ {0}, NEW s \in Seq(Entry)
  PROVE  Cardinality(Grid([l \in 0..n - 1 |-> Cardinality(Bound(s, l, n))], n)) = Len(s)
<1> DEFINE f(m) == [l \in 0..n - 1 |-> Cardinality(To(Bound(s, l, n), m))]
           S == {m \in Nat : m <= Len(s) => /\ IsFiniteSet(Grid(f(m), n))
                                            /\ Cardinality(Grid(f(m), n)) = m}
<1>1. Len(s) \in Nat /\ \A i \in 1..Len(s) : s[i].key \in Key
  <2>1. Len(s) \in Nat /\ \A i \in 1..Len(s) : s[i] \in Entry
    OBVIOUS
  <2>2. \A e \in Entry : e.key \in Key
    BY DEF Entry
  <2> QED
    BY <2>1, <2>2
<1>2. \A l, m : f(m) = [h \in 0..n - 1 |-> Cardinality(To(Bound(s, h, n), m))]
  OBVIOUS
<1>3. \A m \in Nat : \A p : Cardinality(To(p, m)) \in Nat
  <2> TAKE m \in Nat
  <2> TAKE p
  <2>1. To(p, m) \in SUBSET (1..m) /\ IsFiniteSet(1..m)
    BY UpToSize DEF To
  <2> QED
    BY <2>1, FS_Subset, FS_CardinalityType
<1>4. 0 \in S
  <2>1. \A p : Cardinality(To(p, 0)) = 0
    <3>1. \A p : To(p, 0) = {}
      BY DEF To
    <3> QED
      BY <3>1, FS_EmptySet
  <2>2. \A l \in 0..n - 1 : f(0)[l] = 0
    BY <2>1
  <2>3. \A l \in 0..n - 1 : {l} \X (1..f(0)[l]) = {}
    <3>1. \A l \in 0..n - 1 : 1..f(0)[l] = {}
      BY <2>2
    <3> HIDE DEF f
    <3> QED
      BY <3>1
  <2> HIDE DEF f
  <2>4. Grid(f(0), n) = {}
    BY <2>3 DEF Grid
  <2> QED
    BY <2>4, FS_EmptySet
<1>5. ASSUME NEW m \in Nat, m \in S PROVE m + 1 \in S
  <2> DEFINE i == m + 1
             h == Home(s[i].key, n)
  <2> SUFFICES ASSUME i <= Len(s)
               PROVE  IsFiniteSet(Grid(f(i), n)) /\ Cardinality(Grid(f(i), n)) = i
    OBVIOUS
  <2>1. i \in 1..Len(s) /\ i - 1 = m /\ i # 0 /\ i \in Nat /\ m <= Len(s)
    BY <1>1
  <2>2. h \in 0..n - 1
    BY <1>1, <2>1, HomeIs
  <2>3. IsFiniteSet(Grid(f(m), n)) /\ Cardinality(Grid(f(m), n)) = m
    BY <1>5, <2>1
  <2>4. \A l \in 0..n - 1 : i \in Bound(s, l, n) <=> l = h
    BY <2>1 DEF Bound
  <2>5. \A p : Cardinality(To(p, i)) = Cardinality(To(p, m)) + (IF i \in p THEN 1 ELSE 0)
    BY <2>1, ToNext
  <2> HIDE DEF i, h
  <2>6. \A l \in 0..n - 1 : /\ f(i)[l] = Cardinality(To(Bound(s, l, n), i))
                            /\ f(m)[l] = Cardinality(To(Bound(s, l, n), m))
    OBVIOUS
  <2>7. f(i) \in [0..n - 1 -> Nat] /\ f(m) \in [0..n - 1 -> Nat]
    BY <1>3, <2>1
  <2> HIDE DEF f
  <2>8. f(i)[h] = f(m)[h] + 1 /\ \A l \in 0..n - 1 : l # h => f(i)[l] = f(m)[l]
    <3>1. f(i)[h] = f(m)[h] + 1
      BY <2>2, <2>4, <2>5, <2>6
    <3>2. ASSUME NEW l \in 0..n - 1, l # h PROVE f(i)[l] = f(m)[l]
      <4>1. f(i)[l] = f(m)[l] + 0 /\ f(m)[l] \in Nat
        BY <2>4, <2>5, <2>6, <2>7, <3>2
      <4> QED
        BY <4>1
    <3> QED
      BY <3>1, <3>2
  <2>9. IsFiniteSet(Grid(f(i), n)) /\ Cardinality(Grid(f(i), n)) = Cardinality(Grid(f(m), n)) + 1
    BY <2>2, <2>3, <2>7, <2>8, GridGrows
  <2> QED
    BY <2>3, <2>9 DEF i
<1> HIDE DEF S
<1>6. Nat \subseteq S
  BY <1>4, <1>5, SetInduction
<1>7. Cardinality(Grid(f(Len(s)), n)) = Len(s)
  BY <1>1, <1>6 DEF S
<1>8. \A l : To(Bound(s, l, n), Len(s)) = Bound(s, l, n)
  BY DEF To, Bound
<1>9. f(Len(s)) = [l \in 0..n - 1 |-> Cardinality(Bound(s, l, n))]
  BY <1>8
<1> QED
  BY <1>7, <1>9

\* Reversed or not, every node is then in one bucket, that of its key.
LEMMA SpreadIs ==
  ASSUME NEW n \in Nat \ {0}, NEW s \in Seq(Entry)
  PROVE  /\ Table(Spread(s, n), n)
         /\ Cardinality(Nodes(Spread(s, n))) = Len(s)
         /\ \A k \in Key : Num(Spread(s, n)[Home(k, n)], k) = Num(s, k)
<1> DEFINE d == Spread(s, n)
           c(l) == H!Kept(s, Bound(s, l, n))
           f == [l \in 0..n - 1 |-> Cardinality(Bound(s, l, n))]
<1>1. \A l \in 0..n - 1 : d[l] = H!Reverse(c(l)) /\ DOMAIN d = 0..n - 1
  BY DEF Spread
<1>2. \A l : Bound(s, l, n) \in SUBSET (1..Len(s))
  BY DEF Bound
<1>3. \A l : /\ c(l) \in Seq(Entry) /\ Len(c(l)) = Cardinality(Bound(s, l, n))
             /\ \A i \in 1..Len(c(l)) : \E j \in Bound(s, l, n) : c(l)[i] = s[j]
             /\ \A k : Num(c(l), k) = Cardinality(KeyAt(s, Bound(s, l, n), k))
  BY <1>2, KeptIs
<1> HIDE DEF c
<1>4. \A l : /\ H!Reverse(c(l)) \in Seq(Entry) /\ Len(H!Reverse(c(l))) = Len(c(l))
             /\ \A i \in 1..Len(c(l)) : \E j \in 1..Len(c(l)) : H!Reverse(c(l))[i] = c(l)[j]
  BY <1>3, ReverseIs
<1>5. d \in [0..n - 1 -> Seq(Entry)]
  <2>1. d = [l \in 0..n - 1 |-> d[l]]
    BY DEF Spread
  <2> HIDE DEF d
  <2> QED
    BY <1>1, <1>4, <2>1
<1> HIDE DEF d
<1>6. \A l \in 0..n - 1 : \A i \in 1..Len(d[l]) : Home(d[l][i].key, n) = l
  <2> TAKE l \in 0..n - 1
  <2> TAKE i \in 1..Len(d[l])
  <2>1. d[l] = H!Reverse(c(l)) /\ i \in 1..Len(c(l))
    BY <1>1, <1>4
  <2>2. PICK j \in 1..Len(c(l)) : d[l][i] = c(l)[j]
    BY <1>4, <2>1
  <2>3. PICK q \in Bound(s, l, n) : c(l)[j] = s[q]
    BY <1>3
  <2> QED
    BY <2>2, <2>3 DEF Bound
<1>7. Nodes(d) = Grid(f, n)
  <2>1. \A l \in 0..n - 1 : DOMAIN d[l] = 1..f[l]
    <3> TAKE l \in 0..n - 1
    <3>1. DOMAIN d[l] = 1..Len(d[l])
      BY <1>5
    <3>2. Len(d[l]) = f[l]
      BY <1>1, <1>3, <1>4
    <3> QED
      BY <3>1, <3>2
  <2> HIDE DEF f
  <2>2. DOMAIN d = 0..n - 1
    BY <1>5
  <2> QED
    BY <2>1, <2>2 DEF Nodes, Grid
<1>8. Cardinality(Nodes(d)) = Len(s)
  BY <1>7, SpreadSize
<1>9. ASSUME NEW k \in Key PROVE Num(d[Home(k, n)], k) = Num(s, k)
  <2> DEFINE l == Home(k, n)
  <2>1. l \in 0..n - 1
    BY HomeIs
  <2>2. KeyAt(s, Bound(s, l, n), k) = H!At(s, k)
    BY DEF KeyAt, Bound, H!At
  <2>3. Num(c(l), k) = Num(s, k)
    BY <1>3, <2>2 DEF Num
  <2>4. Num(H!Reverse(c(l)), k) = Num(c(l), k)
    BY <1>3, NumReverse
  <2> QED
    BY <1>1, <2>1, <2>3, <2>4
<1> QED
  BY <1>5, <1>6, <1>8, <1>9 DEF Table, d

\* A rehash keeps every node.
LEMMA RehashIs ==
  ASSUME NEW n, NEW b, Table(b, n)
  PROVE  /\ Table(H!rehash(b), 2 * n)
         /\ Cardinality(Nodes(H!rehash(b))) = Cardinality(Nodes(b))
         /\ \A k \in Key : Num(H!rehash(b)[Home(k, 2 * n)], k) = Num(b[Home(k, n)], k)
<1>1. n \in Nat \ {0} /\ DOMAIN b = 0..n - 1
  BY DEF Table
<1>2. H!Cardinality(DOMAIN b) = n
  BY <1>1, TableSize
<1>3. H!rehash(b) = Spread(Chained(b, n), 2 * n)
  BY <1>2, Zenon DEF H!rehash, Spread, Chained, Bound, Home
<1>4. 2 * n \in Nat \ {0}
  BY <1>1
<1> DEFINE old == Chained(b, n)
           d == Spread(old, 2 * n)
<1>5. /\ old \in Seq(Entry) /\ Len(old) = Cardinality(Nodes(b))
      /\ \A k \in Key : Num(old, k) = Num(b[Home(k, n)], k)
  BY ChainedIs
<1> HIDE DEF old
<1>6. /\ Table(d, 2 * n) /\ Cardinality(Nodes(d)) = Len(old)
      /\ \A k \in Key : Num(d[Home(k, 2 * n)], k) = Num(old, k)
  BY <1>4, <1>5, SpreadIs
<1>7. H!rehash(b) = d
  BY <1>3 DEF old
<1> HIDE DEF d
<1> QED
  BY <1>5, <1>6, <1>7

-----------------------------------------------------------------------------
(* The invariant of the hash map, and its operations. *)

\* A table of n buckets and c nodes, with no key more than twice: until a null
\* pointer is read, the map is one.
Map(b, n, c) == /\ Table(b, n)
                /\ c = Cardinality(Nodes(b))
                /\ \A k \in Key : Num(b[Home(k, n)], k) <= 2

HInv == ~hashCrashed => \E n : Map(bucket_, n, element_count_)

LEMMA LocationIs ==
  ASSUME NEW n, NEW c, Map(bucket_, n, c)
  PROVE  H!bucket_count_ = n /\ \A k : H!location(k) = Home(k, n)
<1>1. n \in Nat \ {0} /\ DOMAIN bucket_ = 0..n - 1
  BY DEF Map, Table
<1>2. H!bucket_count_ = n
  BY <1>1, TableSize DEF H!bucket_count_
<1> QED
  BY <1>2, Zenon DEF H!location, Home

LEMMA EmptyIs ==
  ASSUME NEW n \in Nat \ {0}
  PROVE  Map(H!Empty(n), n, 0)
<1> DEFINE b == H!Empty(n)
<1>1. b \in [0..n - 1 -> Seq(Entry)] /\ \A l \in 0..n - 1 : b[l] = << >>
  BY DEF H!Empty
<1> HIDE DEF b
<1>2. Table(b, n)
  BY <1>1 DEF Table
<1>3. Nodes(b) = {}
  <2>1. \A l \in 0..n - 1 : DOMAIN b[l] = {}
    BY <1>1
  <2> QED
    BY <1>1, <2>1 DEF Nodes
<1>4. \A k \in Key : Num(b[Home(k, n)], k) <= 2
  BY <1>1, HomeIs, NumEmpty
<1> QED
  BY <1>2, <1>3, <1>4, FS_EmptySet DEF Map, b

LEMMA HashInvInit == H!Init => HInv
<1> SUFFICES ASSUME H!Init PROVE HInv
  OBVIOUS
<1>1. InitialCapacity \in Nat \ {0}
  BY ContainersAssumption DEF ContainersAssumption, H!HashMapAssumption
<1>2. bucket_ = H!Empty(InitialCapacity) /\ element_count_ = 0
  BY DEF H!Init
<1> QED
  BY <1>1, <1>2, EmptyIs DEF HInv

LEMMA ClearHash ==
  ASSUME NEW n, Map(bucket_, n, element_count_), H!clear
  PROVE  Map(bucket_', n, element_count_')
<1>1. n \in Nat \ {0} /\ H!bucket_count_ = n
  BY LocationIs DEF Map, Table
<1> QED
  BY <1>1, EmptyIs DEF H!clear

LEMMA AppendEntry ==
  ASSUME NEW s \in Seq(Entry), NEW e \in Entry
  PROVE  /\ Append(s, e) \in Seq(Entry) /\ Len(Append(s, e)) = Len(s) + 1 /\ Len(s) \in Nat
         /\ \A i \in 1..Len(s) : Append(s, e)[i] = s[i]
         /\ Append(s, e)[Len(s) + 1] = e /\ Append(s, e) = s \o <<e>>
         /\ <<e>> \in Seq(Entry)
<1> HIDE DEF Entry
<1>1. s = [i \in 1..Len(s) |-> s[i]] /\ Len(s) \in Nat /\ Append(s, e) \in Seq(Entry)
  OBVIOUS
<1>2. <<e>> \in Seq(Entry)
  OBVIOUS
<1>3. Len(Append(s, e)) = Len(s) + 1 /\ Append(s, e)[Len(s) + 1] = e
  OBVIOUS
<1>4. \A i \in 1..Len(s) : Append(s, e)[i] = s[i]
  OBVIOUS
<1>5. Append(s, e) = s \o <<e>>
  OBVIOUS
<1> QED
  BY <1>1, <1>2, <1>3, <1>4, <1>5

LEMMA MapParts ==
  ASSUME NEW n, NEW b, NEW c, Map(b, n, c)
  PROVE  /\ n \in Nat \ {0} /\ b \in [0..n - 1 -> Seq(Entry)] /\ DOMAIN b = 0..n - 1
         /\ \A m \in 0..n - 1 : b[m] \in Seq(Entry)
         /\ \A m \in 0..n - 1 : \A i \in 1..Len(b[m]) : Home(b[m][i].key, n) = m
         /\ \A k \in Key : Home(k, n) \in 0..n - 1 /\ Num(b[Home(k, n)], k) <= 2
         /\ c = Cardinality(Nodes(b)) /\ c \in Nat
<1>1. /\ n \in Nat \ {0} /\ b \in [0..n - 1 -> Seq(Entry)] /\ c = Cardinality(Nodes(b))
      /\ \A m \in 0..n - 1 : \A i \in 1..Len(b[m]) : Home(b[m][i].key, n) = m
      /\ \A k \in Key : Num(b[Home(k, n)], k) <= 2
  BY DEF Map, Table
<1>2. c \in Nat
  BY <1>1, BelowFinite
<1>3. \A k \in Key : Home(k, n) \in 0..n - 1
  BY <1>1, HomeIs
<1> QED
  BY <1>1, <1>2, <1>3

\* Another chain for one bucket.
LEMMA ChainChanged ==
  ASSUME NEW n, NEW b, NEW c, Map(b, n, c), NEW l \in 0..n - 1, NEW s \in Seq(Entry),
         \A i \in 1..Len(s) : Home(s[i].key, n) = l,
         \A k \in Key : Home(k, n) = l => Num(s, k) <= 2
  PROVE  Map([b EXCEPT ![l] = s], n, c - Len(b[l]) + Len(s))
<1>1. /\ n \in Nat \ {0} /\ n \in Nat /\ b \in [0..n - 1 -> Seq(Entry)]
      /\ \A m \in 0..n - 1 : \A i \in 1..Len(b[m]) : Home(b[m][i].key, n) = m
      /\ \A k \in Key : Home(k, n) \in 0..n - 1 /\ Num(b[Home(k, n)], k) <= 2
      /\ c = Cardinality(Nodes(b))
  BY MapParts
<1>2. PICK d : d = [b EXCEPT ![l] = s]
  OBVIOUS
<1>3. /\ d \in [0..n - 1 -> Seq(Entry)] /\ d[l] = s
      /\ \A m \in 0..n - 1 : m # l => d[m] = b[m]
  BY <1>1, <1>2
<1>4. Cardinality(Nodes(d)) = c - Len(b[l]) + Len(s)
  <2>1. Cardinality(Nodes(d)) = Cardinality(Nodes(b)) - Len(b[l]) + Len(s)
    BY <1>1, <1>3, OtherChain
  <2> QED
    BY <1>1, <2>1
<1>5. ASSUME NEW m \in 0..n - 1
      PROVE  \A i \in 1..Len(d[m]) : Home(d[m][i].key, n) = m
  <2>1. CASE m = l
    BY <1>3, <2>1
  <2>2. CASE m # l
    <3>1. d[m] = b[m]
      BY <1>3, <2>2
    <3> QED
      BY <1>1, <3>1
  <2> QED
    BY <2>1, <2>2
<1>6. \A k \in Key : Num(d[Home(k, n)], k) <= 2
  BY <1>1, <1>3
<1>7. Map(d, n, c - Len(b[l]) + Len(s))
  BY <1>1, <1>3, <1>4, <1>5, <1>6 DEF Map, Table
<1> QED
  BY <1>2, <1>7

\* One key more at the end of its chain.
LEMMA AppendIs ==
  \A n, b, c : \A e \in Entry :
    Map(b, n, c) /\ Num(b[Home(e.key, n)], e.key) <= 1 =>
      Map([b EXCEPT ![Home(e.key, n)] = Append(@, e)], n, c + 1)
<1> SUFFICES ASSUME NEW n, NEW b, NEW c, NEW e \in Entry, Map(b, n, c),
                    Num(b[Home(e.key, n)], e.key) <= 1
             PROVE  Map([b EXCEPT ![Home(e.key, n)] = Append(@, e)], n, c + 1)
  OBVIOUS
<1> DEFINE l == Home(e.key, n)
           s == b[l]
           t == Append(s, e)
<1>1. /\ n \in Nat \ {0} /\ b \in [0..n - 1 -> Seq(Entry)] /\ c \in Nat
      /\ \A m \in 0..n - 1 : \A i \in 1..Len(b[m]) : Home(b[m][i].key, n) = m
      /\ \A k \in Key : Num(b[Home(k, n)], k) <= 2
  BY MapParts
<1>2. e.key \in Key
  BY DEF Entry
<1>3. l \in 0..n - 1
  BY <1>1, <1>2, HomeIs
<1> HIDE DEF l
<1>4. /\ s \in Seq(Entry) /\ t \in Seq(Entry) /\ Len(t) = Len(s) + 1 /\ Len(s) \in Nat
      /\ \A i \in 1..Len(s) : t[i] = s[i]
      /\ t[Len(s) + 1] = e /\ t = s \o <<e>> /\ <<e>> \in Seq(Entry)
  <2>1. s \in Seq(Entry)
    BY <1>1, <1>3
  <2> HIDE DEF s
  <2> QED
    BY <2>1, AppendEntry
<1> HIDE DEF t
<1>5. \A i \in 1..Len(t) : Home(t[i].key, n) = l
  <2> TAKE i \in 1..Len(t)
  <2>1. i \in 1..Len(s) \/ i = Len(s) + 1
    BY <1>4
  <2>2. \A j \in 1..Len(s) : Home(s[j].key, n) = l
    BY <1>1, <1>3
  <2> QED
    BY <1>4, <2>1, <2>2 DEF l
<1>6. ASSUME NEW k \in Key, Home(k, n) = l PROVE Num(t, k) <= 2
  <2>1. Num(t, k) = Num(s, k) + (IF e.key = k THEN 1 ELSE 0)
    <3> HIDE DEF s
    <3>1. Num(s \o <<e>>, k) = Num(s, k) + Num(<<e>>, k)
      BY <1>4, NumConcat
    <3>2. Num(t, k) = Num(s, k) + Num(<<e>>, k)
      BY <1>4, <3>1, Zenon
    <3> QED
      BY <3>2, NumOne
  <2>2. Num(s, k) \in Nat /\ Num(s, k) <= 2
    BY <1>1, <1>4, <1>6, AtFinite
  <2>3. e.key = k => Num(s, k) <= 1
    BY DEF l
  <2> QED
    BY <2>1, <2>2, <2>3
<1>7. Map([b EXCEPT ![l] = t], n, c - Len(b[l]) + Len(t))
  <2>1. t \in Seq(Entry) /\ \A k \in Key : Home(k, n) = l => Num(t, k) <= 2
    BY <1>4, <1>6
  <2> HIDE DEF s
  <2> QED
    BY <1>3, <1>5, <2>1, ChainChanged
<1>8. c - Len(b[l]) + Len(t) = c + 1
  <2>1. c \in Nat /\ Len(s) \in Nat /\ Len(t) = Len(s) + 1
    BY <1>1, <1>4
  <2> HIDE DEF s
  <2>2. c - Len(s) + Len(t) = c + 1
    BY <2>1
  <2> QED
    BY <2>2 DEF s
<1>9. Map([b EXCEPT ![l] = t], n, c + 1)
  BY <1>7, <1>8, Zenon
<1> QED
  BY <1>9 DEF t, s, l

LEMMA LeastOf ==
  ASSUME NEW S \in SUBSET Nat, S # {}
  PROVE  H!Min(S) \in S /\ \A y \in S : H!Min(S) <= y
<1> DEFINE R == OpToRel(<, Nat)
<1>1. IsWellFoundedOn(R, Nat)
  BY NatLessThanWellFounded
<1>2. \A y \in Nat, x \in Nat : y < x => <<y, x>> \in R
  BY DEF OpToRel
<1> HIDE DEF R
<1>3. PICK x \in S : \A y \in S : ~(<<y, x>> \in R)
  BY <1>1, WFMin
<1>4. ASSUME NEW y \in S PROVE x <= y
  <2>1. x \in Nat /\ y \in Nat
    OBVIOUS
  <2>2. ~(y < x)
    BY <1>2, <1>3, <2>1
  <2> QED
    BY <2>1, <2>2
<1>5. \E z \in S : \A y \in S : z <= y
  BY <1>4
<1>6. H!Min(S) = CHOOSE z \in S : \A y \in S : z <= y
  BY Zenon DEF H!Min
<1> QED
  BY <1>5, <1>6, Zenon

\* What insert finds: all of a chain but its end is compared.
LEMMA FoundIs ==
  ASSUME NEW s \in Seq(Entry), s # << >>, NEW k
  PROVE  /\ H!Found(s, k) \subseteq 1..Len(s)
         /\ H!Found(s, k) # {} => H!Min(H!Found(s, k)) \in 1..Len(s)
         /\ H!Found(s, k) = {} => Num(s, k) <= 1
<1> DEFINE n == Len(s)
           F == H!Found(s, k)
<1>1. n \in Nat \ {0} /\ n - 1 \in Nat
  OBVIOUS
<1>2. H!Front(s) = SubSeq(s, 1, n - 1)
  BY Zenon DEF H!Front
<1>3. Len(SubSeq(s, 1, n - 1)) = n - 1 /\ \A i \in 1..n - 1 : SubSeq(s, 1, n - 1)[i] = s[i]
  <2> DEFINE m == n - 1
  <2>1. 1 \in 1..Len(s) + 1 /\ m \in 1 - 1..Len(s) /\ m \in Nat
    BY <1>1
  <2> HIDE DEF m
  <2>2. Len(SubSeq(s, 1, m)) = m - 1 + 1 /\ \A i \in 1..m - 1 + 1 : SubSeq(s, 1, m)[i] = s[1 + i - 1]
    BY <2>1, SubSeqProperties
  <2>3. m - 1 + 1 = m /\ \A i \in 1..m : 1 + i - 1 = i
    BY <2>1
  <2>4. Len(SubSeq(s, 1, m)) = m /\ \A i \in 1..m : SubSeq(s, 1, m)[i] = s[i]
    BY <2>2, <2>3
  <2> QED
    BY <2>4 DEF m
<1>4. F = {i \in 1..n - 1 : s[i].key = k}
  <2>1. F = {i \in 1..Len(H!Front(s)) : H!Front(s)[i].key = k}
    BY Zenon DEF H!Found, H!At
  <2> QED
    BY <1>2, <1>3, <2>1
<1> HIDE DEF F
<1>5. F \subseteq 1..n
  BY <1>1, <1>4
<1>6. ASSUME F # {} PROVE H!Min(F) \in 1..n
  <2>1. F \in SUBSET Nat
    BY <1>5
  <2> QED
    BY <1>5, <1>6, <2>1, LeastOf
<1>7. ASSUME F = {} PROVE Num(s, k) <= 1
  <2>1. H!At(s, k) \subseteq {n}
    BY <1>1, <1>4, <1>7 DEF H!At
  <2>2. IsFiniteSet({n}) /\ Cardinality({n}) = 1
    BY FS_Singleton
  <2>3. Cardinality(H!At(s, k)) <= Cardinality({n})
    BY <2>1, <2>2, FS_Subset
  <2> QED
    BY <2>2, <2>3 DEF Num
<1> QED
  BY <1>5, <1>6, <1>7 DEF F, n

\* Another value in one node.
LEMMA NewValue ==
  ASSUME NEW s \in Seq(Entry), NEW i \in 1..Len(s), NEW v \in Value,
         NEW t, t = [s EXCEPT ![i].val = v]
  PROVE  /\ t \in Seq(Entry) /\ Len(t) = Len(s)
         /\ \A j \in 1..Len(s) : t[j].key = s[j].key
<1>1. \A j \in 1..Len(s) : s[j] \in Entry
  OBVIOUS
<1>2. [s[i] EXCEPT !.val = v] \in Entry /\ [s[i] EXCEPT !.val = v].key = s[i].key
  BY <1>1 DEF Entry
<1> DEFINE e == [s[i] EXCEPT !.val = v]
<1>3. t = [s EXCEPT ![i] = e]
  OBVIOUS
<1>4. e \in Entry /\ e.key = s[i].key
  BY <1>2
<1> HIDE DEF e, Entry
<1>5. t \in Seq(Entry) /\ Len(t) = Len(s) /\ \A j \in 1..Len(s) : t[j] = IF j = i THEN e ELSE s[j]
  BY <1>3, <1>4
<1>6. \A j \in 1..Len(s) : t[j].key = s[j].key
  BY <1>4, <1>5
<1> QED
  BY <1>5, <1>6

\* rehash, insert and erase: a table stays one.
LEMMA RehashMap ==
  ASSUME NEW n, NEW b, NEW c, Map(b, n, c)
  PROVE  Map(H!rehash(b), 2 * n, c)
<1>1. Table(b, n) /\ c = Cardinality(Nodes(b)) /\ \A k \in Key : Num(b[Home(k, n)], k) <= 2
  BY DEF Map
<1>2. /\ Table(H!rehash(b), 2 * n)
      /\ Cardinality(Nodes(H!rehash(b))) = Cardinality(Nodes(b))
      /\ \A k \in Key : Num(H!rehash(b)[Home(k, 2 * n)], k) = Num(b[Home(k, n)], k)
  BY <1>1, RehashIs
<1> QED
  BY <1>1, <1>2, Zenon DEF Map

LEMMA InsertHash ==
  ASSUME NEW n, Map(bucket_, n, element_count_), NEW k \in Key, NEW v \in Value, H!insert(k, v)
  PROVE  \E m : Map(bucket_', m, element_count_')
<1> DEFINE l == Home(k, n)
           s == bucket_[l]
           found == IF s = << >> THEN {} ELSE H!Found(s, k)
           e == [key |-> k, val |-> v]
           table == [bucket_ EXCEPT ![l] = Append(@, e)]
<1>1. /\ l \in 0..n - 1 /\ s \in Seq(Entry) /\ bucket_ \in [0..n - 1 -> Seq(Entry)]
      /\ \A i \in 1..Len(s) : Home(s[i].key, n) = l
      /\ \A j \in Key : Home(j, n) = l => Num(s, j) <= 2
      /\ element_count_ \in Nat
  BY MapParts
<1>2. H!location(k) = l /\ H!bucket_count_ = n
  BY LocationIs
<1>3. IF found # {}
      THEN bucket_' = [bucket_ EXCEPT ![l][H!Min(found)].val = v] /\ element_count_' = element_count_
      ELSE /\ element_count_' = element_count_ + 1
           /\ bucket_' = IF 4 * element_count_' > MaxLoad * n THEN H!rehash(table) ELSE table
  BY <1>2, Zenon DEF H!insert
<1>4. CASE found # {}
  <2> DEFINE i == H!Min(found)
             t == [s EXCEPT ![i].val = v]
  <2>1. s # << >> /\ found = H!Found(s, k)
    BY <1>4
  <2>2. i \in 1..Len(s)
    BY <1>1, <1>4, <2>1, FoundIs
  <2>3. bucket_' = [bucket_ EXCEPT ![l] = t] /\ element_count_' = element_count_
    BY <1>3, <1>4
  <2> HIDE DEF i, found
  <2>4. PICK u : u = t
    OBVIOUS
  <2>5. /\ u \in Seq(Entry) /\ Len(u) = Len(s)
        /\ \A j \in 1..Len(s) : u[j].key = s[j].key
        /\ \A j : Num(u, j) = Num(s, j)
    <3>1. s \in Seq(Entry)
      BY <1>1
    <3>2. u = [s EXCEPT ![i].val = v]
      BY <2>4
    <3> HIDE DEF s, t
    <3>3. u \in Seq(Entry) /\ Len(u) = Len(s)
      BY <2>2, <3>1, <3>2, NewValue
    <3>4. \A j \in 1..Len(s) : u[j].key = s[j].key
      BY <2>2, <3>1, <3>2, NewValue
    <3>5. \A j : Num(u, j) = Num(s, j)
      <4>1. \A j : H!At(u, j) = H!At(s, j)
        BY <3>3, <3>4 DEF H!At
      <4> QED
        BY <4>1 DEF Num
    <3> QED
      BY <3>3, <3>4, <3>5
  <2>6. /\ \A j \in 1..Len(u) : Home(u[j].key, n) = l
        /\ \A j \in Key : Home(j, n) = l => Num(u, j) <= 2
    BY <1>1, <2>5
  <2>7. bucket_' = [bucket_ EXCEPT ![l] = u]
    BY <2>3, <2>4, Zenon
  <2> HIDE DEF t, s, l
  <2>8. Map([bucket_ EXCEPT ![l] = u], n, element_count_ - Len(bucket_[l]) + Len(u))
    BY <1>1, <2>5, <2>6, ChainChanged
  <2>9. element_count_ - Len(bucket_[l]) + Len(u) = element_count_
    <3>1. Len(s) \in Nat
      BY <1>1
    <3>2. element_count_ - Len(s) + Len(u) = element_count_
      BY <1>1, <2>5, <3>1
    <3> QED
      BY <3>2 DEF s
  <2>10. Map(bucket_', n, element_count_')
    BY <2>3, <2>7, <2>8, <2>9, Zenon
  <2> QED
    BY <2>10
<1>5. CASE found = {}
  <2>1. e \in Entry /\ e.key = k
    BY DEF Entry
  <2>2. Num(s, k) <= 1
    <3>1. CASE s = << >>
      BY <3>1, NumEmpty
    <3>2. CASE s # << >>
      BY <1>1, <1>5, <3>2, FoundIs
    <3> QED
      BY <3>1, <3>2
  <2> HIDE DEF e, found
  <2>3. Map(table, n, element_count_ + 1)
    BY <2>1, <2>2, AppendIs
  <2> HIDE DEF table
  <2>4. Map(H!rehash(table), 2 * n, element_count_ + 1)
    BY <2>3, RehashMap
  <2> QED
    BY <1>3, <1>5, <2>3, <2>4, Zenon
<1> QED
  BY <1>4, <1>5

LEMMA EraseHash ==
  ASSUME NEW n, Map(bucket_, n, element_count_), NEW k \in Key, H!erase(k), ~hashCrashed'
  PROVE  \E m : Map(bucket_', m, element_count_')
<1> DEFINE l == Home(k, n)
           s == bucket_[l]
           rs == H!Removed(s, k)
           is == (1..Len(s)) \ rs
           t == H!Kept(s, is)
<1>1. /\ l \in 0..n - 1 /\ s \in Seq(Entry)
      /\ \A i \in 1..Len(s) : Home(s[i].key, n) = l
      /\ \A j \in Key : Home(j, n) = l => Num(s, j) <= 2
      /\ element_count_ \in Nat
  BY MapParts
<1>2. H!location(k) = l
  BY LocationIs
<1>3. /\ s # << >> /\ bucket_' = [bucket_ EXCEPT ![l] = t]
      /\ element_count_' = element_count_ - H!Cardinality(rs)
  BY <1>2, Zenon DEF H!erase
<1>4. rs \subseteq 1..Len(s)
  BY <1>1, <1>3 DEF H!Removed
<1> HIDE DEF rs
<1>5. /\ IsFiniteSet(1..Len(s)) /\ Cardinality(1..Len(s)) = Len(s) /\ Len(s) \in Nat
      /\ IsFiniteSet(rs) /\ Cardinality(rs) \in Nat
  <2>1. IsFiniteSet(1..Len(s)) /\ Cardinality(1..Len(s)) = Len(s) /\ Len(s) \in Nat
    BY <1>1, UpToSize
  <2> QED
    BY <1>4, <2>1, FS_Subset, FS_CardinalityType
<1>6. Cardinality(is) = Len(s) - Cardinality(rs)
  <2>1. Cardinality(is) = Cardinality(1..Len(s)) - Cardinality((1..Len(s)) \cap rs)
    BY <1>5, FS_Difference
  <2>2. (1..Len(s)) \cap rs = rs
    BY <1>4
  <2> QED
    BY <1>5, <2>1, <2>2
<1>7. is \in SUBSET (1..Len(s))
  OBVIOUS
<1> HIDE DEF is
<1>8. /\ t \in Seq(Entry) /\ Len(t) = Cardinality(is)
      /\ \A i \in 1..Len(t) : \E j \in is : t[i] = s[j]
      /\ \A j : Num(t, j) = Cardinality(KeyAt(s, is, j))
  BY <1>1, <1>7, KeptIs
<1> HIDE DEF t
<1>9. \A i \in 1..Len(t) : Home(t[i].key, n) = l
  BY <1>1, <1>7, <1>8
<1>10. \A j \in Key : Home(j, n) = l => Num(t, j) <= 2
  <2> SUFFICES ASSUME NEW j \in Key, Home(j, n) = l PROVE Num(t, j) <= 2
    OBVIOUS
  <2>1. KeyAt(s, is, j) \subseteq H!At(s, j)
    BY <1>7 DEF KeyAt, H!At
  <2>2. IsFiniteSet(H!At(s, j)) /\ Num(s, j) \in Nat
    BY <1>1, AtFinite
  <2>3. Cardinality(KeyAt(s, is, j)) <= Cardinality(H!At(s, j)) /\ Cardinality(KeyAt(s, is, j)) \in Nat
    BY <2>1, <2>2, FS_Subset, FS_CardinalityType
  <2>4. Num(s, j) <= 2
    BY <1>1
  <2> QED
    BY <1>8, <2>2, <2>3, <2>4 DEF Num
<1>11. Map([bucket_ EXCEPT ![l] = t], n, element_count_ - Len(bucket_[l]) + Len(t))
  <2> HIDE DEF s, l
  <2> QED
    BY <1>1, <1>8, <1>9, <1>10, ChainChanged
<1>12. element_count_ - Len(bucket_[l]) + Len(t) = element_count_'
  <2>1. H!Cardinality(rs) = Cardinality(rs)
    BY HashSizeIs
  <2> HIDE DEF s
  <2>2. element_count_ - Len(s) + Len(t) = element_count_'
    BY <1>1, <1>3, <1>5, <1>6, <1>8, <2>1
  <2> QED
    BY <2>2 DEF s
<1>13. Map(bucket_', n, element_count_')
  BY <1>3, <1>11, <1>12, Zenon
<1> QED
  BY <1>13

-----------------------------------------------------------------------------
(* A loop from begin() to end(). *)

\* The places a loop has visited before it comes to q.
Earlier(p, q) == p[1] < q[1] \/ (p[1] = q[1] /\ p[2] < q[2])
Before(q) == {p \in Nodes(bucket_) : Earlier(p, q)}

LEMMA NodeIs ==
  ASSUME NEW n, NEW b, Table(b, n)
  PROVE  /\ \A l \in 0..n - 1 : \A i \in 1..Len(b[l]) : <<l, i>> \in Nodes(b)
         /\ \A p \in Nodes(b) : /\ p[1] \in 0..n - 1 /\ p[2] \in 1..Len(b[p[1]])
                                /\ p = <<p[1], p[2]>>
<1>1. b \in [0..n - 1 -> Seq(Entry)]
  BY DEF Table
<1>2. \A l \in 0..n - 1 : DOMAIN b[l] = 1..Len(b[l])
  BY <1>1
<1>3. Nodes(b) = UNION {{l} \X (1..Len(b[l])) : l \in 0..n - 1}
  BY <1>1, <1>2 DEF Nodes
<1> QED
  BY <1>3

\* The first place from a bucket on: what comes before it are the buckets before.
LEMMA FirstFromIs ==
  ASSUME NEW n, Table(bucket_, n), H!bucket_count_ = n, NEW i \in 0..n
  PROVE  /\ H!FirstFrom(i) \in Nodes(bucket_) \cup {H!end}
         /\ Before(H!FirstFrom(i)) = {p \in Nodes(bucket_) : p[1] < i}
<1> DEFINE b == bucket_
           N == Nodes(b)
           ne == H!NonEmptyFrom(i)
           q == H!FirstFrom(i)
<1>1. n \in Nat \ {0} /\ b \in [0..n - 1 -> Seq(Entry)]
  BY DEF Table
<1>2. ne = {j \in i..n - 1 : b[j] # << >>}
  BY Zenon DEF H!NonEmptyFrom
<1>3. q = IF ne = {} THEN <<n, 0>> ELSE <<H!Min(ne), 1>>
  BY Zenon DEF H!FirstFrom
<1>4. H!end = <<n, 0>>
  BY Zenon DEF H!end
<1>5. \A p \in N : p[1] \in 0..n - 1 /\ p[2] \in 1..Len(b[p[1]])
  BY NodeIs
<1>6. \A p \in N : p[1] < i \/ p[1] \in ne
  BY <1>1, <1>2, <1>5
<1> HIDE DEF ne, q, N, b
<1>7. CASE ne = {}
  <2>1. q = <<n, 0>> /\ q[1] = n
    BY <1>3, <1>7
  <2>2. \A p \in N : p[1] < i /\ p[1] < n
    BY <1>1, <1>5, <1>6, <1>7
  <2>3. Before(q) = N /\ {p \in N : p[1] < i} = N
    BY <2>1, <2>2 DEF Before, Earlier, N, b
  <2> QED
    BY <1>4, <2>1, <2>3 DEF q, N, b
<1>8. CASE ne # {}
  <2> DEFINE m == H!Min(ne)
  <2>1. ne \in SUBSET Nat
    BY <1>1, <1>2
  <2>2. m \in ne /\ \A j \in ne : m <= j
    BY <1>8, <2>1, LeastOf
  <2> HIDE DEF m
  <2>3. q = <<m, 1>> /\ q[1] = m /\ q[2] = 1
    BY <1>3, <1>8 DEF m
  <2>4. m \in 0..n - 1 /\ i <= m /\ b[m] # << >>
    BY <1>1, <1>2, <2>2
  <2>5. 1 \in 1..Len(b[m])
    <3>1. b[m] \in Seq(Entry)
      BY <1>1, <2>4
    <3> QED
      BY <2>4, <3>1
  <2>6. q \in N
    BY <2>3, <2>4, <2>5, NodeIs DEF N, b
  <2>7. ASSUME NEW p \in N PROVE Earlier(p, q) <=> p[1] < i
    <3>1. /\ p[1] \in 0..n - 1 /\ p[2] \in 1..Len(b[p[1]])
          /\ p[1] < i \/ p[1] \in ne
      BY <1>5, <1>6
    <3>2. p[1] \in Nat /\ p[2] \in Nat \ {0} /\ m \in Nat /\ i \in Nat
      BY <1>1, <2>4, <3>1
    <3>3. p[1] \in ne => m <= p[1]
      BY <2>2
    <3>4. Earlier(p, q) <=> (p[1] < m \/ (p[1] = m /\ p[2] < 1))
      BY <2>3 DEF Earlier
    <3>5. ~(p[2] < 1)
      BY <3>2
    <3>6. p[1] \in ne => i <= p[1]
      BY <1>1, <1>2
    <3> QED
      BY <2>4, <3>1, <3>2, <3>3, <3>4, <3>5, <3>6
  <2>8. Before(q) = {p \in N : p[1] < i}
    BY <2>7 DEF Before, N, b
  <2> QED
    BY <2>6, <2>8 DEF q, N, b
<1> QED
  BY <1>7, <1>8

\* One step of a loop: what comes before is one place more.
LEMMA AdvanceIs ==
  ASSUME NEW n, Table(bucket_, n), H!bucket_count_ = n, NEW p \in Nodes(bucket_)
  PROVE  /\ H!advance(p) \in Nodes(bucket_) \cup {H!end}
         /\ Before(H!advance(p)) = Before(p) \cup {p}
         /\ p \notin Before(p)
<1> DEFINE b == bucket_
           N == Nodes(b)
           l == p[1]
           i == p[2]
<1>1. n \in Nat \ {0} /\ b \in [0..n - 1 -> Seq(Entry)]
  BY DEF Table
<1>2. \A r \in N : r[1] \in 0..n - 1 /\ r[2] \in 1..Len(b[r[1]]) /\ r = <<r[1], r[2]>>
  BY NodeIs
<1>3. l \in 0..n - 1 /\ i \in 1..Len(b[l]) /\ p = <<l, i>> /\ Len(b[l]) \in Nat
  BY <1>1, <1>2
<1>4. p # H!end
  <2>1. H!end[1] = n
    BY DEF H!end
  <2> QED
    BY <1>1, <1>3, <2>1
<1>5. H!advance(p) = IF i < Len(b[l]) THEN <<l, i + 1>> ELSE H!FirstFrom(l + 1)
  BY <1>4, Zenon DEF H!advance
<1>6. p \notin Before(p)
  BY <1>1, <1>3 DEF Before, Earlier
<1> HIDE DEF N, b, l, i
<1>7. \A r \in N : /\ r[1] \in Nat /\ r[2] \in Nat /\ r = <<r[1], r[2]>>
                   /\ r[1] = l => r[2] <= Len(b[l])
  BY <1>1, <1>2
<1>8. l \in Nat /\ i \in Nat /\ p[1] = l /\ p[2] = i
  BY <1>1, <1>3 DEF l, i
<1>9. CASE i < Len(b[l])
  <2> DEFINE q == <<l, i + 1>>
  <2>1. q \in N
    <3>1. i + 1 \in 1..Len(b[l])
      BY <1>3, <1>8, <1>9
    <3> QED
      BY <1>3, <3>1, NodeIs DEF N, b
  <2>2. q[1] = l /\ q[2] = i + 1
    OBVIOUS
  <2> HIDE DEF q
  <2>3. ASSUME NEW r \in N PROVE Earlier(r, q) <=> Earlier(r, p) \/ r = p
    BY <1>3, <1>7, <1>8, <2>2 DEF Earlier
  <2>4. Before(q) = Before(p) \cup {p}
    BY <2>3 DEF Before, N, b
  <2>5. H!advance(p) = q
    BY <1>5, <1>9 DEF q
  <2> QED
    BY <1>6, <2>1, <2>4, <2>5 DEF N, b
<1>10. CASE ~(i < Len(b[l]))
  <2>1. l + 1 \in 0..n /\ i = Len(b[l])
    BY <1>1, <1>3, <1>8, <1>10
  <2>2. /\ H!FirstFrom(l + 1) \in N \cup {H!end}
        /\ Before(H!FirstFrom(l + 1)) = {r \in N : r[1] < l + 1}
    BY <2>1, FirstFromIs DEF N, b
  <2>3. ASSUME NEW r \in N PROVE r[1] < l + 1 <=> Earlier(r, p) \/ r = p
    BY <1>3, <1>7, <1>8, <2>1 DEF Earlier
  <2>4. {r \in N : r[1] < l + 1} = Before(p) \cup {p}
    BY <2>3 DEF Before, N, b
  <2>5. H!advance(p) = H!FirstFrom(l + 1)
    BY <1>5, <1>10
  <2> QED
    BY <1>6, <2>2, <2>4, <2>5 DEF N, b
<1> QED
  BY <1>9, <1>10

\* The equation Visit is chosen for has a solution.
IsVisit(f) == f = [k \in Nat |-> IF k = 0 THEN H!begin ELSE H!advance(f[k - 1])]

LEMMA VisitIs ==
  ASSUME NEW n \in Nat \ {0}, H!bucket_count_ = n
  PROVE  H!Visit[0] = H!begin /\ \A k \in Nat : H!Visit[k + 1] = H!advance(H!Visit[k])
<1> DEFINE S == (0..n) \X Nat
           F == [p \in S |-> H!advance(p)]
<1>1. \A i \in Nat : H!FirstFrom(i) \in S
  <2> SUFFICES ASSUME NEW i \in Nat PROVE H!FirstFrom(i) \in S
    OBVIOUS
  <2> DEFINE ne == H!NonEmptyFrom(i)
  <2>1. ne \subseteq 0..n /\ ne \in SUBSET Nat
    BY DEF H!NonEmptyFrom
  <2>2. H!FirstFrom(i) = IF ne = {} THEN <<n, 0>> ELSE <<H!Min(ne), 1>>
    BY Zenon DEF H!FirstFrom
  <2> HIDE DEF ne
  <2>3. ne # {} => H!Min(ne) \in 0..n
    BY <2>1, LeastOf
  <2> QED
    BY <2>2, <2>3
<1>2. \A p \in S : H!advance(p) \in S
  <2> SUFFICES ASSUME NEW p \in S PROVE H!advance(p) \in S
    OBVIOUS
  <2>1. p[1] \in Nat /\ p[2] \in Nat /\ p[1] + 1 \in Nat /\ <<p[1], p[2] + 1>> \in S
    OBVIOUS
  <2>2. H!FirstFrom(p[1] + 1) \in S
    BY <1>1, <2>1
  <2> HIDE DEF S
  <2> QED
    BY <2>1, <2>2 DEF H!advance
<1>3. H!begin \in S
  BY <1>1 DEF H!begin
<1>4. F \in [S -> S]
  BY <1>2
<1>5. \A p \in S : F[p] = H!advance(p)
  OBVIOUS
<1> HIDE DEF F, S
<1>6. PICK f : /\ f = [k \in Nat |-> f[k]]
               /\ f[0] = H!begin
               /\ \A k \in Nat : f[k] \in S
               /\ \A k \in Nat : k # 0 => f[k] = F[f[k - 1]]
  BY <1>3, <1>4, IterWithin
<1>7. \A k \in Nat : f[k] = IF k = 0 THEN H!begin ELSE H!advance(f[k - 1])
  <2>1. \A k \in Nat : k # 0 => k - 1 \in Nat
    OBVIOUS
  <2> QED
    BY <1>5, <1>6, <2>1
<1>8. IsVisit(f)
  BY <1>6, <1>7, Zenon DEF IsVisit
<1> DEFINE w == CHOOSE w : IsVisit(w)
<1>9. IsVisit(w)
  BY <1>8, Zenon
<1>10. H!Visit = w
  BY Zenon DEF H!Visit, IsVisit
<1> HIDE DEF w
<1>11. \A k \in Nat : w[k] = IF k = 0 THEN H!begin ELSE H!advance(w[k - 1])
  BY <1>9, Zenon DEF IsVisit
<1>12. \A k \in Nat : k + 1 \in Nat /\ k + 1 # 0 /\ (k + 1) - 1 = k
  OBVIOUS
<1>13. w[0] = H!begin /\ \A k \in Nat : w[k + 1] = H!advance(w[k])
  BY <1>11, <1>12
<1> QED
  BY <1>10, <1>13

\* A loop visits every place once, and then has come to the end.
LEMMA VisitsAll ==
  ASSUME NEW n, NEW c, Map(bucket_, n, c)
  PROVE  {H!Visit[k] : k \in 0..c - 1} = Nodes(bucket_) /\ H!Visit[c] = H!end
<1> DEFINE N == Nodes(bucket_)
           V(k) == {H!Visit[j] : j \in 0..k - 1}
           Good(k) == /\ H!Visit[k] \in N \cup {H!end}
                      /\ Before(H!Visit[k]) = V(k)
                      /\ Cardinality(V(k)) = k /\ IsFiniteSet(V(k))
           T == {k \in Nat : k <= c => Good(k)}
<1>1. /\ n \in Nat \ {0} /\ 0 \in 0..n /\ H!bucket_count_ = n
      /\ Table(bucket_, n) /\ bucket_ \in [0..n - 1 -> Seq(Entry)]
  BY LocationIs, MapParts DEF Map
<1>2. c \in Nat /\ c = Cardinality(N) /\ IsFiniteSet(N)
  BY <1>1, MapParts, BelowFinite
<1>3. H!Visit[0] = H!begin /\ \A k \in Nat : H!Visit[k + 1] = H!advance(H!Visit[k])
  BY <1>1, VisitIs
<1>4. \A p \in N : p[1] \in 0..n - 1
  BY <1>1, NodeIs
<1>5. Before(H!end) = N
  <2>1. H!end[1] = n
    BY <1>1 DEF H!end
  <2>2. \A p \in N : p[1] < H!end[1]
    BY <1>1, <1>4, <2>1
  <2> QED
    BY <2>2 DEF Before, Earlier
<1>6. 0 \in T
  <2>1. H!Visit[0] \in N \cup {H!end} /\ Before(H!Visit[0]) = {p \in N : p[1] < 0}
    BY <1>1, <1>3, FirstFromIs DEF H!begin
  <2>2. {p \in N : p[1] < 0} = {} /\ V(0) = {}
    BY <1>1, <1>4
  <2>3. Cardinality(V(0)) = 0 /\ IsFiniteSet(V(0))
    BY <2>2, FS_EmptySet
  <2> QED
    BY <2>1, <2>2, <2>3
<1>7. ASSUME NEW k \in Nat, k \in T PROVE k + 1 \in T
  <2> DEFINE p == H!Visit[k]
  <2> SUFFICES ASSUME k + 1 <= c PROVE Good(k + 1)
    OBVIOUS
  <2>1. k <= c /\ k # c /\ k + 1 \in Nat
    BY <1>2
  <2>2. /\ p \in N \cup {H!end} /\ Before(p) = V(k)
        /\ Cardinality(V(k)) = k /\ IsFiniteSet(V(k))
    BY <1>7, <2>1
  <2>3. p # H!end
    BY <1>2, <1>5, <2>1, <2>2
  <2>4. V(k + 1) = V(k) \cup {p}
    <3>1. 0..(k + 1) - 1 = (0..k - 1) \cup {k}
      OBVIOUS
    <3> QED
      BY <3>1
  <2>5. H!Visit[k + 1] = H!advance(p)
    BY <1>3
  <2> HIDE DEF p, V, N
  <2>6. /\ H!advance(p) \in N \cup {H!end} /\ Before(H!advance(p)) = Before(p) \cup {p}
        /\ p \notin Before(p)
    BY <1>1, <2>2, <2>3, AdvanceIs DEF N
  <2>7. Cardinality(V(k) \cup {p}) = k + 1 /\ IsFiniteSet(V(k) \cup {p})
    BY <2>2, <2>6, FS_AddElement
  <2> QED
    BY <2>2, <2>4, <2>5, <2>6, <2>7
<1>8. Nat \subseteq T
  <2> HIDE DEF T
  <2> QED
    BY <1>6, <1>7, SetInduction
<1>9. Good(c)
  <2>1. c \in T /\ c <= c
    <3> HIDE DEF T
    <3> QED
      BY <1>2, <1>8
  <2> HIDE DEF Good
  <2> QED
    BY <2>1
<1> HIDE DEF V
<1>10. H!Visit[c] = H!end
  <2> SUFFICES ASSUME H!Visit[c] \in N PROVE FALSE
    BY <1>9
  <2> DEFINE p == H!Visit[c]
  <2>1. p \notin V(c) /\ V(c) \subseteq N
    BY <1>1, <1>9, AdvanceIs DEF Before
  <2>2. V(c) = N
    BY <1>2, <1>9, <2>1, FS_Subset
  <2> QED
    BY <2>1, <2>2
<1> QED
  BY <1>5, <1>9, <1>10 DEF V

LEMMA HashInvSafe == HInv => H!HashMapSafe
<1> SUFFICES ASSUME HInv, ~hashCrashed PROVE H!HashMapSafe
  BY DEF H!HashMapSafe
<1>1. PICK n : Map(bucket_, n, element_count_)
  BY DEF HInv
<1>2. H!bucket_count_ = n /\ \A k : H!location(k) = Home(k, n)
  BY <1>1, LocationIs
<1>3. /\ bucket_ \in [0..n - 1 -> Seq(Entry)] /\ DOMAIN bucket_ = 0..n - 1
      /\ \A m \in 0..n - 1 : \A i \in 1..Len(bucket_[m]) : Home(bucket_[m][i].key, n) = m
      /\ \A k \in Key : Num(bucket_[Home(k, n)], k) <= 2
      /\ element_count_ = Cardinality(Nodes(bucket_))
  BY <1>1, MapParts
<1>4. \A l \in DOMAIN bucket_ : \A i \in DOMAIN bucket_[l] : H!location(bucket_[l][i].key) = l
  BY <1>2, <1>3
<1>5. H!Places = Nodes(bucket_)
  BY Zenon DEF H!Places, Nodes
<1>6. element_count_ = H!Cardinality(H!Places)
  BY <1>3, <1>5, HashSizeIs
<1>7. \A k \in Key : H!Cardinality(H!At(bucket_[H!location(k)], k)) <= 2
  BY <1>2, <1>3, HashSizeIs, Zenon DEF Num
<1>8. {H!Visit[k] : k \in 0..element_count_ - 1} = H!Places /\ H!Visit[element_count_] = H!end
  BY <1>1, <1>5, VisitsAll
<1> QED
  BY <1>4, <1>6, <1>7, <1>8, Zenon DEF H!HashMapSafe

LEMMA HashInvStep ==
  ASSUME HInv, [H!Next]_(H!vars)
  PROVE  HInv'
<1>1. CASE UNCHANGED H!vars
  BY <1>1 DEF H!vars, HInv
<1>2. CASE H!Next
  <2>1. ~hashCrashed
    BY <1>2 DEF H!Next
  <2>2. PICK n : Map(bucket_, n, element_count_)
    BY <2>1 DEF HInv
  <2>3. ASSUME NEW k \in Key, NEW v \in Value, H!insert(k, v) PROVE HInv'
    BY <2>2, <2>3, InsertHash DEF HInv
  <2>4. ASSUME NEW k \in Key, H!erase(k) PROVE HInv'
    BY <2>2, <2>4, EraseHash DEF HInv
  <2>5. CASE H!clear
    BY <2>2, <2>5, ClearHash DEF HInv
  <2> QED
    BY <1>2, <2>3, <2>4, <2>5 DEF H!Next
<1> QED
  BY <1>1, <1>2

\* Whatever the order of inserts, erases, rehashes and clears, until a null pointer
\* is read: every node is in the bucket of its key, the count is that of the nodes,
\* no key is there more than twice, and a loop from begin() to end() visits every
\* node once (hashmap.h:47, 79, 190, 210).
THEOREM HashMapSafeAlways == Spec => []HashMapSafe
<1>1. Init => HInv
  BY HashInvInit DEF Init
<1>2. HInv /\ [Next]_vars => HInv'
  <2>1. [Next]_vars => [H!Next]_(H!vars)
    BY DEF Next, vars, deque, list, hash, shared, tree, avl, H!vars
  <2> QED
    BY <2>1, HashInvStep
<1>3. HInv => HashMapSafe
  BY HashInvSafe DEF HashMapSafe
<1> QED
  BY <1>1, <1>2, <1>3, PTL DEF Spec

-----------------------------------------------------------------------------
(* BinaryTreeMap.  A node of the tree t holds the set sub[n] of nodes, and  *)
(* pos orders all nodes of the tree from left to right.                     *)

Lower(sub, pos, n) == {m \in sub[n] : pos[m] < pos[n]}
Upper(sub, pos, n) == {m \in sub[n] : pos[n] < pos[m]}

Injective(t, pos) == \A m, n \in t : pos[m] = pos[n] => m = n
Nested(t, sub) == \A n \in t : n \in sub[n] /\ \A m \in sub[n] : sub[m] \subseteq sub[n]

\* A node lies on one side of all that another holds, if it is not one of them.
OneSide(t, sub, pos) ==
  \A n \in t : \A m \in t \ sub[n] : \A x, y \in sub[n] : pos[m] < pos[x] => pos[m] < pos[y]

Ordered(t, sub, pos) ==
  /\ t \subseteq Node /\ sub \in [t -> SUBSET t] /\ pos \in [t -> Int]
  /\ Injective(t, pos) /\ Nested(t, sub) /\ OneSide(t, sub, pos)

\* The child c of n holds s, and is linked back.
Hangs(t, sub, pa, n, c, s) == \/ c = null /\ s = {}
                              \/ c \in t /\ sub[c] = s /\ pa[c] = n

Hung(t, sub, pos, lf, rg, pa) ==
  \A n \in t : /\ Hangs(t, sub, pa, n, lf[n], Lower(sub, pos, n))
               /\ Hangs(t, sub, pa, n, rg[n], Upper(sub, pos, n))

\* Whatever hangs below a node, its parent does too, and is linked to it.
Climbs(t, sub, lf, rg, pa) ==
  \A n \in t : /\ pa[n] # null => pa[n] \in t /\ n \in {lf[pa[n]], rg[pa[n]]}
               /\ \A x \in sub[n] \ {n} : pa[x] \in sub[n]

Rooted(t, sub, rt, pa) == IF rt = null THEN t = {}
                          ELSE rt \in t /\ sub[rt] = t /\ pa[rt] = null

Sorted(t, pos, ky) == \A n \in t : /\ ky[n] \in OrderedKey
                                   /\ \A m \in t : pos[m] < pos[n] => ky[m] <= ky[n]

IsTree(rt, ky, lf, rg, pa, t, sub, pos) ==
  /\ Ordered(t, sub, pos) /\ Hung(t, sub, pos, lf, rg, pa) /\ Climbs(t, sub, lf, rg, pa)
  /\ Rooted(t, sub, rt, pa) /\ Sorted(t, pos, ky)

\* Links lead to lower ranks: not even what was cut off is a cycle.
Ranked(lf, rg, r, b) ==
  /\ b \in Nat /\ r \in [Node -> 0..b]
  /\ \A n \in Node : /\ lf[n] # null => r[lf[n]] < r[n]
                     /\ rg[n] # null => r[rg[n]] < r[n]

\* No node links to one that was deleted, nor one that was cut off to the tree.
Cut(t, lf, rg, lv) == /\ \A n \in Node : {lf[n], rg[n]} \subseteq lv \cup {null}
                      /\ \A n \in Node \ t : lf[n] \notin t /\ rg[n] \notin t

Fields(rt, ky, lf, rg, pa, lv, t) ==
  /\ rt \in Node \cup {null} /\ t \subseteq lv /\ lv \subseteq Node /\ IsFiniteSet(t)
  /\ ky = [n \in Node |-> ky[n]]
  /\ lf \in [Node -> Node \cup {null}] /\ rg \in [Node -> Node \cup {null}]
  /\ pa \in [Node -> Node \cup {null}]

TState(rt, ky, lf, rg, pa, lv, t, sub, pos, r, b) ==
  /\ Fields(rt, ky, lf, rg, pa, lv, t) /\ Cut(t, lf, rg, lv) /\ Ranked(lf, rg, r, b)
  /\ IsTree(rt, ky, lf, rg, pa, t, sub, pos)

TreeNow(t, sub, pos, r, b) == TState(root, key, left, right, parent, live, t, sub, pos, r, b)

TInv == \E t, sub, pos, r, b : TreeNow(t, sub, pos, r, b)

\* What holds of an element of s when it holds of all elements of less rank
\* holds of all of s.
LEMMA RankInduction ==
  ASSUME NEW s, NEW r \in [s -> Nat], NEW good \in SUBSET s,
         \A x \in s : (\A y \in s : r[y] < r[x] => y \in good) => x \in good
  PROVE  s = good
<1> DEFINE T == {k \in Nat : \A x \in s : r[x] < k => x \in good}
<1>1. 0 \in T
  OBVIOUS
<1>2. ASSUME NEW k \in Nat, k \in T PROVE k + 1 \in T
  <2> SUFFICES ASSUME NEW x \in s, r[x] < k + 1 PROVE x \in good
    OBVIOUS
  <2>1. \A y \in s : r[y] < r[x] => r[y] < k
    OBVIOUS
  <2> QED
    BY <1>2, <2>1
<1> HIDE DEF T
<1>3. Nat \subseteq T
  BY <1>1, <1>2, SetInduction
<1>4. ASSUME NEW x \in s PROVE x \in good
  <2>1. r[x] + 1 \in Nat /\ r[x] < r[x] + 1
    OBVIOUS
  <2>2. r[x] + 1 \in T
    BY <1>3, <2>1
  <2> QED
    BY <2>1, <2>2 DEF T
<1> QED
  BY <1>4

\* What step makes of a function at x depends on its values of less rank.
Agree(f, g, s, r, x) == \A y \in s : r[y] < r[x] => f[y] = g[y]
Descends(step, s, v, r) ==
  \A x \in s : \A f, g \in [s -> v] : Agree(f, g, s, r, x) => step[x][f] = step[x][g]

Recursive(step, s, v, r, b) ==
  /\ b \in Nat /\ r \in [s -> 0..b] /\ v # {}
  /\ step \in [s -> [[s -> v] -> v]] /\ Descends(step, s, v, r)

Solution(f, step, s, v) == f \in [s -> v] /\ \A x \in s : f[x] = step[x][f]

\* The function that a step defines by recursion exists.
LEMMA RecursionExists ==
  ASSUME NEW step, NEW s, NEW v, NEW r, NEW b, Recursive(step, s, v, r, b)
  PROVE  \E f : Solution(f, step, s, v)
<1> DEFINE Good(k) == \E f \in [s -> v] : \A x \in s : r[x] < k => f[x] = step[x][f]
           T == {k \in Nat : Good(k)}
<1>0. /\ b \in Nat /\ r \in [s -> 0..b] /\ v # {}
      /\ step \in [s -> [[s -> v] -> v]] /\ Descends(step, s, v, r)
  BY DEF Recursive
<1>1. 0 \in T
  <2>1. PICK w \in v : TRUE
    BY <1>0
  <2>2. [x \in s |-> w] \in [s -> v]
    OBVIOUS
  <2>3. \A x \in s : ~(r[x] < 0)
    BY <1>0
  <2> QED
    BY <2>2, <2>3
<1>2. ASSUME NEW k \in Nat, k \in T PROVE k + 1 \in T
  <2>1. PICK f \in [s -> v] : \A x \in s : r[x] < k => f[x] = step[x][f]
    BY <1>2
  <2> DEFINE g == [x \in s |-> step[x][f]]
  <2>2. g \in [s -> v] /\ \A x \in s : g[x] = step[x][f]
    BY <1>0
  <2> HIDE DEF g
  <2>3. ASSUME NEW x \in s, r[x] < k + 1 PROVE g[x] = step[x][g]
    <3>1. \A y \in s : r[y] < r[x] => r[y] < k
      BY <1>0, <2>3
    <3>2. \A y \in s : r[y] < r[x] => f[y] = g[y]
      BY <2>1, <2>2, <3>1
    <3>3. step[x][f] = step[x][g]
      BY <1>0, <2>1, <2>2, <3>2, Zenon DEF Descends, Agree
    <3> QED
      BY <2>2, <3>3
  <2>4. Good(k + 1)
    BY <2>2, <2>3
  <2> QED
    BY <2>4
<1>3. b + 1 \in T
  <2> HIDE DEF T
  <2> QED
    BY <1>0, <1>1, <1>2, SetInduction
<1>4. \A x \in s : r[x] < b + 1
  BY <1>0
<1> QED
  BY <1>3, <1>4 DEF Solution

IsMinn(f) == f = [n \in Node |-> IF left[n] = null THEN n ELSE f[left[n]]]

LEMMA MinnStep ==
  ASSUME NEW r, NEW b, Ranked(left, right, r, b), left \in [Node -> Node \cup {null}], Node # {}
  PROVE  \A n \in Node : M!minn[n] = IF left[n] = null THEN n ELSE M!minn[left[n]]
<1> DEFINE step == [n \in Node |-> [f \in [Node -> Node] |->
                                    IF left[n] = null THEN n ELSE f[left[n]]]]
<1>1. b \in Nat /\ r \in [Node -> 0..b] /\ \A n \in Node : left[n] # null => r[left[n]] < r[n]
  BY DEF Ranked
<1>2. step \in [Node -> [[Node -> Node] -> Node]]
  OBVIOUS
<1>3. \A n \in Node : \A f \in [Node -> Node] :
        step[n][f] = IF left[n] = null THEN n ELSE f[left[n]]
  BY Zenon
<1> HIDE DEF step
<1>4. Descends(step, Node, Node, r)
  BY <1>1, <1>3 DEF Descends, Agree
<1>5. PICK f : Solution(f, step, Node, Node)
  <2>1. Recursive(step, Node, Node, r, b)
    BY <1>1, <1>2, <1>4, Zenon DEF Recursive
  <2> QED
    BY <2>1, RecursionExists, Zenon
<1>6. f = [n \in Node |-> IF left[n] = null THEN n ELSE f[left[n]]]
  BY <1>3, <1>5 DEF Solution
<1>7. IsMinn(f)
  BY <1>6, Zenon DEF IsMinn
<1> DEFINE w == CHOOSE w : IsMinn(w)
<1>8. IsMinn(w)
  BY <1>7, Zenon
<1>9. M!minn = w
  BY Zenon DEF M!minn, IsMinn
<1> HIDE DEF w
<1> QED
  BY <1>8, <1>9, Zenon DEF IsMinn

IsClimb(f) ==
  f = [n \in Node |-> IF parent[n] # null /\ n = right[parent[n]] THEN f[parent[n]] ELSE parent[n]]

LEMMA ClimbStep ==
  ASSUME NEW r, NEW b, Ranked(left, right, r, b), parent \in [Node -> Node \cup {null}]
  PROVE  \A n \in Node : M!Climb[n] = IF parent[n] # null /\ n = right[parent[n]]
                                      THEN M!Climb[parent[n]] ELSE parent[n]
<1> DEFINE V == Node \cup {null}
           turns(n) == parent[n] # null /\ n = right[parent[n]]
           step == [n \in Node |-> [f \in [Node -> V] |->
                                    IF turns(n) THEN f[parent[n]] ELSE parent[n]]]
           h == [n \in Node |-> b - r[n]]
<1>0. V # {}
  OBVIOUS
<1>1. b \in Nat /\ r \in [Node -> 0..b] /\ \A n \in Node : right[n] # null => r[right[n]] < r[n]
  BY DEF Ranked
<1>2. step \in [Node -> [[Node -> V] -> V]]
  OBVIOUS
<1>3. \A n \in Node : \A f \in [Node -> V] :
        step[n][f] = IF turns(n) THEN f[parent[n]] ELSE parent[n]
  BY Zenon
<1>4. h \in [Node -> 0..b]
  BY <1>1
<1>5. \A n \in Node : turns(n) => parent[n] \in Node /\ h[parent[n]] < h[n]
  <2> SUFFICES ASSUME NEW n \in Node, turns(n)
               PROVE  parent[n] \in Node /\ h[parent[n]] < h[n]
    OBVIOUS
  <2>1. parent[n] \in Node /\ right[parent[n]] = n /\ n # null
    BY ContainersAssumption DEF ContainersAssumption, M!BinaryTreeMapAssumption
  <2>2. r[n] < r[parent[n]]
    BY <1>1, <2>1
  <2> QED
    BY <1>1, <2>1, <2>2
<1> HIDE DEF step, h, V
<1>6. Descends(step, Node, V, h)
  BY <1>3, <1>5 DEF Descends, Agree
<1>7. PICK f : Solution(f, step, Node, V)
  <2>1. Recursive(step, Node, V, h, b)
    BY <1>0, <1>1, <1>2, <1>4, <1>6, Zenon DEF Recursive
  <2> QED
    BY <2>1, RecursionExists, Zenon
<1>8. f = [n \in Node |-> IF turns(n) THEN f[parent[n]] ELSE parent[n]]
  BY <1>3, <1>7 DEF Solution
<1>9. IsClimb(f)
  BY <1>8, Zenon DEF IsClimb
<1> DEFINE w == CHOOSE w : IsClimb(w)
<1>10. IsClimb(w)
  BY <1>9, Zenon
<1>11. M!Climb = w
  BY Zenon DEF M!Climb, IsClimb
<1> HIDE DEF w
<1> QED
  BY <1>10, <1>11, Zenon DEF IsClimb

\* Ranks of pointers: null has the least.
PRank(r) == [n \in Node \cup {null} |-> IF n = null THEN 0 ELSE r[n] + 1]

LinksOfNodes == /\ left \in [Node -> Node \cup {null}]
                /\ right \in [Node -> Node \cup {null}]

LEMMA PointerRank ==
  ASSUME NEW r, NEW b, Ranked(left, right, r, b), LinksOfNodes
  PROVE  /\ b + 1 \in Nat /\ PRank(r) \in [Node \cup {null} -> 0..b + 1]
         /\ \A n \in Node : PRank(r)[left[n]] < PRank(r)[n] /\ PRank(r)[right[n]] < PRank(r)[n]
<1>1. /\ b \in Nat /\ r \in [Node -> 0..b]
      /\ \A n \in Node : /\ left[n] # null => r[left[n]] < r[n]
                         /\ right[n] # null => r[right[n]] < r[n]
  BY DEF Ranked
<1>2. null \notin Node
  BY ContainersAssumption DEF ContainersAssumption, M!BinaryTreeMapAssumption
<1>3. PRank(r)[null] = 0 /\ \A n \in Node : PRank(r)[n] = r[n] + 1
  BY <1>2 DEF PRank
<1>4. PRank(r) \in [Node \cup {null} -> 0..b + 1]
  <2>1. \A n \in Node \cup {null} : (IF n = null THEN 0 ELSE r[n] + 1) \in 0..b + 1
    <3>0. b \in Nat /\ r \in [Node -> 0..b]
      BY <1>1
    <3>1. \A x \in 0..b : x + 1 \in 0..b + 1
      BY <3>0
    <3>2. 0 \in 0..b + 1
      BY <3>0
    <3> QED
      BY <3>0, <3>1, <3>2
  <2> QED
    BY <2>1 DEF PRank
<1>5. ASSUME NEW n \in Node, NEW c \in Node \cup {null}, c # null => r[c] < r[n]
      PROVE  PRank(r)[c] < PRank(r)[n]
  BY <1>1, <1>3, <1>5
<1> QED
  BY <1>1, <1>4, <1>5 DEF LinksOfNodes

Sought(f, k, n) == IF n = null THEN null
                   ELSE IF k < key[n] THEN f[left[n]]
                   ELSE IF k > key[n] THEN f[right[n]]
                   ELSE n

IsSearch(f, k) == f = [n \in Node \cup {null} |-> Sought(f, k, n)]

LEMMA SearchExists ==
  ASSUME NEW k, NEW r, NEW b, Ranked(left, right, r, b), LinksOfNodes
  PROVE  \E f : M!find(k) = f[root] /\ \A n \in Node \cup {null} : f[n] = Sought(f, k, n)
<1> DEFINE V == Node \cup {null}
           step == [n \in V |-> [f \in [V -> V] |-> Sought(f, k, n)]]
<1>1. /\ b + 1 \in Nat /\ PRank(r) \in [V -> 0..b + 1] /\ V # {}
      /\ \A n \in Node : PRank(r)[left[n]] < PRank(r)[n] /\ PRank(r)[right[n]] < PRank(r)[n]
  BY PointerRank DEF LinksOfNodes
<1>2. step \in [V -> [[V -> V] -> V]]
  BY DEF Sought, LinksOfNodes
<1>3. \A n \in V : \A f \in [V -> V] : step[n][f] = Sought(f, k, n)
  BY Zenon
<1> HIDE DEF step
<1>4. Descends(step, V, V, PRank(r))
  <2>1. ASSUME NEW n \in V, NEW f \in [V -> V], NEW g \in [V -> V],
               Agree(f, g, V, PRank(r), n)
        PROVE  Sought(f, k, n) = Sought(g, k, n)
    <3>1. n # null => f[left[n]] = g[left[n]] /\ f[right[n]] = g[right[n]]
      BY <1>1, <2>1 DEF LinksOfNodes, Agree
    <3> QED
      BY <3>1, Zenon DEF Sought
  <2> HIDE DEF V
  <2> QED
    BY <1>3, <2>1 DEF Descends
<1> HIDE DEF V
<1>5. PICK f : Solution(f, step, V, V)
  <2>1. Recursive(step, V, V, PRank(r), b + 1)
    BY <1>1, <1>2, <1>4, Zenon DEF Recursive
  <2> QED
    BY <2>1, RecursionExists, Zenon
<1>6. f = [n \in V |-> Sought(f, k, n)]
  BY <1>3, <1>5 DEF Solution
<1>7. IsSearch(f, k)
  BY <1>6, Zenon DEF IsSearch, V
<1> DEFINE w == CHOOSE w : IsSearch(w, k)
<1>8. IsSearch(w, k)
  BY <1>7, Zenon
<1>9. M!find(k) = w[root]
  BY Zenon DEF M!find, IsSearch, Sought, M!Pointer
<1> HIDE DEF w
<1> QED
  BY <1>8, <1>9, Zenon DEF IsSearch

Side(k, n) == IF k < key[n] THEN left[n] ELSE right[n]
IsLast(f, k) == f = [n \in Node |-> IF Side(k, n) = null THEN n ELSE f[Side(k, n)]]

LEMMA LastExists ==
  ASSUME NEW k, NEW r, NEW b, Ranked(left, right, r, b), LinksOfNodes, Node # {}
  PROVE  \E f : /\ M!helper1(k) = f[root]
                /\ \A n \in Node : f[n] = IF Side(k, n) = null THEN n ELSE f[Side(k, n)]
<1> DEFINE step == [n \in Node |-> [f \in [Node -> Node] |->
                      IF Side(k, n) = null THEN n ELSE f[Side(k, n)]]]
<1>1. b \in Nat /\ r \in [Node -> 0..b]
  BY DEF Ranked
<1>2. \A n \in Node : Side(k, n) \in Node \cup {null} /\ (Side(k, n) # null => r[Side(k, n)] < r[n])
  BY DEF Ranked, Side, LinksOfNodes
<1>3. step \in [Node -> [[Node -> Node] -> Node]]
  BY <1>2
<1>4. \A n \in Node : \A f \in [Node -> Node] :
        step[n][f] = IF Side(k, n) = null THEN n ELSE f[Side(k, n)]
  BY Zenon
<1> HIDE DEF step
<1>5. Descends(step, Node, Node, r)
  BY <1>2, <1>4 DEF Descends, Agree
<1>6. PICK f : Solution(f, step, Node, Node)
  <2>1. Recursive(step, Node, Node, r, b)
    BY <1>1, <1>3, <1>5, Zenon DEF Recursive
  <2> QED
    BY <2>1, RecursionExists, Zenon
<1>7. f = [n \in Node |-> IF Side(k, n) = null THEN n ELSE f[Side(k, n)]]
  BY <1>4, <1>6 DEF Solution
<1>8. IsLast(f, k)
  BY <1>7, Zenon DEF IsLast
<1> DEFINE w == CHOOSE w : IsLast(w, k)
<1>9. IsLast(w, k)
  BY <1>8, Zenon
<1>10. M!helper1(k) = w[root]
  BY Zenon DEF M!helper1, IsLast, Side
<1> HIDE DEF w
<1> QED
  BY <1>9, <1>10, Zenon DEF IsLast

HeldOf(f, n) == IF n = null THEN {} ELSE {n} \cup f[left[n]] \cup f[right[n]]
IsBelow(f) == f = [n \in Node \cup {null} |-> HeldOf(f, n)]

LEMMA BelowStep ==
  ASSUME NEW r, NEW b, Ranked(left, right, r, b), LinksOfNodes
  PROVE  \A n \in Node \cup {null} :
           M!Below[n] = IF n = null THEN {} ELSE {n} \cup M!Below[left[n]] \cup M!Below[right[n]]
<1> DEFINE S == Node \cup {null}
           V == SUBSET Node
           step == [n \in S |-> [f \in [S -> V] |-> HeldOf(f, n)]]
<1>1. /\ b + 1 \in Nat /\ PRank(r) \in [S -> 0..b + 1] /\ V # {}
      /\ \A n \in Node : PRank(r)[left[n]] < PRank(r)[n] /\ PRank(r)[right[n]] < PRank(r)[n]
  BY PointerRank DEF LinksOfNodes
<1>2. step \in [S -> [[S -> V] -> V]]
  <2>1. ASSUME NEW n \in S, NEW f \in [S -> V] PROVE HeldOf(f, n) \in V
    BY DEF HeldOf, LinksOfNodes
  <2> HIDE DEF S, V
  <2> QED
    BY <2>1
<1>3. \A n \in S : \A f \in [S -> V] : step[n][f] = HeldOf(f, n)
  BY Zenon
<1> HIDE DEF step
<1>4. Descends(step, S, V, PRank(r))
  <2>1. ASSUME NEW n \in S, NEW f \in [S -> V], NEW g \in [S -> V],
               Agree(f, g, S, PRank(r), n)
        PROVE  HeldOf(f, n) = HeldOf(g, n)
    <3>1. n # null => f[left[n]] = g[left[n]] /\ f[right[n]] = g[right[n]]
      BY <1>1, <2>1 DEF LinksOfNodes, Agree
    <3> QED
      BY <3>1, Zenon DEF HeldOf
  <2> HIDE DEF S, V
  <2> QED
    BY <1>3, <2>1 DEF Descends
<1> HIDE DEF S, V
<1>5. PICK f : Solution(f, step, S, V)
  <2>1. Recursive(step, S, V, PRank(r), b + 1)
    BY <1>1, <1>2, <1>4, Zenon DEF Recursive
  <2> QED
    BY <2>1, RecursionExists, Zenon
<1>6. f = [n \in S |-> HeldOf(f, n)]
  BY <1>3, <1>5 DEF Solution
<1>7. IsBelow(f)
  BY <1>6, Zenon DEF IsBelow, S
<1> DEFINE w == CHOOSE w : IsBelow(w)
<1>8. IsBelow(w)
  BY <1>7, Zenon
<1>9. M!Below = w
  BY Zenon DEF M!Below, IsBelow, HeldOf, M!Pointer
<1> HIDE DEF w
<1> QED
  BY <1>8, <1>9, Zenon DEF IsBelow, HeldOf

\* The parts of a state that concern one node n of the tree.
LEMMA NodeFacts ==
  ASSUME NEW t, NEW sub, NEW pos, NEW r, NEW b, TreeNow(t, sub, pos, r, b), NEW n \in t
  PROVE  /\ n \in Node /\ n # null /\ n \in sub[n] /\ sub[n] \in SUBSET t /\ pos[n] \in Int
         /\ left[n] \in Node \cup {null} /\ right[n] \in Node \cup {null}
         /\ parent[n] \in Node \cup {null}
         /\ Hangs(t, sub, parent, n, left[n], Lower(sub, pos, n))
         /\ Hangs(t, sub, parent, n, right[n], Upper(sub, pos, n))
         /\ left[n] # null => r[left[n]] < r[n]
         /\ right[n] # null => r[right[n]] < r[n]
         /\ \A m \in sub[n] : sub[m] \subseteq sub[n]
         /\ \A m \in t \ sub[n] : \A x, y \in sub[n] : pos[m] < pos[x] => pos[m] < pos[y]
<1>1. n \in Node /\ n # null /\ n \in sub[n] /\ sub[n] \in SUBSET t /\ pos[n] \in Int
  BY ContainersAssumption DEF TreeNow, TState, IsTree, Ordered, Nested, ContainersAssumption,
       M!BinaryTreeMapAssumption
<1>2. /\ left[n] \in Node \cup {null} /\ right[n] \in Node \cup {null}
      /\ parent[n] \in Node \cup {null}
  BY <1>1 DEF TreeNow, TState, Fields
<1>3. /\ Hangs(t, sub, parent, n, left[n], Lower(sub, pos, n))
      /\ Hangs(t, sub, parent, n, right[n], Upper(sub, pos, n))
  BY DEF TreeNow, TState, IsTree, Hung
<1>4. /\ left[n] # null => r[left[n]] < r[n]
      /\ right[n] # null => r[right[n]] < r[n]
  BY <1>1 DEF TreeNow, TState, Ranked
<1>5. /\ \A m \in sub[n] : sub[m] \subseteq sub[n]
      /\ \A m \in t \ sub[n] : \A x, y \in sub[n] : pos[m] < pos[x] => pos[m] < pos[y]
  BY Zenon DEF TreeNow, TState, IsTree, Ordered, Nested, OneSide
<1> QED
  BY <1>1, <1>2, <1>3, <1>4, <1>5

LEMMA TreeFacts ==
  ASSUME NEW t, NEW sub, NEW pos, NEW r, NEW b, TreeNow(t, sub, pos, r, b)
  PROVE  /\ t \in SUBSET Node /\ pos \in [t -> Int] /\ LinksOfNodes /\ Ranked(left, right, r, b)
         /\ parent \in [Node -> Node \cup {null}] /\ b \in Nat /\ r \in [Node -> 0..b]
         /\ \A m, n \in t : pos[m] = pos[n] => m = n
         /\ root \in Node \cup {null} /\ Rooted(t, sub, root, parent)
BY DEF TreeNow, TState, Fields, IsTree, Ordered, LinksOfNodes, Ranked, Injective

\* Of the nodes that n holds, c is the first.
FirstHeld(sub, pos, n, c) == c \in sub[n] /\ \A m \in sub[n] : pos[c] <= pos[m]

LEMMA MinnIs ==
  ASSUME NEW t, NEW sub, NEW pos, NEW r, NEW b, TreeNow(t, sub, pos, r, b), NEW n \in t
  PROVE  FirstHeld(sub, pos, n, M!minn[n]) /\ left[M!minn[n]] = null
<1> DEFINE Good(x) == FirstHeld(sub, pos, x, M!minn[x]) /\ left[M!minn[x]] = null
           good == {x \in t : Good(x)}
           rt == [x \in t |-> r[x]]
<1>1. /\ t \in SUBSET Node /\ pos \in [t -> Int] /\ b \in Nat /\ r \in [Node -> 0..b]
      /\ LinksOfNodes /\ Ranked(left, right, r, b)
  BY TreeFacts
<1>2. \A x \in t : M!minn[x] = IF left[x] = null THEN x ELSE M!minn[left[x]]
  BY <1>1, MinnStep DEF LinksOfNodes
<1>3. rt \in [t -> Nat] /\ \A x \in t : rt[x] = r[x]
  BY <1>1
<1>4. ASSUME NEW x \in t, \A y \in t : rt[y] < rt[x] => y \in good PROVE x \in good
  <2>1. /\ x \in sub[x] /\ sub[x] \in SUBSET t
        /\ Hangs(t, sub, parent, x, left[x], Lower(sub, pos, x))
        /\ left[x] # null => r[left[x]] < r[x]
    BY NodeFacts
  <2>2. \A m \in sub[x] : pos[m] \in Int
    BY <1>1, <2>1
  <2>3. CASE left[x] = null
    <3>1. M!minn[x] = x
      BY <1>2, <2>3
    <3>2. Lower(sub, pos, x) = {}
      BY <2>1, <2>3, ContainersAssumption
         DEF Hangs, ContainersAssumption, M!BinaryTreeMapAssumption, TreeNow, TState, IsTree, Ordered
    <3>3. \A m \in sub[x] : pos[x] <= pos[m]
      BY <2>1, <2>2, <3>2 DEF Lower
    <3> QED
      BY <2>1, <2>3, <3>1, <3>3 DEF FirstHeld
  <2>4. CASE left[x] # null
    <3> DEFINE l == left[x]
    <3>1. l \in t /\ sub[l] = Lower(sub, pos, x) /\ l \in good
      BY <1>3, <1>4, <2>1, <2>4 DEF Hangs
    <3>2. M!minn[x] = M!minn[l]
      BY <1>2, <2>4
    <3>3. FirstHeld(sub, pos, l, M!minn[x]) /\ left[M!minn[x]] = null
      BY <3>1, <3>2
    <3>4. M!minn[x] \in sub[x] /\ pos[M!minn[x]] < pos[x]
      BY <3>1, <3>3 DEF FirstHeld, Lower
    <3>5. ASSUME NEW m \in sub[x] PROVE pos[M!minn[x]] <= pos[m]
      <4>1. CASE pos[m] < pos[x]
        BY <3>1, <3>3, <4>1 DEF FirstHeld, Lower
      <4> QED
        BY <2>1, <2>2, <3>4, <4>1
    <3> QED
      BY <3>3, <3>4, <3>5 DEF FirstHeld
  <2> QED
    BY <2>3, <2>4
<1> HIDE DEF good, rt
<1>5. t = good
  <2>1. good \in SUBSET t
    BY DEF good
  <2> QED
    BY <1>3, <1>4, <2>1, RankInduction
<1> QED
  BY <1>5 DEF good

LEMMA BelowIs ==
  ASSUME NEW t, NEW sub, NEW pos, NEW r, NEW b, TreeNow(t, sub, pos, r, b)
  PROVE  M!Tree = t
<1> DEFINE good == {x \in t : M!Below[x] = sub[x]}
           rt == [x \in t |-> r[x]]
<1>1. /\ t \in SUBSET Node /\ pos \in [t -> Int] /\ b \in Nat /\ r \in [Node -> 0..b]
      /\ LinksOfNodes /\ Ranked(left, right, r, b) /\ Rooted(t, sub, root, parent)
      /\ \A m, n \in t : pos[m] = pos[n] => m = n
  BY TreeFacts
<1>2. \A x \in Node \cup {null} :
        M!Below[x] = IF x = null THEN {} ELSE {x} \cup M!Below[left[x]] \cup M!Below[right[x]]
  BY <1>1, BelowStep
<1>3. rt \in [t -> Nat] /\ \A x \in t : rt[x] = r[x]
  BY <1>1
<1>4. ASSUME NEW x \in t, \A y \in t : rt[y] < rt[x] => y \in good PROVE x \in good
  <2>1. /\ x \in sub[x] /\ sub[x] \in SUBSET t /\ x # null /\ x \in Node
        /\ Hangs(t, sub, parent, x, left[x], Lower(sub, pos, x))
        /\ Hangs(t, sub, parent, x, right[x], Upper(sub, pos, x))
        /\ left[x] # null => r[left[x]] < r[x]
        /\ right[x] # null => r[right[x]] < r[x]
    BY NodeFacts
  <2>2. M!Below[null] = {} /\ M!Below[x] = {x} \cup M!Below[left[x]] \cup M!Below[right[x]]
    BY <1>2, <2>1
  <2>3. ASSUME NEW c, NEW s, Hangs(t, sub, parent, x, c, s), c # null => r[c] < r[x]
        PROVE  M!Below[c] = s
    <3>1. CASE c = null /\ s = {}
      BY <2>2, <3>1
    <3>2. CASE c \in t /\ sub[c] = s
      <4>1. c # null
        BY <3>2, NodeFacts
      <4>2. rt[c] < rt[x]
        BY <1>3, <2>3, <3>2, <4>1
      <4>3. c \in good
        BY <1>4, <3>2, <4>2
      <4> QED
        BY <3>2, <4>3
    <3> QED
      BY <2>3, <3>1, <3>2 DEF Hangs
  <2>4. M!Below[left[x]] = Lower(sub, pos, x) /\ M!Below[right[x]] = Upper(sub, pos, x)
    BY <2>1, <2>3
  <2>5. \A m \in sub[x] : pos[m] \in Int /\ pos[x] \in Int
    BY <1>1, <2>1
  <2>6. sub[x] = {x} \cup Lower(sub, pos, x) \cup Upper(sub, pos, x)
    BY <1>1, <2>1, <2>5 DEF Lower, Upper
  <2> QED
    BY <2>2, <2>4, <2>6
<1> HIDE DEF good, rt
<1>5. t = good
  <2>1. good \in SUBSET t
    BY DEF good
  <2> QED
    BY <1>3, <1>4, <2>1, RankInduction
<1>6. CASE root = null
  BY <1>1, <1>2, <1>6 DEF Rooted, M!Tree
<1>7. CASE root # null
  BY <1>1, <1>5, <1>7 DEF Rooted, M!Tree, good
<1> QED
  BY <1>6, <1>7

\* c is the first of the nodes a, or null if there is none.
FirstOf(pos, a, c) == IF a = {} THEN c = null ELSE c \in a /\ \A m \in a : pos[c] <= pos[m]

\* The nodes to the right of all that x holds, and to the right of x.
Beyond(t, sub, pos, x) == {m \in t \ sub[x] : pos[x] < pos[m]}
After(t, pos, x) == {m \in t : pos[x] < pos[m]}

\* A node is the root, or its parent holds it on one side.
LEMMA ParentFacts ==
  ASSUME NEW t, NEW sub, NEW pos, NEW r, NEW b, TreeNow(t, sub, pos, r, b), NEW x \in t
  PROVE  \/ /\ parent[x] = null /\ x = root /\ sub[x] = t
         \/ /\ parent[x] \in t /\ parent[x] # null
            /\ \/ x = left[parent[x]] /\ sub[x] = Lower(sub, pos, parent[x])
               \/ x = right[parent[x]] /\ sub[x] = Upper(sub, pos, parent[x])
<1>1. x # null /\ x \in Node /\ parent[x] \in Node \cup {null}
  BY NodeFacts
<1>2. Rooted(t, sub, root, parent) /\ root \in Node \cup {null} /\ t \in SUBSET Node
  BY TreeFacts
<1>3. /\ parent[x] # null => parent[x] \in t /\ x \in {left[parent[x]], right[parent[x]]}
      /\ \A n \in t : \A y \in sub[n] \ {n} : parent[y] \in sub[n]
  BY DEF TreeNow, TState, IsTree, Climbs
<1>4. CASE parent[x] = null
  <2>1. root \in t /\ sub[root] = t
    BY <1>2 DEF Rooted
  <2>2. null \notin t
    BY <1>2, ContainersAssumption DEF ContainersAssumption, M!BinaryTreeMapAssumption
  <2>3. x = root
    BY <1>3, <1>4, <2>1, <2>2
  <2> QED
    BY <1>4, <2>1, <2>3
<1>5. CASE parent[x] # null
  <2> DEFINE p == parent[x]
  <2>1. p \in t /\ (x = left[p] \/ x = right[p])
    BY <1>3, <1>5
  <2>2. /\ Hangs(t, sub, parent, p, left[p], Lower(sub, pos, p))
        /\ Hangs(t, sub, parent, p, right[p], Upper(sub, pos, p))
    BY <2>1, NodeFacts
  <2> QED
    BY <1>1, <1>5, <2>1, <2>2 DEF Hangs
<1> QED
  BY <1>4, <1>5

LEMMA ClimbIs ==
  ASSUME NEW t, NEW sub, NEW pos, NEW r, NEW b, TreeNow(t, sub, pos, r, b), NEW n \in t
  PROVE  FirstOf(pos, Beyond(t, sub, pos, n), M!Climb[n])
<1> DEFINE Good(x) == FirstOf(pos, Beyond(t, sub, pos, x), M!Climb[x])
           good == {x \in t : Good(x)}
           h == [x \in t |-> b - r[x]]
<1>1. /\ t \in SUBSET Node /\ pos \in [t -> Int] /\ b \in Nat /\ r \in [Node -> 0..b]
      /\ Ranked(left, right, r, b) /\ parent \in [Node -> Node \cup {null}]
      /\ \A m, x \in t : pos[m] = pos[x] => m = x
  BY TreeFacts
<1>2. \A x \in Node : M!Climb[x] = IF parent[x] # null /\ x = right[parent[x]]
                                   THEN M!Climb[parent[x]] ELSE parent[x]
  BY <1>1, ClimbStep
<1>3. h \in [t -> Nat] /\ \A x \in t : h[x] = b - r[x]
  BY <1>1
<1>4. ASSUME NEW x \in t, \A y \in t : h[y] < h[x] => y \in good PROVE x \in good
  <2> DEFINE p == parent[x]
  <2>1. x \in Node /\ x \in sub[x] /\ x # null /\ sub[x] \in SUBSET t /\ pos[x] \in Int
    BY NodeFacts
  <2>2. CASE p = null
    <3>1. sub[x] = t
      BY <2>2, ParentFacts
    <3>2. Beyond(t, sub, pos, x) = {}
      BY <3>1 DEF Beyond
    <3>3. M!Climb[x] = null
      BY <1>2, <2>1, <2>2
    <3> QED
      BY <3>2, <3>3 DEF FirstOf
  <2>3. CASE p # null
    <3>1. /\ p \in t
          /\ \/ x = left[p] /\ sub[x] = Lower(sub, pos, p)
             \/ x = right[p] /\ sub[x] = Upper(sub, pos, p)
      BY <2>3, ParentFacts
    <3>2. /\ p \in sub[p] /\ sub[p] \in SUBSET t /\ pos[p] \in Int
          /\ right[p] # null => r[right[p]] < r[p]
          /\ \A m \in t \ sub[p] : \A u, v \in sub[p] : pos[m] < pos[u] => pos[m] < pos[v]
      BY <3>1, NodeFacts
    <3>3. x \in sub[p] /\ sub[x] \subseteq sub[p]
      BY <2>1, <3>1 DEF Lower, Upper
    <3>4. \A m \in t : pos[m] \in Int
      BY <1>1
    <3>5. CASE x = right[p]
      <4>1. sub[x] = Upper(sub, pos, p)
        <5>1. Hangs(t, sub, parent, p, right[p], Upper(sub, pos, p))
          BY <3>1, NodeFacts
        <5> QED
          BY <2>1, <3>5, <5>1 DEF Hangs
      <4>2. M!Climb[x] = M!Climb[p]
        BY <1>2, <2>1, <2>3, <3>5
      <4>3. p \in good
        <5>1. r[x] < r[p] /\ r[x] \in Nat /\ r[p] \in Nat
          BY <1>1, <2>1, <3>1, <3>2, <3>5
        <5>2. h[p] < h[x]
          BY <1>1, <1>3, <3>1, <5>1
        <5> QED
          BY <1>4, <3>1, <5>2
      <4>4. pos[p] < pos[x]
        BY <2>1, <4>1 DEF Upper
      <4>5. ASSUME NEW m \in t \ sub[x], pos[x] < pos[m] PROVE m \notin sub[p] /\ pos[p] < pos[m]
        BY <2>1, <3>2, <3>4, <4>1, <4>4, <4>5 DEF Upper
      <4>6. ASSUME NEW m \in t \ sub[p], pos[p] < pos[m] PROVE m \notin sub[x] /\ pos[x] < pos[m]
        <5>1. ~(pos[m] < pos[x])
          BY <3>2, <3>3, <3>4, <4>6
        <5>2. pos[m] # pos[x]
          BY <1>1, <3>3, <4>6
        <5> QED
          BY <2>1, <3>3, <3>4, <4>6, <5>1, <5>2
      <4>7. Beyond(t, sub, pos, x) = Beyond(t, sub, pos, p)
        BY <4>5, <4>6 DEF Beyond
      <4> QED
        BY <4>2, <4>3, <4>7
    <3>6. CASE x # right[p]
      <4>1. x = left[p] /\ sub[x] = Lower(sub, pos, p)
        BY <3>1, <3>6
      <4>2. M!Climb[x] = p
        BY <1>2, <2>1, <2>3, <3>6
      <4>3. pos[x] < pos[p] /\ p \notin sub[x]
        BY <2>1, <3>2, <4>1 DEF Lower
      <4>4. ASSUME NEW m \in t \ sub[x], pos[x] < pos[m] PROVE pos[p] <= pos[m]
        <5>1. CASE m \in sub[p]
          BY <3>2, <3>4, <4>1, <4>4, <5>1 DEF Lower
        <5>2. CASE m \notin sub[p]
          <6>1. pos[m] < pos[p] => pos[m] < pos[x]
            BY <3>2, <3>3, <5>2
          <6> QED
            BY <2>1, <3>2, <3>4, <4>4, <6>1
        <5> QED
          BY <5>1, <5>2
      <4>5. p \in Beyond(t, sub, pos, x) /\ \A m \in Beyond(t, sub, pos, x) : pos[p] <= pos[m]
        BY <3>1, <4>3, <4>4 DEF Beyond
      <4> QED
        BY <4>2, <4>5 DEF FirstOf
    <3> QED
      BY <3>5, <3>6
  <2> QED
    BY <2>2, <2>3
<1> HIDE DEF good, h
<1>5. t = good
  <2>1. good \in SUBSET t
    BY DEF good
  <2> QED
    BY <1>3, <1>4, <2>1, RankInduction
<1> QED
  BY <1>5 DEF good

LEMMA SuccessorIs ==
  ASSUME NEW t, NEW sub, NEW pos, NEW r, NEW b, TreeNow(t, sub, pos, r, b), NEW n \in t
  PROVE  FirstOf(pos, After(t, pos, n), M!successor(n))
<1>1. /\ n \in sub[n] /\ sub[n] \in SUBSET t /\ n # null /\ pos[n] \in Int
      /\ Hangs(t, sub, parent, n, right[n], Upper(sub, pos, n))
      /\ \A m \in t \ sub[n] : \A x, y \in sub[n] : pos[m] < pos[x] => pos[m] < pos[y]
  BY NodeFacts
<1>2. pos \in [t -> Int] /\ \A m \in t : pos[m] \in Int
  BY TreeFacts
<1>3. CASE right[n] = null
  <2>1. Upper(sub, pos, n) = {}
    <3>1. \A m \in t : m # null
      BY NodeFacts
    <3> QED
      BY <1>1, <1>3, <3>1 DEF Hangs
  <2>2. After(t, pos, n) = Beyond(t, sub, pos, n)
    BY <2>1 DEF Upper, After, Beyond
  <2>3. M!successor(n) = M!Climb[n]
    BY <1>3 DEF M!successor
  <2> QED
    BY <2>2, <2>3, ClimbIs
<1>4. CASE right[n] # null
  <2> DEFINE c == M!minn[right[n]]
  <2>1. right[n] \in t /\ sub[right[n]] = Upper(sub, pos, n)
    BY <1>1, <1>4 DEF Hangs
  <2>2. FirstHeld(sub, pos, right[n], c)
    BY <2>1, MinnIs
  <2>3. c \in sub[n] /\ pos[n] < pos[c] /\ \A m \in Upper(sub, pos, n) : pos[c] <= pos[m]
    BY <2>1, <2>2 DEF FirstHeld, Upper
  <2>4. ASSUME NEW m \in t, pos[n] < pos[m] PROVE pos[c] <= pos[m]
    <3>1. CASE m \in sub[n]
      BY <2>3, <2>4, <3>1 DEF Upper
    <3>2. CASE m \notin sub[n]
      <4>1. pos[m] < pos[c] => pos[m] < pos[n]
        BY <1>1, <2>3, <3>2
      <4> QED
        BY <1>1, <1>2, <2>3, <2>4, <4>1
    <3> QED
      BY <3>1, <3>2
  <2>5. c \in After(t, pos, n) /\ \A m \in After(t, pos, n) : pos[c] <= pos[m]
    BY <1>1, <2>3, <2>4 DEF After
  <2>6. M!successor(n) = c
    BY <1>4 DEF M!successor
  <2> QED
    BY <2>5, <2>6 DEF FirstOf
<1> QED
  BY <1>3, <1>4

IsTreeVisit(f) == f = [k \in Nat |-> IF k = 0 THEN M!minn[root] ELSE M!advance(f[k - 1])]

LEMMA TreeVisitIs ==
  ASSUME NEW t, NEW sub, NEW pos, NEW r, NEW b, TreeNow(t, sub, pos, r, b), root # null
  PROVE  /\ M!Visit[0] = M!minn[root]
         /\ \A k \in Nat : M!Visit[k + 1] = M!advance(M!Visit[k])
<1> DEFINE S == t \cup {null}
           F == [p \in S |-> M!advance(p)]
<1>1. \A p \in S : M!advance(p) \in S
  <2> SUFFICES ASSUME NEW p \in t PROVE M!successor(p) \in S
    BY DEF M!advance
  <2>1. FirstOf(pos, After(t, pos, p), M!successor(p))
    BY SuccessorIs
  <2> QED
    BY <2>1 DEF FirstOf, After
<1>2. M!minn[root] \in S
  <2>1. root \in t /\ sub[root] = t
    BY TreeFacts DEF Rooted
  <2>2. FirstHeld(sub, pos, root, M!minn[root])
    BY <2>1, MinnIs
  <2> QED
    BY <2>1, <2>2 DEF FirstHeld
<1>3. F \in [S -> S]
  BY <1>1
<1>4. \A p \in S : F[p] = M!advance(p)
  OBVIOUS
<1> HIDE DEF F, S
<1>5. PICK f : /\ f = [k \in Nat |-> f[k]]
               /\ f[0] = M!minn[root]
               /\ \A k \in Nat : f[k] \in S
               /\ \A k \in Nat : k # 0 => f[k] = F[f[k - 1]]
  BY <1>2, <1>3, IterWithin
<1>6. \A k \in Nat : f[k] = IF k = 0 THEN M!minn[root] ELSE M!advance(f[k - 1])
  <2>1. \A k \in Nat : k # 0 => k - 1 \in Nat
    OBVIOUS
  <2> QED
    BY <1>4, <1>5, <2>1
<1>7. IsTreeVisit(f)
  BY <1>5, <1>6, Zenon DEF IsTreeVisit
<1> DEFINE w == CHOOSE w : IsTreeVisit(w)
<1>8. IsTreeVisit(w)
  BY <1>7, Zenon
<1>9. M!Visit = w
  BY Zenon DEF M!Visit, IsTreeVisit
<1> HIDE DEF w
<1>10. \A k \in Nat : w[k] = IF k = 0 THEN M!minn[root] ELSE M!advance(w[k - 1])
  BY <1>8, Zenon DEF IsTreeVisit
<1>11. \A k \in Nat : k + 1 \in Nat /\ k + 1 # 0 /\ (k + 1) - 1 = k
  OBVIOUS
<1>12. w[0] = M!minn[root] /\ \A k \in Nat : w[k + 1] = M!advance(w[k])
  BY <1>10, <1>11
<1> QED
  BY <1>9, <1>12

\* The nodes to the left of x, all if x is null.
LeftOf(t, pos, x) == IF x = null THEN t ELSE {m \in t : pos[m] < pos[x]}

LEMMA BeforeNext ==
  ASSUME NEW t, NEW sub, NEW pos, NEW r, NEW b, TreeNow(t, sub, pos, r, b), NEW x \in t
  PROVE  /\ M!advance(x) \in t \cup {null}
         /\ LeftOf(t, pos, M!advance(x)) = LeftOf(t, pos, x) \cup {x}
         /\ M!advance(x) # null => pos[x] < pos[M!advance(x)]
<1> DEFINE c == M!successor(x)
<1>1. FirstOf(pos, After(t, pos, x), c)
  BY SuccessorIs
<1>2. x # null /\ M!advance(x) = c /\ \A m \in t : m # null
  BY NodeFacts DEF M!advance
<1>3. /\ pos \in [t -> Int] /\ \A m \in t : pos[m] \in Int
      /\ \A m, n \in t : pos[m] = pos[n] => m = n
  BY TreeFacts
<1>4. CASE After(t, pos, x) = {}
  <2>1. c = null
    BY <1>1, <1>4 DEF FirstOf
  <2>2. t = {m \in t : pos[m] < pos[x]} \cup {x}
    BY <1>3, <1>4 DEF After
  <2> QED
    BY <1>2, <2>1, <2>2 DEF LeftOf
<1>5. CASE After(t, pos, x) # {}
  <2>1. c \in t /\ pos[x] < pos[c] /\ \A m \in t : pos[x] < pos[m] => pos[c] <= pos[m]
    BY <1>1, <1>5 DEF FirstOf, After
  <2>2. {m \in t : pos[m] < pos[c]} = {m \in t : pos[m] < pos[x]} \cup {x}
    BY <1>3, <2>1
  <2> QED
    BY <1>2, <2>1, <2>2 DEF LeftOf
<1> QED
  BY <1>4, <1>5

\* A loop visits every node once, from left to right, and then has come to the end.
LEMMA VisitsTree ==
  ASSUME NEW t, NEW sub, NEW pos, NEW r, NEW b, TreeNow(t, sub, pos, r, b), root # null
  PROVE  LET c == Cardinality(t) IN
           /\ {M!Visit[k] : k \in 0..c - 1} = t /\ M!Visit[c] = null
           /\ \A k \in 1..c - 1 : key[M!Visit[k - 1]] <= key[M!Visit[k]]
<1> DEFINE c == Cardinality(t)
           V(k) == {M!Visit[j] : j \in 0..k - 1}
           Good(k) == /\ M!Visit[k] \in t \cup {null}
                      /\ LeftOf(t, pos, M!Visit[k]) = V(k)
                      /\ Cardinality(V(k)) = k /\ IsFiniteSet(V(k))
           G == {k \in Nat : k <= c => Good(k)}
<1>1. /\ pos \in [t -> Int] /\ t \in SUBSET Node /\ root \in t /\ sub[root] = t
      /\ \A m \in t : m # null /\ pos[m] \in Int
  BY TreeFacts, NodeFacts DEF Rooted
<1>2. c \in Nat /\ IsFiniteSet(t)
  <2>1. IsFiniteSet(t)
    BY DEF TreeNow, TState, Fields
  <2> QED
    BY <2>1, FS_CardinalityType
<1>3. /\ M!Visit[0] = M!minn[root]
      /\ \A k \in Nat : M!Visit[k + 1] = M!advance(M!Visit[k])
  BY TreeVisitIs
<1>4. 0 \in G
  <2>1. FirstHeld(sub, pos, root, M!minn[root])
    BY <1>1, MinnIs
  <2>2. M!minn[root] \in t /\ \A m \in t : pos[M!minn[root]] <= pos[m]
    BY <1>1, <2>1 DEF FirstHeld
  <2>3. LeftOf(t, pos, M!Visit[0]) = {}
    BY <1>1, <1>3, <2>2 DEF LeftOf
  <2>4. V(0) = {}
    OBVIOUS
  <2>5. Cardinality(V(0)) = 0 /\ IsFiniteSet(V(0))
    BY <2>4, FS_EmptySet
  <2> QED
    BY <1>3, <2>2, <2>3, <2>4, <2>5
<1>5. ASSUME NEW k \in Nat, k \in G PROVE k + 1 \in G
  <2> SUFFICES ASSUME k + 1 <= c PROVE Good(k + 1)
    OBVIOUS
  <2> DEFINE x == M!Visit[k]
  <2>1. k <= c /\ k # c /\ k + 1 \in Nat
    BY <1>2
  <2>2. /\ x \in t \cup {null} /\ LeftOf(t, pos, x) = V(k)
        /\ Cardinality(V(k)) = k /\ IsFiniteSet(V(k))
    BY <1>5, <2>1
  <2>3. x \in t
    BY <2>1, <2>2 DEF LeftOf
  <2>4. V(k + 1) = V(k) \cup {x}
    <3>1. 0..(k + 1) - 1 = (0..k - 1) \cup {k}
      OBVIOUS
    <3> QED
      BY <3>1
  <2>5. x \notin V(k)
    BY <1>1, <2>2, <2>3 DEF LeftOf
  <2> HIDE DEF V, x
  <2>6. Cardinality(V(k + 1)) = k + 1 /\ IsFiniteSet(V(k + 1))
    BY <2>2, <2>4, <2>5, FS_AddElement
  <2>7. M!Visit[k + 1] = M!advance(x)
    BY <1>3 DEF x
  <2>8. /\ M!advance(x) \in t \cup {null}
        /\ LeftOf(t, pos, M!advance(x)) = LeftOf(t, pos, x) \cup {x}
    BY <2>3, BeforeNext
  <2>9. LeftOf(t, pos, M!Visit[k + 1]) = V(k + 1)
    BY <2>2, <2>4, <2>7, <2>8
  <2> QED
    BY <2>6, <2>7, <2>8, <2>9
<1>6. \A k \in Nat : k <= c => Good(k)
  <2> HIDE DEF G
  <2>1. Nat \subseteq G
    BY <1>4, <1>5, SetInduction
  <2> QED
    BY <2>1 DEF G
<1> HIDE DEF c, V
<1>7. V(c) = t
  <2>1. V(c) \subseteq t
    <3>1. LeftOf(t, pos, M!Visit[c]) = V(c)
      BY <1>2, <1>6
    <3> QED
      BY <3>1 DEF LeftOf
  <2>2. Cardinality(V(c)) = c
    BY <1>2, <1>6
  <2> QED
    BY <1>2, <2>1, <2>2, FS_Subset DEF c
<1>8. M!Visit[c] = null
  <2>1. M!Visit[c] \in t \cup {null} /\ LeftOf(t, pos, M!Visit[c]) = t
    BY <1>2, <1>6, <1>7
  <2> QED
    BY <1>1, <2>1 DEF LeftOf
<1>9. ASSUME NEW k \in 1..c - 1 PROVE key[M!Visit[k - 1]] <= key[M!Visit[k]]
  <2>1. /\ k - 1 \in Nat /\ k \in Nat /\ k <= c /\ k - 1 <= c /\ (k - 1) + 1 = k
        /\ k # c /\ k - 1 # c
    BY <1>2
  <2>2. ASSUME NEW j \in Nat, j <= c, j # c PROVE M!Visit[j] \in t
    <3>1. M!Visit[j] \in t \cup {null} /\ LeftOf(t, pos, M!Visit[j]) = V(j) /\ Cardinality(V(j)) = j
      BY <1>6, <2>2
    <3> QED
      BY <2>2, <3>1 DEF LeftOf, c
  <2>3. M!Visit[k - 1] \in t /\ M!Visit[k] \in t
    BY <2>1, <2>2
  <2>4. M!Visit[k] = M!advance(M!Visit[k - 1])
    BY <1>3, <2>1
  <2>5. pos[M!Visit[k - 1]] < pos[M!Visit[k]]
    BY <1>1, <2>3, <2>4, BeforeNext
  <2> QED
    BY <2>3, <2>5 DEF TreeNow, TState, IsTree, Sorted
<1> QED
  BY <1>7, <1>8, <1>9 DEF c, V

LEMMA SortedKeys ==
  ASSUME NEW t, NEW sub, NEW pos, NEW r, NEW b, TreeNow(t, sub, pos, r, b)
  PROVE  \A n \in t : /\ key[n] \in Nat /\ key[n] \in OrderedKey
                      /\ \A m \in t : pos[m] < pos[n] => key[m] <= key[n]
BY ContainersAssumption DEF TreeNow, TState, IsTree, Sorted, ContainersAssumption,
   M!BinaryTreeMapAssumption

\* find returns a node of the tree with the key, if there is one.
LEMMA FindIs ==
  ASSUME NEW t, NEW sub, NEW pos, NEW r, NEW b, TreeNow(t, sub, pos, r, b), NEW k \in Nat
  PROVE  /\ M!find(k) \in t \cup {null}
         /\ M!find(k) # null => key[M!find(k)] = k
         /\ \A n \in t : key[n] = k => M!find(k) # null
<1>1. /\ t \in SUBSET Node /\ pos \in [t -> Int] /\ b \in Nat /\ r \in [Node -> 0..b]
      /\ LinksOfNodes /\ Ranked(left, right, r, b) /\ Rooted(t, sub, root, parent)
      /\ \A m, n \in t : pos[m] = pos[n] => m = n
  BY TreeFacts
<1>2. PICK f : M!find(k) = f[root] /\ \A n \in Node \cup {null} : f[n] = Sought(f, k, n)
  BY <1>1, SearchExists
<1>3. f[null] = null
  BY <1>2 DEF Sought
<1> DEFINE Good(x) == /\ f[x] \in t \cup {null}
                      /\ f[x] # null => key[f[x]] = k
                      /\ \A n \in sub[x] : key[n] = k => f[x] # null
           good == {x \in t : Good(x)}
           rt == [x \in t |-> r[x]]
<1>4. rt \in [t -> Nat] /\ \A x \in t : rt[x] = r[x]
  BY <1>1
<1>5. ASSUME NEW x \in t, \A y \in t : rt[y] < rt[x] => y \in good PROVE x \in good
  <2>1. /\ x \in sub[x] /\ sub[x] \in SUBSET t /\ x # null /\ x \in Node
        /\ Hangs(t, sub, parent, x, left[x], Lower(sub, pos, x))
        /\ Hangs(t, sub, parent, x, right[x], Upper(sub, pos, x))
        /\ left[x] # null => r[left[x]] < r[x]
        /\ right[x] # null => r[right[x]] < r[x]
    BY NodeFacts
  <2>2. f[x] = IF k < key[x] THEN f[left[x]] ELSE IF k > key[x] THEN f[right[x]] ELSE x
    BY <1>2, <2>1, Zenon DEF Sought
  <2>3. \A n \in t : key[n] \in Nat /\ \A m \in t : pos[m] < pos[n] => key[m] <= key[n]
    BY SortedKeys
  <2>4. ASSUME NEW c, NEW s, Hangs(t, sub, parent, x, c, s), c # null => r[c] < r[x]
        PROVE  /\ f[c] \in t \cup {null}
               /\ f[c] # null => key[f[c]] = k
               /\ \A n \in s : key[n] = k => f[c] # null
    <3>1. CASE c = null /\ s = {}
      BY <1>3, <3>1
    <3>2. CASE c \in t /\ sub[c] = s
      <4>1. c # null
        BY <3>2, NodeFacts
      <4>2. rt[c] < rt[x]
        BY <1>4, <2>4, <3>2, <4>1
      <4>3. c \in good
        BY <1>5, <3>2, <4>2
      <4> QED
        BY <3>2, <4>3
    <3> QED
      BY <2>4, <3>1, <3>2 DEF Hangs
  <2>5. \A m \in t : pos[m] \in Int
    BY <1>1
  <2>6. CASE k < key[x]
    <3>1. f[x] = f[left[x]]
      BY <2>2, <2>6
    <3>2. ASSUME NEW n \in sub[x], key[n] = k PROVE n \in Lower(sub, pos, x)
      <4>1. n # x /\ ~(pos[x] < pos[n])
        BY <2>1, <2>3, <2>6, <3>2
      <4>2. pos[n] < pos[x]
        BY <1>1, <2>1, <2>5, <4>1
      <4> QED
        BY <4>2 DEF Lower
    <3> QED
      BY <2>1, <2>4, <3>1, <3>2
  <2>7. CASE k > key[x]
    <3>1. f[x] = f[right[x]]
      BY <2>2, <2>3, <2>7
    <3>2. ASSUME NEW n \in sub[x], key[n] = k PROVE n \in Upper(sub, pos, x)
      <4>1. n # x /\ ~(pos[n] < pos[x])
        BY <2>1, <2>3, <2>7, <3>2
      <4>2. pos[x] < pos[n]
        BY <1>1, <2>1, <2>5, <4>1
      <4> QED
        BY <4>2 DEF Upper
    <3> QED
      BY <2>1, <2>4, <3>1, <3>2
  <2>8. CASE k = key[x]
    BY <2>1, <2>2, <2>3, <2>8
  <2> QED
    BY <2>3, <2>6, <2>7, <2>8
<1> HIDE DEF good, rt
<1>6. t = good
  <2>1. good \in SUBSET t
    BY DEF good
  <2> QED
    BY <1>4, <1>5, <2>1, RankInduction
<1>7. CASE root = null
  BY <1>1, <1>2, <1>3, <1>7 DEF Rooted
<1>8. CASE root # null
  BY <1>1, <1>2, <1>6, <1>8 DEF Rooted, good
<1> QED
  BY <1>7, <1>8

\* What x does not hold is on the side of x that its key says, for the key k.
Bracket(t, sub, pos, k, x) ==
  \A m \in t \ sub[x] : /\ pos[m] < pos[x] => key[m] <= k
                        /\ pos[x] < pos[m] => k <= key[m]

\* helper1 ends where a node with the key k can hang.
LEMMA LastIs ==
  ASSUME NEW t, NEW sub, NEW pos, NEW r, NEW b, TreeNow(t, sub, pos, r, b), NEW k \in Nat,
         root # null
  PROVE  LET p == M!helper1(k) IN p \in t /\ Side(k, p) = null /\ Bracket(t, sub, pos, k, p)
<1>1. /\ t \in SUBSET Node /\ pos \in [t -> Int] /\ b \in Nat /\ r \in [Node -> 0..b]
      /\ LinksOfNodes /\ Ranked(left, right, r, b) /\ root \in t /\ sub[root] = t
      /\ \A m, n \in t : pos[m] = pos[n] => m = n
  BY TreeFacts DEF Rooted
<1>2. PICK f : /\ M!helper1(k) = f[root]
               /\ \A n \in Node : f[n] = IF Side(k, n) = null THEN n ELSE f[Side(k, n)]
  BY <1>1, LastExists
<1> DEFINE Stops(p) == p \in t /\ Side(k, p) = null /\ Bracket(t, sub, pos, k, p)
           good == {x \in t : Bracket(t, sub, pos, k, x) => Stops(f[x])}
           rt == [x \in t |-> r[x]]
<1>3. rt \in [t -> Nat] /\ \A x \in t : rt[x] = r[x]
  BY <1>1
<1>4. ASSUME NEW x \in t, \A y \in t : rt[y] < rt[x] => y \in good PROVE x \in good
  <2> SUFFICES ASSUME Bracket(t, sub, pos, k, x) PROVE Stops(f[x])
    OBVIOUS
  <2> DEFINE c == Side(k, x)
  <2>1. /\ x \in sub[x] /\ sub[x] \in SUBSET t /\ x # null /\ x \in Node
        /\ Hangs(t, sub, parent, x, left[x], Lower(sub, pos, x))
        /\ Hangs(t, sub, parent, x, right[x], Upper(sub, pos, x))
        /\ left[x] # null => r[left[x]] < r[x]
        /\ right[x] # null => r[right[x]] < r[x]
        /\ \A m \in t \ sub[x] : \A u, v \in sub[x] : pos[m] < pos[u] => pos[m] < pos[v]
    BY NodeFacts
  <2>2. \A n \in t : key[n] \in Nat /\ \A m \in t : pos[m] < pos[n] => key[m] <= key[n]
    BY SortedKeys
  <2>3. \A m \in t : pos[m] \in Int
    BY <1>1
  <2>4. CASE c = null
    BY <1>2, <2>1, <2>4
  <2>5. CASE c # null
    <3>1. f[x] = f[c]
      BY <1>2, <2>1, <2>5
    <3>2. c \in t /\ r[c] < r[x] /\ sub[c] = IF k < key[x] THEN Lower(sub, pos, x) ELSE Upper(sub, pos, x)
      BY <2>1, <2>5 DEF Side, Hangs
    <3>3. c \in good
      BY <1>3, <1>4, <3>2
    <3>4. c \in sub[c]
      BY <3>2, NodeFacts
    <3>5. c \in sub[x] /\ c \in t
      BY <3>2, <3>4 DEF Lower, Upper
    <3>6. ASSUME NEW m \in t \ sub[c]
          PROVE  (pos[m] < pos[c] => key[m] <= k) /\ (pos[c] < pos[m] => k <= key[m])
      <4>1. CASE m \notin sub[x]
        <5>1. /\ pos[m] < pos[c] => pos[m] < pos[x]
              /\ pos[m] < pos[x] => pos[m] < pos[c]
          BY <2>1, <3>5, <4>1
        <5>2. pos[m] # pos[x] /\ pos[m] # pos[c]
          BY <1>1, <2>1, <3>5, <4>1
        <5>3. /\ pos[m] < pos[x] => key[m] <= k
              /\ pos[x] < pos[m] => k <= key[m]
          BY <4>1 DEF Bracket
        <5> QED
          BY <2>3, <3>5, <5>1, <5>2, <5>3
      <4>2. CASE m \in sub[x] /\ k < key[x]
        <5>1. ~(pos[m] < pos[x]) /\ pos[c] < pos[x]
          BY <3>2, <3>4, <4>2 DEF Lower
        <5>2. pos[c] < pos[m] /\ ~(pos[m] < pos[c])
          BY <2>3, <3>5, <5>1
        <5>3. key[x] <= key[m]
          BY <1>1, <2>2, <2>3, <5>1
        <5> QED
          BY <2>2, <4>2, <5>2, <5>3
      <4>3. CASE m \in sub[x] /\ ~(k < key[x])
        <5>1. ~(pos[x] < pos[m]) /\ pos[x] < pos[c]
          BY <3>2, <3>4, <4>3 DEF Upper
        <5>2. pos[m] < pos[c] /\ ~(pos[c] < pos[m])
          BY <2>3, <3>5, <5>1
        <5>3. key[m] <= key[x]
          BY <1>1, <2>2, <2>3, <5>1
        <5> QED
          BY <2>2, <4>3, <5>2, <5>3
      <4> QED
        BY <4>1, <4>2, <4>3
    <3>7. Bracket(t, sub, pos, k, c)
      BY <3>6 DEF Bracket
    <3> HIDE DEF c
    <3> QED
      BY <3>1, <3>3, <3>7
  <2> QED
    BY <2>4, <2>5
<1> HIDE DEF good, rt
<1>5. t = good
  <2>1. good \in SUBSET t
    BY DEF good
  <2> QED
    BY <1>3, <1>4, <2>1, RankInduction
<1>6. Bracket(t, sub, pos, k, root)
  BY <1>1 DEF Bracket
<1> QED
  BY <1>1, <1>2, <1>5, <1>6 DEF good

LEMMA TInvSafe == TInv => M!Safe
<1> SUFFICES ASSUME TInv PROVE M!Safe
  OBVIOUS
<1>1. PICK t, sub, pos, r, b : TreeNow(t, sub, pos, r, b)
  BY DEF TInv
<1>2. M!Tree = t /\ \A s : M!Cardinality(s) = Cardinality(s)
  BY <1>1, BelowIs, Zenon DEF M!Cardinality, Cardinality
<1>3. t \subseteq live
  BY <1>1 DEF TreeNow, TState, Fields
<1>4. ASSUME NEW n \in t
      PROVE  /\ left[n] # null => parent[left[n]] = n
             /\ right[n] # null => parent[right[n]] = n
             /\ M!find(key[n]) # null
  <2>1. /\ Hangs(t, sub, parent, n, left[n], Lower(sub, pos, n))
        /\ Hangs(t, sub, parent, n, right[n], Upper(sub, pos, n))
    BY <1>1, NodeFacts
  <2>2. key[n] \in Nat
    BY <1>1, SortedKeys
  <2> QED
    BY <1>1, <2>1, <2>2, FindIs DEF Hangs
<1>5. ASSUME root # null
      PROVE  /\ parent[root] = null
             /\ {M!Visit[k] : k \in 0..Cardinality(t) - 1} = t /\ M!Visit[Cardinality(t)] = null
             /\ \A k \in 1..Cardinality(t) - 1 : key[M!Visit[k - 1]] <= key[M!Visit[k]]
  <2>1. parent[root] = null
    BY <1>1, <1>5, TreeFacts DEF Rooted
  <2> QED
    BY <1>1, <1>5, <2>1, VisitsTree
<1> QED
  BY <1>2, <1>3, <1>4, <1>5, Zenon DEF M!Safe

-----------------------------------------------------------------------------
(* A node n that hangs below p, on the side d. *)

GrownSub(t, sub, p, n) ==
  [m \in t \cup {n} |-> IF m = n THEN {n} ELSE IF p \in sub[m] THEN sub[m] \cup {n} ELSE sub[m]]
GrownPos(t, pos, p, n, d) == [m \in t \cup {n} |-> IF m = n THEN 2 * pos[p] + d ELSE 2 * pos[m]]

\* s2 and p2 are what sub and pos become.
Grown(t, sub, pos, p, n, d, s2, p2) ==
  /\ n \notin t /\ p \in t /\ d \in {-1, 1}
  /\ s2 = GrownSub(t, sub, p, n) /\ p2 = GrownPos(t, pos, p, n, d)
  /\ d = -1 => Lower(sub, pos, p) = {}
  /\ d = 1 => Upper(sub, pos, p) = {}

GrownIs(t, sub, pos, p, n, d, s2, p2) ==
  /\ s2[n] = {n} /\ p2[n] = 2 * pos[p] + d /\ d \in {-1, 1} /\ p \in t /\ n \notin t
  /\ \A m \in t : /\ s2[m] = IF p \in sub[m] THEN sub[m] \cup {n} ELSE sub[m]
                  /\ p2[m] = 2 * pos[m] /\ pos[m] \in Int /\ n \notin sub[m]
                  /\ m \in sub[m] /\ sub[m] \in SUBSET t
                  /\ \A x \in sub[m] : sub[x] \subseteq sub[m]
  /\ s2 \in [t \cup {n} -> SUBSET (t \cup {n})] /\ p2 \in [t \cup {n} -> Int]
  /\ \A m, x \in t : pos[m] = pos[x] => m = x

LEMMA GrownParts ==
  ASSUME NEW t, NEW sub, NEW pos, NEW p, NEW n, NEW d, NEW s2, NEW p2,
         Grown(t, sub, pos, p, n, d, s2, p2), Ordered(t, sub, pos)
  PROVE  GrownIs(t, sub, pos, p, n, d, s2, p2)
<1>1. /\ n \notin t /\ p \in t /\ d \in {-1, 1} /\ d \in Int
      /\ s2 = GrownSub(t, sub, p, n) /\ p2 = GrownPos(t, pos, p, n, d)
  BY DEF Grown
<1>2. /\ sub \in [t -> SUBSET t] /\ pos \in [t -> Int]
      /\ \A m \in t : m \in sub[m] /\ \A x \in sub[m] : sub[x] \subseteq sub[m]
      /\ \A m, x \in t : pos[m] = pos[x] => m = x
  BY DEF Ordered, Nested, Injective
<1>3. /\ s2[n] = {n} /\ s2 \in [t \cup {n} -> SUBSET (t \cup {n})]
      /\ \A m \in t : s2[m] = IF p \in sub[m] THEN sub[m] \cup {n} ELSE sub[m]
  BY <1>1, <1>2 DEF GrownSub
<1>4. /\ p2[n] = 2 * pos[p] + d /\ \A m \in t : p2[m] = 2 * pos[m]
      /\ p2 \in [t \cup {n} -> Int]
  BY <1>1, <1>2 DEF GrownPos
<1>5. \A m \in t : pos[m] \in Int /\ sub[m] \in SUBSET t /\ n \notin sub[m]
  BY <1>1, <1>2
<1> QED
  BY <1>1, <1>2, <1>3, <1>4, <1>5 DEF GrownIs

\* The new node is between p and the nodes that were next to it.
LEMMA GrownBetween ==
  ASSUME NEW t, NEW sub, NEW pos, NEW p, NEW n, NEW d, NEW s2, NEW p2,
         Grown(t, sub, pos, p, n, d, s2, p2), Ordered(t, sub, pos), NEW m \in t
  PROVE  /\ m # p => /\ p2[n] < p2[m] <=> pos[p] < pos[m]
                     /\ p2[m] < p2[n] <=> pos[m] < pos[p]
         /\ p2[n] < p2[p] <=> d = -1
         /\ p2[p] < p2[n] <=> d = 1
         /\ p2[m] # p2[n]
         /\ \A x \in t : p2[m] < p2[x] <=> pos[m] < pos[x]
<1>0. GrownIs(t, sub, pos, p, n, d, s2, p2)
  BY GrownParts
<1>1. /\ p2[n] = 2 * pos[p] + d /\ d \in {-1, 1} /\ p2[p] = 2 * pos[p] /\ p2[m] = 2 * pos[m]
      /\ pos[p] \in Int /\ pos[m] \in Int /\ p \in t
      /\ m # p => pos[m] # pos[p]
      /\ \A x \in t : p2[x] = 2 * pos[x] /\ pos[x] \in Int
  BY <1>0 DEF GrownIs
<1>2. \A x \in t : p2[m] < p2[x] <=> pos[m] < pos[x]
  BY <1>1
<1> QED
  BY <1>1, <1>2

LEMMA GrownOrdered ==
  ASSUME NEW t, NEW sub, NEW pos, NEW p, NEW n \in Node, NEW d, NEW s2, NEW p2,
         Grown(t, sub, pos, p, n, d, s2, p2), Ordered(t, sub, pos)
  PROVE  Ordered(t \cup {n}, s2, p2)
<1>0. GrownIs(t, sub, pos, p, n, d, s2, p2)
  BY GrownParts
<1> DEFINE u == t \cup {n}
<1>1. /\ s2[n] = {n} /\ p \in t /\ n \notin t
      /\ \A m \in t : /\ s2[m] = IF p \in sub[m] THEN sub[m] \cup {n} ELSE sub[m]
                      /\ n \notin sub[m] /\ m \in sub[m] /\ sub[m] \in SUBSET t
                      /\ \A x \in sub[m] : sub[x] \subseteq sub[m]
  BY <1>0 DEF GrownIs
<1>2. \A m \in t : /\ m # p => /\ p2[n] < p2[m] <=> pos[p] < pos[m]
                               /\ p2[m] < p2[n] <=> pos[m] < pos[p]
                   /\ p2[m] # p2[n]
                   /\ \A x \in t : p2[m] < p2[x] <=> pos[m] < pos[x]
  BY GrownBetween
<1>3. u \subseteq Node /\ s2 \in [u -> SUBSET u] /\ p2 \in [u -> Int]
  BY <1>0 DEF GrownIs, Ordered
<1>4. Injective(u, p2)
  <2>1. \A m, x \in t : p2[m] = p2[x] => m = x
    <3>1. \A m \in t : p2[m] = 2 * pos[m] /\ pos[m] \in Int
      BY <1>0 DEF GrownIs
    <3>2. \A m, x \in t : pos[m] = pos[x] => m = x
      BY <1>0 DEF GrownIs
    <3> QED
      BY <3>1, <3>2
  <2> QED
    BY <1>2, <2>1 DEF Injective
<1>5. Nested(u, s2)
  <2>1. \A m \in u : m \in s2[m]
    BY <1>1
  <2>2. ASSUME NEW m \in u, NEW x \in s2[m] PROVE s2[x] \subseteq s2[m]
    <3>1. CASE m = n
      BY <1>1, <3>1, <2>2
    <3>2. CASE m \in t /\ x = n
      BY <1>1, <3>2, <2>2
    <3>3. CASE m \in t /\ x # n
      <4>1. x \in sub[m] /\ x \in t
        BY <1>1, <3>3, <2>2
      <4>2. sub[x] \subseteq sub[m]
        BY <1>1, <3>3, <4>1
      <4>3. s2[x] = IF p \in sub[x] THEN sub[x] \cup {n} ELSE sub[x]
        BY <1>1, <4>1
      <4>4. s2[m] = IF p \in sub[m] THEN sub[m] \cup {n} ELSE sub[m]
        BY <1>1, <3>3
      <4> QED
        BY <4>2, <4>3, <4>4
    <3> QED
      BY <3>1, <3>2, <3>3
  <2> QED
    BY <2>1, <2>2 DEF Nested
<1>6. OneSide(u, s2, p2)
  <2>0. \A m \in t : \A x \in t \ sub[m] : \A y, z \in sub[m] : pos[x] < pos[y] => pos[x] < pos[z]
    BY DEF Ordered, OneSide
  <2> SUFFICES ASSUME NEW m \in u, NEW x \in u \ s2[m], NEW y \in s2[m], NEW z \in s2[m],
                      p2[x] < p2[y]
               PROVE  p2[x] < p2[z]
    BY DEF OneSide
  <2>1. CASE m = n
    BY <1>1, <2>1
  <2>2. CASE m \in t
    <3> DEFINE old(w) == IF w = n THEN p ELSE w
    <3>1. s2[m] = IF p \in sub[m] THEN sub[m] \cup {n} ELSE sub[m]
      BY <1>1, <2>2
    <3>2. old(y) \in sub[m] /\ old(z) \in sub[m] /\ old(y) \in t /\ old(z) \in t
      BY <1>1, <2>2, <3>1
    <3>3. old(x) \in t \ sub[m]
      BY <1>1, <2>2, <3>1
    <3>4. ASSUME NEW w \in s2[m] PROVE p2[x] < p2[w] <=> pos[old(x)] < pos[old(w)]
      <4>1. old(w) \in sub[m] /\ old(w) \in t /\ old(w) # old(x) /\ x # w
        BY <1>1, <2>2, <3>1, <3>3
      <4>2. CASE x = n
        <5>1. w # n /\ w \in t /\ w # p
          BY <4>1, <4>2
        <5> QED
          BY <1>2, <4>2, <5>1
      <4>3. CASE x # n /\ w = n
        <5>1. x \in t /\ x # p
          BY <4>1, <4>3
        <5> QED
          BY <1>2, <4>3, <5>1
      <4>4. CASE x # n /\ w # n
        BY <1>2, <4>1, <4>4
      <4> QED
        BY <4>2, <4>3, <4>4
    <3>5. pos[old(x)] < pos[old(z)]
      <4>1. pos[old(x)] < pos[old(y)]
        BY <3>4
      <4> HIDE DEF old
      <4> QED
        BY <2>0, <2>2, <3>2, <3>3, <4>1
    <3> QED
      BY <3>4, <3>5
  <2> QED
    BY <2>1, <2>2
<1> QED
  BY <1>3, <1>4, <1>5, <1>6 DEF Ordered

\* What n gets, and what it adds to the halves of other nodes.
LEMMA GrownHalves ==
  ASSUME NEW t, NEW sub, NEW pos, NEW p, NEW n, NEW d, NEW s2, NEW p2,
         Grown(t, sub, pos, p, n, d, s2, p2), Ordered(t, sub, pos)
  PROVE  /\ Lower(s2, p2, n) = {} /\ Upper(s2, p2, n) = {}
         /\ d = -1 => Lower(s2, p2, p) = {n} /\ Upper(s2, p2, p) = Upper(sub, pos, p)
         /\ d = 1 => Upper(s2, p2, p) = {n} /\ Lower(s2, p2, p) = Lower(sub, pos, p)
         /\ \A m \in t \ {p} : \A c \in t :
              /\ sub[c] = Lower(sub, pos, m) => s2[c] = Lower(s2, p2, m)
              /\ sub[c] = Upper(sub, pos, m) => s2[c] = Upper(s2, p2, m)
         /\ \A m \in t \ {p} : /\ Lower(sub, pos, m) = {} => Lower(s2, p2, m) = {}
                               /\ Upper(sub, pos, m) = {} => Upper(s2, p2, m) = {}
         /\ \A c \in t : p \notin sub[c] => s2[c] = sub[c]
<1>0. GrownIs(t, sub, pos, p, n, d, s2, p2)
  BY GrownParts
<1>1. /\ s2[n] = {n} /\ p \in t /\ n \notin t /\ d \in {-1, 1}
      /\ \A m \in t : /\ s2[m] = IF p \in sub[m] THEN sub[m] \cup {n} ELSE sub[m]
                      /\ n \notin sub[m] /\ m \in sub[m] /\ sub[m] \in SUBSET t
  BY <1>0 DEF GrownIs
<1>2. /\ p2[n] < p2[p] <=> d = -1
      /\ p2[p] < p2[n] <=> d = 1
      /\ \A m \in t : /\ m # p => /\ p2[n] < p2[m] <=> pos[p] < pos[m]
                                  /\ p2[m] < p2[n] <=> pos[m] < pos[p]
                      /\ \A x \in t : p2[m] < p2[x] <=> pos[m] < pos[x]
  BY <1>1, GrownBetween
<1>3. ~(p2[n] < p2[n])
  <2>1. p2[n] \in Int
    BY <1>0 DEF GrownIs
  <2> QED
    BY <2>1
<1>4. Lower(s2, p2, n) = {} /\ Upper(s2, p2, n) = {}
  BY <1>1, <1>3 DEF Lower, Upper
<1>5. ASSUME NEW m \in t
      PROVE  /\ Lower(s2, p2, m) = Lower(sub, pos, m)
                   \cup IF p \in sub[m] /\ p2[n] < p2[m] THEN {n} ELSE {}
             /\ Upper(s2, p2, m) = Upper(sub, pos, m)
                   \cup IF p \in sub[m] /\ p2[m] < p2[n] THEN {n} ELSE {}
  <2>1. /\ s2[m] = IF p \in sub[m] THEN sub[m] \cup {n} ELSE sub[m]
        /\ sub[m] \in SUBSET t /\ n \notin sub[m]
    BY <1>1
  <2>2. \A x \in sub[m] : (p2[x] < p2[m] <=> pos[x] < pos[m]) /\ (p2[m] < p2[x] <=> pos[m] < pos[x])
    BY <1>2, <2>1
  <2> QED
    BY <2>1, <2>2 DEF Lower, Upper
<1>6. ASSUME d = -1 PROVE Lower(s2, p2, p) = {n} /\ Upper(s2, p2, p) = Upper(sub, pos, p)
  <2>1. Lower(sub, pos, p) = {}
    BY <1>6 DEF Grown
  <2>2. p \in sub[p]
    BY <1>1
  <2>4. -1 # 1
    OBVIOUS
  <2>3. p2[n] < p2[p] /\ ~(p2[p] < p2[n])
    BY <1>2, <1>6, <2>4
  <2>5. /\ Lower(s2, p2, p) = Lower(sub, pos, p) \cup {n}
        /\ Upper(s2, p2, p) = Upper(sub, pos, p) \cup {}
    BY <1>1, <1>5, <2>2, <2>3
  <2> QED
    BY <2>1, <2>5
<1>7. ASSUME d = 1 PROVE Upper(s2, p2, p) = {n} /\ Lower(s2, p2, p) = Lower(sub, pos, p)
  <2>1. Upper(sub, pos, p) = {}
    BY <1>7 DEF Grown
  <2>2. p \in sub[p]
    BY <1>1
  <2>4. -1 # 1
    OBVIOUS
  <2>3. p2[p] < p2[n] /\ ~(p2[n] < p2[p])
    BY <1>2, <1>7, <2>4
  <2>5. /\ Lower(s2, p2, p) = Lower(sub, pos, p) \cup {}
        /\ Upper(s2, p2, p) = Upper(sub, pos, p) \cup {n}
    BY <1>1, <1>5, <2>2, <2>3
  <2> QED
    BY <2>1, <2>5
<1>8. ASSUME NEW m \in t \ {p}
      PROVE  /\ Lower(s2, p2, m) = Lower(sub, pos, m)
                   \cup IF p \in Lower(sub, pos, m) THEN {n} ELSE {}
             /\ Upper(s2, p2, m) = Upper(sub, pos, m)
                   \cup IF p \in Upper(sub, pos, m) THEN {n} ELSE {}
  <2>1. /\ p \in sub[m] /\ p2[n] < p2[m] <=> p \in Lower(sub, pos, m)
        /\ p \in sub[m] /\ p2[m] < p2[n] <=> p \in Upper(sub, pos, m)
    BY <1>2 DEF Lower, Upper
  <2> QED
    BY <1>5, <2>1
<1>9. /\ \A m \in t \ {p} : \A c \in t :
           /\ sub[c] = Lower(sub, pos, m) => s2[c] = Lower(s2, p2, m)
           /\ sub[c] = Upper(sub, pos, m) => s2[c] = Upper(s2, p2, m)
      /\ \A m \in t \ {p} : /\ Lower(sub, pos, m) = {} => Lower(s2, p2, m) = {}
                            /\ Upper(sub, pos, m) = {} => Upper(s2, p2, m) = {}
      /\ \A c \in t : p \notin sub[c] => s2[c] = sub[c]
  <2>1. \A c \in t : s2[c] = IF p \in sub[c] THEN sub[c] \cup {n} ELSE sub[c]
    BY <1>1
  <2> QED
    BY <1>8, <2>1
<1> QED
  BY <1>4, <1>6, <1>7, <1>9

\* The links once n hangs below p, on the left if before.
LinkedBelow(n, p, before) ==
  /\ \A m \in Node : /\ left'[m] = IF m = n THEN null ELSE IF m = p /\ before THEN n ELSE left[m]
                     /\ right'[m] = IF m = n THEN null ELSE IF m = p /\ ~before THEN n ELSE right[m]
                     /\ parent'[m] = IF m = n THEN p ELSE parent[m]
  /\ left' \in [Node -> Node \cup {null}] /\ right' \in [Node -> Node \cup {null}]
  /\ parent' \in [Node -> Node \cup {null}]

LEMMA InsertLinked ==
  ASSUME NEW t, NEW sub, NEW pos, NEW r, NEW b, TreeNow(t, sub, pos, r, b),
         NEW n \in Node, NEW k \in OrderedKey, M!insert(n, k), root # null
  PROVE  LET p == M!helper1(k) IN
           /\ p \in t /\ n \notin t /\ n \notin live /\ n # null
           /\ LinkedBelow(n, p, k < key[p])
           /\ root' = root /\ live' = live \cup {n}
           /\ key' = [m \in Node |-> IF m = n THEN k ELSE key[m]]
<1> DEFINE p == M!helper1(k)
<1>1. k \in Nat /\ null \notin Node
  BY ContainersAssumption DEF ContainersAssumption, M!BinaryTreeMapAssumption
<1>2. p \in t
  BY <1>1, LastIs
<1>3. /\ t \subseteq live /\ live \subseteq Node /\ key = [m \in Node |-> key[m]]
      /\ left \in [Node -> Node \cup {null}] /\ right \in [Node -> Node \cup {null}]
      /\ parent \in [Node -> Node \cup {null}]
  BY DEF TreeNow, TState, Fields
<1>4. /\ n \notin live /\ live' = live \cup {n} /\ key' = [key EXCEPT ![n] = k] /\ root' = root
      /\ parent' = [parent EXCEPT ![n] = p]
      /\ left' = [left EXCEPT ![n] = null, ![p] = IF k < key[p] THEN n ELSE @]
      /\ right' = [right EXCEPT ![n] = null, ![p] = IF k < key[p] THEN @ ELSE n]
  BY Zenon DEF M!insert
<1> HIDE DEF p
<1>5. n \notin t /\ n # p /\ p \in Node /\ n # null
  BY <1>1, <1>2, <1>3, <1>4
<1>6. LinkedBelow(n, p, k < key[p])
  BY <1>3, <1>4, <1>5 DEF LinkedBelow
<1>7. key' = [m \in Node |-> IF m = n THEN k ELSE key[m]]
  BY <1>3, <1>4
<1> QED
  BY <1>2, <1>4, <1>5, <1>6, <1>7 DEF p

LEMMA InsertFields ==
  ASSUME NEW t, NEW sub, NEW pos, NEW r, NEW b, TreeNow(t, sub, pos, r, b),
         NEW n \in Node, NEW p \in t \cup {null}, NEW before \in BOOLEAN, LinkedBelow(n, p, before),
         root' \in Node \cup {null}, live' = live \cup {n}, NEW k,
         key' = [m \in Node |-> IF m = n THEN k ELSE key[m]],
         n \notin live, n # null
  PROVE  /\ Fields(root', key', left', right', parent', live', t \cup {n})
         /\ Cut(t \cup {n}, left', right', live')
         /\ \E q, c : Ranked(left', right', q, c)
<1>1. /\ root \in Node \cup {null} /\ t \subseteq live /\ live \subseteq Node
      /\ left \in [Node -> Node \cup {null}] /\ right \in [Node -> Node \cup {null}]
      /\ \A m \in Node : {left[m], right[m]} \subseteq live \cup {null}
      /\ \A m \in Node \ t : left[m] \notin t /\ right[m] \notin t
      /\ b \in Nat /\ r \in [Node -> 0..b]
      /\ \A m \in Node : /\ left[m] # null => r[left[m]] < r[m]
                         /\ right[m] # null => r[right[m]] < r[m]
  BY DEF TreeNow, TState, Fields, Cut, Ranked
<1>2. \A m \in Node :
        /\ left'[m] = IF m = n THEN null ELSE IF m = p /\ before THEN n ELSE left[m]
        /\ right'[m] = IF m = n THEN null ELSE IF m = p /\ ~before THEN n ELSE right[m]
  BY DEF LinkedBelow
<1>3. Fields(root', key', left', right', parent', live', t \cup {n})
  <2>1. key' = [m \in Node |-> key'[m]]
    BY Zenon
  <2>2. IsFiniteSet(t)
    BY DEF TreeNow, TState, Fields
  <2>3. IsFiniteSet(t \cup {n})
    BY <2>2, FS_AddElement
  <2> QED
    BY <1>1, <2>1, <2>3 DEF Fields, LinkedBelow
<1>4. \A m \in Node : left[m] # n /\ right[m] # n
  BY <1>1
<1>5. Cut(t \cup {n}, left', right', live')
  <2>1. \A m \in Node \ t : m # p
    BY ContainersAssumption DEF ContainersAssumption, M!BinaryTreeMapAssumption
  <2> QED
    BY <1>1, <1>2, <1>4, <2>1 DEF Cut
<1> DEFINE q == [m \in Node |-> IF m = n THEN 0 ELSE r[m] + 1]
<1>6. Ranked(left', right', q, b + 1)
  <2>1. b + 1 \in Nat /\ 0 \in 0..b + 1 /\ \A x \in 0..b : x + 1 \in 0..b + 1 /\ x + 1 > 0
    BY <1>1
  <2>2. \A m \in Node : r[m] \in 0..b
    BY <1>1
  <2>3. q \in [Node -> 0..b + 1]
    BY <2>1, <2>2
  <2>4. q[n] = 0 /\ \A m \in Node : m # n => q[m] = r[m] + 1
    OBVIOUS
  <2> HIDE DEF q
  <2>5. ASSUME NEW m \in Node, NEW c \in Node \cup {null}, c # null, c # n, m # n, r[c] < r[m]
        PROVE  q[c] < q[m]
    BY <2>2, <2>4, <2>5
  <2>6. ASSUME NEW m \in Node PROVE /\ left'[m] # null => q[left'[m]] < q[m]
                                    /\ right'[m] # null => q[right'[m]] < q[m]
    <3>1. CASE m = n
      BY <1>2, <3>1
    <3>2. CASE m # n
      <4>1. q[n] < q[m]
        BY <2>1, <2>2, <2>4, <3>2
      <4>2. left[m] \in Node \cup {null} /\ right[m] \in Node \cup {null}
        BY <1>1
      <4>3. /\ left[m] # null => q[left[m]] < q[m]
            /\ right[m] # null => q[right[m]] < q[m]
        BY <1>1, <1>4, <2>5, <3>2, <4>2
      <4> QED
        BY <1>2, <3>2, <4>1, <4>3
    <3> QED
      BY <3>1, <3>2
  <2> QED
    BY <2>1, <2>3, <2>6 DEF Ranked
<1> QED
  BY <1>3, <1>5, <1>6

LEMMA InsertHung ==
  ASSUME NEW t, NEW sub, NEW pos, NEW r, NEW b, TreeNow(t, sub, pos, r, b),
         NEW n \in Node, NEW p \in t, NEW d, LinkedBelow(n, p, d = -1),
         NEW s2, NEW p2, Grown(t, sub, pos, p, n, d, s2, p2),
         d = -1 => left[p] = null, d = 1 => right[p] = null, n # null, root' = root, root # null
  PROVE  /\ Hung(t \cup {n}, s2, p2, left', right', parent')
         /\ Climbs(t \cup {n}, s2, left', right', parent')
         /\ Rooted(t \cup {n}, s2, root', parent')
<1> DEFINE u == t \cup {n}
<1>1. /\ Ordered(t, sub, pos) /\ t \subseteq Node
      /\ \A m \in t : m # null /\ m \in Node
      /\ \A m \in t : /\ Hangs(t, sub, parent, m, left[m], Lower(sub, pos, m))
                      /\ Hangs(t, sub, parent, m, right[m], Upper(sub, pos, m))
  BY NodeFacts DEF TreeNow, TState, IsTree, Hung, Ordered
<1>2. /\ p \in t /\ n \notin t /\ d \in {-1, 1} /\ s2[n] = {n}
      /\ \A m \in t : s2[m] = IF p \in sub[m] THEN sub[m] \cup {n} ELSE sub[m]
      /\ \A m \in t : n \notin sub[m] /\ m \in sub[m] /\ sub[m] \subseteq t
  <2>1. GrownIs(t, sub, pos, p, n, d, s2, p2)
    BY <1>1, GrownParts
  <2> QED
    BY <2>1 DEF GrownIs
<1>3. /\ Lower(s2, p2, n) = {} /\ Upper(s2, p2, n) = {}
      /\ d = -1 => Lower(s2, p2, p) = {n} /\ Upper(s2, p2, p) = Upper(sub, pos, p)
      /\ d = 1 => Upper(s2, p2, p) = {n} /\ Lower(s2, p2, p) = Lower(sub, pos, p)
      /\ \A m \in t \ {p} : \A c \in t :
           /\ sub[c] = Lower(sub, pos, m) => s2[c] = Lower(s2, p2, m)
           /\ sub[c] = Upper(sub, pos, m) => s2[c] = Upper(s2, p2, m)
      /\ \A m \in t \ {p} : /\ Lower(sub, pos, m) = {} => Lower(s2, p2, m) = {}
                            /\ Upper(sub, pos, m) = {} => Upper(s2, p2, m) = {}
      /\ \A c \in t : p \notin sub[c] => s2[c] = sub[c]
  BY <1>1, GrownHalves
<1>4. \A m \in Node :
        /\ left'[m] = IF m = n THEN null ELSE IF m = p /\ d = -1 THEN n ELSE left[m]
        /\ right'[m] = IF m = n THEN null ELSE IF m = p /\ ~(d = -1) THEN n ELSE right[m]
        /\ parent'[m] = IF m = n THEN p ELSE parent[m]
  BY DEF LinkedBelow
<1>5. (d = -1 \/ d = 1) /\ -1 # 1
  BY <1>2
<1>6. \A m \in t : parent'[m] = parent[m]
  BY <1>1, <1>2, <1>4
<1>7. Hung(u, s2, p2, left', right', parent')
  <2>1. ASSUME NEW m \in u
        PROVE  /\ Hangs(u, s2, parent', m, left'[m], Lower(s2, p2, m))
               /\ Hangs(u, s2, parent', m, right'[m], Upper(s2, p2, m))
    <3>1. CASE m = n
      BY <1>3, <1>4, <3>1 DEF Hangs
    <3>2. CASE m = p /\ d = -1
      <4>1. left'[p] = n /\ right'[p] = right[p] /\ parent'[n] = p
        BY <1>1, <1>2, <1>4, <1>5, <3>2
      <4>2. p \notin Upper(sub, pos, p)
        BY <1>1 DEF Upper, Ordered
      <4>3. Hangs(u, s2, parent', p, right[p], Upper(sub, pos, p))
        BY <1>1, <1>3, <1>6, <4>2 DEF Hangs
      <4>4. Hangs(u, s2, parent', p, n, {n})
        BY <1>2, <4>1 DEF Hangs
      <4> QED
        BY <1>3, <3>2, <4>1, <4>3, <4>4
    <3>3. CASE m = p /\ d = 1
      <4>1. right'[p] = n /\ left'[p] = left[p] /\ parent'[n] = p
        BY <1>1, <1>2, <1>4, <1>5, <3>3
      <4>2. p \notin Lower(sub, pos, p)
        BY <1>1 DEF Lower, Ordered
      <4>3. Hangs(u, s2, parent', p, left[p], Lower(sub, pos, p))
        BY <1>1, <1>3, <1>6, <4>2 DEF Hangs
      <4>4. Hangs(u, s2, parent', p, n, {n})
        BY <1>2, <4>1 DEF Hangs
      <4> QED
        BY <1>3, <3>3, <4>1, <4>3, <4>4
    <3>4. CASE m \in t \ {p}
      <4>1. left'[m] = left[m] /\ right'[m] = right[m]
        BY <1>1, <1>2, <1>4, <3>4
      <4>2. /\ Hangs(t, sub, parent, m, left[m], Lower(sub, pos, m))
            /\ Hangs(t, sub, parent, m, right[m], Upper(sub, pos, m))
        BY <1>1, <3>4
      <4>3. Hangs(u, s2, parent', m, left[m], Lower(s2, p2, m))
        BY <1>3, <1>6, <3>4, <4>2 DEF Hangs
      <4>4. Hangs(u, s2, parent', m, right[m], Upper(s2, p2, m))
        BY <1>3, <1>6, <3>4, <4>2 DEF Hangs
      <4> QED
        BY <4>1, <4>3, <4>4
    <3> QED
      BY <1>5, <3>1, <3>2, <3>3, <3>4
  <2> QED
    BY <2>1 DEF Hung
<1>8. Climbs(u, s2, left', right', parent')
  <2>1. \A m \in t : /\ parent[m] # null => parent[m] \in t /\ m \in {left[parent[m]], right[parent[m]]}
                     /\ \A x \in sub[m] \ {m} : parent[x] \in sub[m]
    BY DEF TreeNow, TState, IsTree, Climbs
  <2>2. ASSUME NEW m \in u, parent'[m] # null
        PROVE  parent'[m] \in u /\ m \in {left'[parent'[m]], right'[parent'[m]]}
    <3>1. CASE m = n
      <4>1. parent'[m] = p /\ (left'[p] = n \/ right'[p] = n)
        BY <1>1, <1>2, <1>4, <3>1
      <4> QED
        BY <3>1, <4>1
    <3>2. CASE m \in t
      <4> DEFINE q == parent[m]
      <4>1. parent'[m] = q /\ q \in t /\ q # n /\ m \in {left[q], right[q]}
        BY <1>2, <1>6, <2>1, <2>2, <3>2
      <4>2. /\ left'[q] = IF q = p /\ d = -1 THEN n ELSE left[q]
            /\ right'[q] = IF q = p /\ ~(d = -1) THEN n ELSE right[q]
        BY <1>1, <1>4, <4>1
      <4>3. m # null /\ (q = p /\ d = -1 => left[q] = null) /\ (q = p /\ d = 1 => right[q] = null)
        BY <1>1, <3>2
      <4> HIDE DEF q
      <4>4. CASE m = left[q]
        BY <4>1, <4>2, <4>3, <4>4
      <4>5. CASE m = right[q]
        BY <1>5, <4>1, <4>2, <4>3, <4>5
      <4> QED
        BY <4>1, <4>4, <4>5
    <3> QED
      BY <3>1, <3>2
  <2>3. ASSUME NEW m \in u, NEW x \in s2[m] \ {m} PROVE parent'[x] \in s2[m]
    <3>1. m \in t /\ (x = n => p \in sub[m])
      BY <1>2, <2>3
    <3>2. CASE x = n
      <4>1. parent'[x] = p
        BY <1>4, <3>2
      <4> QED
        BY <1>2, <3>1, <3>2, <4>1
    <3>3. CASE x # n
      <4>1. x \in sub[m] \ {m} /\ x \in t
        BY <1>2, <2>3, <3>1, <3>3
      <4>2. parent'[x] \in sub[m]
        BY <1>6, <2>1, <3>1, <4>1
      <4> QED
        BY <1>2, <3>1, <4>2
    <3> QED
      BY <3>2, <3>3
  <2> QED
    BY <2>2, <2>3 DEF Climbs
<1>9. Rooted(u, s2, root', parent')
  <2>1. root \in t /\ sub[root] = t /\ parent[root] = null
    BY TreeFacts DEF Rooted
  <2>2. s2[root] = u
    BY <1>2, <2>1
  <2> QED
    BY <1>6, <2>1, <2>2 DEF Rooted
<1> QED
  BY <1>7, <1>8, <1>9

LEMMA InsertSorted ==
  ASSUME NEW t, NEW sub, NEW pos, NEW r, NEW b, TreeNow(t, sub, pos, r, b),
         NEW n \in Node, NEW p \in t, NEW d, NEW k \in OrderedKey,
         NEW s2, NEW p2, Grown(t, sub, pos, p, n, d, s2, p2),
         d = IF k < key[p] THEN -1 ELSE 1, Bracket(t, sub, pos, k, p),
         key' = [m \in Node |-> IF m = n THEN k ELSE key[m]]
  PROVE  Sorted(t \cup {n}, p2, key')
<1>1. /\ Ordered(t, sub, pos) /\ t \subseteq Node /\ n \notin t /\ k \in Nat
      /\ d = -1 => Lower(sub, pos, p) = {}
      /\ d = 1 => Upper(sub, pos, p) = {}
  BY ContainersAssumption
     DEF TreeNow, TState, IsTree, Ordered, Grown, ContainersAssumption, M!BinaryTreeMapAssumption
<1>2. \A m \in t : /\ key[m] \in Nat /\ key[m] \in OrderedKey
                   /\ \A x \in t : pos[x] < pos[m] => key[x] <= key[m]
  BY SortedKeys
<1>3. /\ p2[n] < p2[p] <=> d = -1
      /\ p2[p] < p2[n] <=> d = 1
      /\ \A m \in t : /\ m # p => /\ p2[n] < p2[m] <=> pos[p] < pos[m]
                                  /\ p2[m] < p2[n] <=> pos[m] < pos[p]
                      /\ \A x \in t : p2[m] < p2[x] <=> pos[m] < pos[x]
  BY <1>1, GrownBetween
<1>4. -1 # 1 /\ ~(p2[n] < p2[n])
  <2>1. GrownIs(t, sub, pos, p, n, d, s2, p2)
    BY <1>1, GrownParts
  <2>2. p2 \in [t \cup {n} -> Int]
    BY <2>1 DEF GrownIs
  <2>3. p2[n] \in Int
    BY <2>2
  <2> QED
    BY <2>3
<1>5. ASSUME NEW m \in t
      PROVE  (p2[m] < p2[n] => key[m] <= k) /\ (p2[n] < p2[m] => k <= key[m])
  <2>1. CASE m = p
    BY <1>2, <1>3, <1>1, <1>4, <2>1
  <2>2. CASE m # p /\ m \notin sub[p]
    BY <1>3, <2>2 DEF Bracket
  <2>3. CASE m # p /\ m \in sub[p]
    <3>1. pos[m] < pos[p] => d = 1 /\ key[m] <= key[p]
      BY <1>1, <1>2, <2>3 DEF Lower
    <3>2. pos[p] < pos[m] => d = -1 /\ key[p] <= key[m]
      BY <1>1, <1>2, <2>3 DEF Upper
    <3> QED
      BY <1>1, <1>2, <1>3, <1>4, <2>3, <3>1, <3>2
  <2> QED
    BY <2>1, <2>2, <2>3
<1>6. key'[n] = k /\ \A m \in t : key'[m] = key[m]
  BY <1>1
<1>7. ASSUME NEW m \in t \cup {n}
      PROVE  key'[m] \in OrderedKey /\ \A x \in t \cup {n} : p2[x] < p2[m] => key'[x] <= key'[m]
  BY <1>1, <1>2, <1>3, <1>4, <1>5, <1>6
<1> QED
  BY <1>7 DEF Sorted

LEMMA InsertTree ==
  ASSUME TInv, NEW n \in Node, NEW k \in OrderedKey, M!insert(n, k), root # null
  PROVE  TInv'
<1>1. PICK t, sub, pos, r, b : TreeNow(t, sub, pos, r, b)
  BY DEF TInv
<1> DEFINE p == M!helper1(k)
           d == IF k < key[p] THEN -1 ELSE 1
<1>0. PICK s2, p2 : s2 = GrownSub(t, sub, p, n) /\ p2 = GrownPos(t, pos, p, n, d)
  OBVIOUS
<1>2. /\ p \in t /\ n \notin t /\ n \notin live /\ n # null
      /\ LinkedBelow(n, p, k < key[p])
      /\ root' = root /\ live' = live \cup {n}
      /\ key' = [m \in Node |-> IF m = n THEN k ELSE key[m]]
  BY <1>1, InsertLinked
<1>3. k \in Nat /\ -1 # 1
  BY ContainersAssumption DEF ContainersAssumption, M!BinaryTreeMapAssumption
<1>4. Side(k, p) = null /\ Bracket(t, sub, pos, k, p)
  BY <1>1, <1>3, LastIs
<1> HIDE DEF p
<1>5. /\ d = IF k < key[p] THEN -1 ELSE 1
      /\ (k < key[p]) <=> d = -1
      /\ d = -1 => left[p] = null
      /\ d = 1 => right[p] = null
      /\ d \in {-1, 1}
  BY <1>3, <1>4 DEF Side
<1>6. LinkedBelow(n, p, d = -1)
  BY <1>2, <1>5, Zenon DEF LinkedBelow
<1>7. Grown(t, sub, pos, p, n, d, s2, p2)
  <2>1. /\ Hangs(t, sub, parent, p, left[p], Lower(sub, pos, p))
        /\ Hangs(t, sub, parent, p, right[p], Upper(sub, pos, p))
        /\ \A m \in t : m # null
    BY <1>1, <1>2, NodeFacts
  <2> HIDE DEF d
  <2>2. /\ d = -1 => Lower(sub, pos, p) = {}
        /\ d = 1 => Upper(sub, pos, p) = {}
    BY <1>5, <2>1 DEF Hangs
  <2> QED
    BY <1>0, <1>2, <1>5, <2>2 DEF Grown, d
<1>8. Ordered(t, sub, pos)
  BY <1>1 DEF TreeNow, TState, IsTree
<1> HIDE DEF d
<1>9. Ordered(t \cup {n}, s2, p2)
  BY <1>7, <1>8, GrownOrdered
<1>10. /\ Hung(t \cup {n}, s2, p2, left', right', parent')
       /\ Climbs(t \cup {n}, s2, left', right', parent')
       /\ Rooted(t \cup {n}, s2, root', parent')
  BY <1>1, <1>2, <1>5, <1>6, <1>7, InsertHung
<1>11. Sorted(t \cup {n}, p2, key')
  BY <1>1, <1>2, <1>4, <1>5, <1>7, InsertSorted
<1>12. /\ Fields(root', key', left', right', parent', live', t \cup {n})
       /\ Cut(t \cup {n}, left', right', live')
       /\ \E q, c : Ranked(left', right', q, c)
  <2>1. root' \in Node \cup {null} /\ p \in t \cup {null} /\ (d = -1) \in BOOLEAN
    BY <1>1, <1>2, TreeFacts
  <2> QED
    BY <1>1, <1>2, <1>6, <2>1, InsertFields
<1>13. PICK q, c : Ranked(left', right', q, c)
  BY <1>12
<1>14. TState(root', key', left', right', parent', live', t \cup {n}, s2, p2, q, c)
  BY <1>9, <1>10, <1>11, <1>12, <1>13 DEF TState, IsTree
<1> QED
  BY <1>14 DEF TInv, TreeNow

LEMMA EmptyTree ==
  ASSUME NEW sub, NEW pos, sub = [m \in {} |-> {}], pos = [m \in {} |-> 0]
  PROVE  /\ Ordered({}, sub, pos) /\ \A ky : Sorted({}, pos, ky)
         /\ \A lf, rg, pa : /\ Hung({}, sub, pos, lf, rg, pa) /\ Climbs({}, sub, lf, rg, pa)
                            /\ Rooted({}, sub, null, pa)
BY DEF Ordered, Injective, Nested, OneSide, Hung, Climbs, Rooted, Sorted

LEMMA InsertRoot ==
  ASSUME TInv, NEW n \in Node, NEW k \in OrderedKey, M!insert(n, k), root = null
  PROVE  TInv'
<1>1. PICK t, sub, pos, r, b : TreeNow(t, sub, pos, r, b)
  BY DEF TInv
<1>2. t = {} /\ t \cup {n} = {n}
  BY <1>1, TreeFacts DEF Rooted
<1>3. n # null /\ null \notin Node
  BY ContainersAssumption DEF ContainersAssumption, M!BinaryTreeMapAssumption
<1>4. /\ n \notin live /\ live' = live \cup {n} /\ key' = [key EXCEPT ![n] = k] /\ root' = n
      /\ parent' = [parent EXCEPT ![n] = null]
      /\ left' = [left EXCEPT ![n] = null] /\ right' = [right EXCEPT ![n] = null]
  BY Zenon DEF M!insert
<1>5. /\ key = [m \in Node |-> key[m]]
      /\ left \in [Node -> Node \cup {null}] /\ right \in [Node -> Node \cup {null}]
      /\ parent \in [Node -> Node \cup {null}]
  BY <1>1 DEF TreeNow, TState, Fields
<1>6. key' = [m \in Node |-> IF m = n THEN k ELSE key[m]]
  BY <1>4, <1>5
<1>7. LinkedBelow(n, null, FALSE)
  BY <1>3, <1>4, <1>5 DEF LinkedBelow
<1>8. /\ Fields(root', key', left', right', parent', live', {n})
      /\ Cut({n}, left', right', live')
      /\ \E q, c : Ranked(left', right', q, c)
  <2>1. root' \in Node \cup {null} /\ null \in t \cup {null} /\ FALSE \in BOOLEAN
    BY <1>4
  <2> QED
    <3>1. /\ Fields(root', key', left', right', parent', live', t \cup {n})
          /\ Cut(t \cup {n}, left', right', live')
          /\ \E q, c : Ranked(left', right', q, c)
      BY <1>1, <1>3, <1>4, <1>6, <1>7, <2>1, InsertFields
    <3> QED
      BY <1>2, <3>1
<1> DEFINE s2 == [m \in {n} |-> {n}]
           p2 == [m \in {n} |-> 0]
<1>9. s2 \in [{n} -> SUBSET {n}] /\ p2 \in [{n} -> Int] /\ s2[n] = {n} /\ p2[n] = 0 /\ ~(0 < 0)
  OBVIOUS
<1>10. left'[n] = null /\ right'[n] = null /\ parent'[n] = null /\ key'[n] = k
  BY <1>4, <1>5
<1> HIDE DEF s2, p2
<1>11. Ordered({n}, s2, p2) /\ Lower(s2, p2, n) = {} /\ Upper(s2, p2, n) = {}
  BY <1>9 DEF Ordered, Injective, Nested, OneSide, Lower, Upper
<1>12. /\ Hung({n}, s2, p2, left', right', parent') /\ Climbs({n}, s2, left', right', parent')
       /\ Rooted({n}, s2, root', parent') /\ Sorted({n}, p2, key')
  BY <1>3, <1>4, <1>9, <1>10, <1>11 DEF Hung, Hangs, Climbs, Rooted, Sorted
<1>13. PICK q, c : Ranked(left', right', q, c)
  BY <1>8
<1>14. TState(root', key', left', right', parent', live', {n}, s2, p2, q, c)
  BY <1>8, <1>11, <1>12, <1>13 DEF TState, IsTree
<1> QED
  BY <1>14 DEF TInv, TreeNow

-----------------------------------------------------------------------------
(* erase deletes su and cuts off what su holds. *)

LEMMA VictimIs ==
  ASSUME NEW t, NEW sub, NEW pos, NEW r, NEW b, TreeNow(t, sub, pos, r, b), NEW node \in t
  PROVE  LET su == M!Victim(node) IN
           /\ su \in t /\ M!chile(su) = null
           /\ su # node => /\ pos[node] < pos[su]
                           /\ \A m \in t : pos[node] < pos[m] => pos[su] <= pos[m]
<1>1. CASE left[node] # null /\ right[node] # null
  <2> DEFINE su == M!minn[right[node]]
  <2>1. right[node] \in t /\ sub[right[node]] = Upper(sub, pos, node) /\ sub[node] \subseteq t
    BY <1>1, NodeFacts DEF Hangs
  <2>2. FirstHeld(sub, pos, right[node], su) /\ left[su] = null
    BY <2>1, MinnIs
  <2>3. su \in t /\ pos[node] < pos[su]
    BY <2>1, <2>2 DEF FirstHeld, Upper
  <2>4. M!successor(node) = su /\ M!Victim(node) = su
    BY <1>1 DEF M!successor, M!Victim
  <2>5. FirstOf(pos, After(t, pos, node), su)
    BY <2>4, SuccessorIs
  <2>6. \A m \in t : pos[node] < pos[m] => pos[su] <= pos[m]
    BY <2>5 DEF FirstOf, After
  <2>7. M!chile(su) = null
    BY <2>2 DEF M!chile
  <2> QED
    BY <2>3, <2>4, <2>6, <2>7
<1>2. CASE ~(left[node] # null /\ right[node] # null)
  BY <1>2 DEF M!Victim, M!chile
<1> QED
  BY <1>1, <1>2

\* The links once su, whose parent is p, is deleted.
LinkedWithout(su, p) ==
  /\ \A m \in Node :
       /\ left'[m] = IF m = su \/ (m = p /\ left[p] = su) THEN null ELSE left[m]
       /\ right'[m] = IF m = su \/ (m = p /\ left[p] # su) THEN null ELSE right[m]
       /\ parent'[m] = IF m = su THEN null ELSE parent[m]
  /\ left' \in [Node -> Node \cup {null}] /\ right' \in [Node -> Node \cup {null}]
  /\ parent' \in [Node -> Node \cup {null}]

LEMMA EraseLinked ==
  ASSUME NEW t, NEW sub, NEW pos, NEW r, NEW b, TreeNow(t, sub, pos, r, b),
         NEW k \in OrderedKey, M!erase(k)
  PROVE  \E node \in t : LET su == M!Victim(node) IN
           /\ su \in t
           /\ su # node => /\ pos[node] < pos[su]
                           /\ \A m \in t : pos[node] < pos[m] => pos[su] <= pos[m]
           /\ LinkedWithout(su, parent[su])
           /\ root' = IF parent[su] = null THEN null ELSE root
           /\ live' = live \ {su}
           /\ key' = [key EXCEPT ![node] = key[su], ![su] = M!Min(OrderedKey)]
<1> DEFINE node == M!find(k)
           su == M!Victim(node)
           p == parent[su]
<1>1. k \in Nat /\ null \notin Node
  BY ContainersAssumption DEF ContainersAssumption, M!BinaryTreeMapAssumption
<1>2. node # null
  BY Zenon DEF M!erase
<1>3. node \in t
  BY <1>1, <1>2, FindIs
<1> HIDE DEF node
<1>4. /\ su \in t /\ M!chile(su) = null
      /\ su # node => /\ pos[node] < pos[su]
                      /\ \A m \in t : pos[node] < pos[m] => pos[su] <= pos[m]
  BY <1>3, VictimIs
<1>5. /\ key' = [key EXCEPT ![node] = key[su], ![su] = M!Min(OrderedKey)]
      /\ root' = IF p = null THEN M!chile(su) ELSE root
      /\ left' = [left EXCEPT ![su] = null,
                              ![p] = IF p # null /\ left[p] = su THEN M!chile(su) ELSE @]
      /\ right' = [right EXCEPT ![su] = null,
                                ![p] = IF p # null /\ left[p] # su THEN M!chile(su) ELSE @]
      /\ parent' = [parent EXCEPT ![su] = null]
      /\ live' = live \ {su}
  BY Zenon DEF M!erase, node
<1> HIDE DEF su
<1>6. /\ t \subseteq live /\ live \subseteq Node
      /\ left \in [Node -> Node \cup {null}] /\ right \in [Node -> Node \cup {null}]
      /\ parent \in [Node -> Node \cup {null}]
  BY DEF TreeNow, TState, Fields
<1>7. su \in Node /\ p \in Node \cup {null}
  BY <1>4, <1>6
<1> HIDE DEF p
<1>8. LinkedWithout(su, p)
  <2>1. \A m \in Node : left'[m] = IF m = su \/ (m = p /\ left[p] = su) THEN null ELSE left[m]
    BY <1>1, <1>4, <1>5, <1>6, <1>7
  <2>2. \A m \in Node : right'[m] = IF m = su \/ (m = p /\ left[p] # su) THEN null ELSE right[m]
    BY <1>1, <1>4, <1>5, <1>6, <1>7
  <2>3. \A m \in Node : parent'[m] = IF m = su THEN null ELSE parent[m]
    BY <1>5, <1>6, <1>7
  <2>4. left' \in [Node -> Node \cup {null}]
    BY <1>4, <1>5, <1>6, <1>7
  <2>5. right' \in [Node -> Node \cup {null}]
    BY <1>4, <1>5, <1>6, <1>7
  <2>6. parent' \in [Node -> Node \cup {null}]
    BY <1>5, <1>6, <1>7
  <2> QED
    BY <2>1, <2>2, <2>3, <2>4, <2>5, <2>6 DEF LinkedWithout
<1> QED
  BY <1>3, <1>4, <1>5, <1>8 DEF su, p

Shrunk(t, sub, s) == [m \in t \ s |-> sub[m] \ s]
Kept(t, pos, s) == [m \in t \ s |-> pos[m]]

\* What remains of the tree without what s holds.
ShrunkIs(t, sub, pos, s, s2, p2) ==
  /\ Ordered(t \ s, s2, p2)
  /\ \A m \in t \ s : /\ s2[m] = sub[m] \ s /\ p2[m] = pos[m]
                      /\ Lower(s2, p2, m) = Lower(sub, pos, m) \ s
                      /\ Upper(s2, p2, m) = Upper(sub, pos, m) \ s

LEMMA ShrunkOrdered ==
  ASSUME NEW t, NEW sub, NEW pos, NEW s, Ordered(t, sub, pos), NEW s2, NEW p2,
         s2 = Shrunk(t, sub, s), p2 = Kept(t, pos, s)
  PROVE  ShrunkIs(t, sub, pos, s, s2, p2)
<1>1. /\ t \subseteq Node /\ sub \in [t -> SUBSET t] /\ pos \in [t -> Int]
      /\ \A m, x \in t : pos[m] = pos[x] => m = x
      /\ \A m \in t : m \in sub[m] /\ \A x \in sub[m] : sub[x] \subseteq sub[m]
  BY DEF Ordered, Injective, Nested
<1>2. \A m \in t : \A x \in t \ sub[m] : \A y, z \in sub[m] : pos[x] < pos[y] => pos[x] < pos[z]
  BY DEF Ordered, OneSide
<1>3. /\ s2 \in [t \ s -> SUBSET (t \ s)] /\ p2 \in [t \ s -> Int]
      /\ \A m \in t \ s : s2[m] = sub[m] \ s /\ p2[m] = pos[m] /\ sub[m] \subseteq t
  BY <1>1 DEF Shrunk, Kept
<1>4. Injective(t \ s, p2)
  BY <1>1, <1>3 DEF Injective
<1>5. Nested(t \ s, s2)
  BY <1>1, <1>3 DEF Nested
<1>6. OneSide(t \ s, s2, p2)
  <2> SUFFICES ASSUME NEW m \in t \ s, NEW x \in (t \ s) \ s2[m],
                      NEW y \in s2[m], NEW z \in s2[m], p2[x] < p2[y]
               PROVE  p2[x] < p2[z]
    BY DEF OneSide
  <2>1. x \in t \ sub[m] /\ y \in sub[m] /\ z \in sub[m] /\ y \in t \ s /\ z \in t \ s
    BY <1>3
  <2>2. pos[x] < pos[z]
    BY <1>2, <1>3, <2>1
  <2> QED
    BY <1>3, <2>1, <2>2
<1>7. ASSUME NEW m \in t \ s
      PROVE  /\ Lower(s2, p2, m) = Lower(sub, pos, m) \ s
             /\ Upper(s2, p2, m) = Upper(sub, pos, m) \ s
  <2>1. \A x \in sub[m] \ s : p2[x] = pos[x]
    BY <1>3
  <2> QED
    BY <1>3, <2>1 DEF Lower, Upper
<1> QED
  BY <1>1, <1>3, <1>4, <1>5, <1>6, <1>7 DEF Ordered, ShrunkIs

\* Where su hangs: nothing but its parent links to it, on one side only.
LEMMA HangsOnce ==
  ASSUME NEW t, NEW sub, NEW pos, NEW r, NEW b, TreeNow(t, sub, pos, r, b), NEW su \in t,
         NEW m \in t
  PROVE  /\ left[m] = su => m = parent[su] /\ sub[su] = Lower(sub, pos, m)
         /\ right[m] = su => m = parent[su] /\ sub[su] = Upper(sub, pos, m) /\ left[m] # su
<1>1. /\ Hangs(t, sub, parent, m, left[m], Lower(sub, pos, m))
      /\ Hangs(t, sub, parent, m, right[m], Upper(sub, pos, m))
      /\ su # null /\ su \in sub[su] /\ pos[m] \in Int /\ pos[su] \in Int
  BY NodeFacts
<1>2. ~(su \in Lower(sub, pos, m) /\ su \in Upper(sub, pos, m))
  BY <1>1 DEF Lower, Upper
<1> QED
  BY <1>1, <1>2 DEF Hangs

\* What su holds is closed: a node is in it with its parent, or is su.
LEMMA HeldClosed ==
  ASSUME NEW t, NEW sub, NEW pos, NEW r, NEW b, TreeNow(t, sub, pos, r, b), NEW su \in t,
         NEW x \in t, x # su
  PROVE  x \in sub[su] <=> parent[x] \in sub[su]
<1>1. x \in sub[su] => parent[x] \in sub[su]
  BY DEF TreeNow, TState, IsTree, Climbs
<1>2. ASSUME parent[x] \in sub[su] PROVE x \in sub[su]
  <2>1. sub[su] \subseteq t /\ \A m \in sub[su] : sub[m] \subseteq sub[su]
    BY NodeFacts
  <2>2. \A m \in t : m # null
    BY NodeFacts
  <2>3. parent[x] # null
    BY <1>2, <2>1, <2>2
  <2>4. sub[x] = Lower(sub, pos, parent[x]) \/ sub[x] = Upper(sub, pos, parent[x])
    BY <2>3, ParentFacts
  <2>5. x \in sub[x]
    BY NodeFacts
  <2>6. x \in sub[parent[x]]
    BY <2>4, <2>5 DEF Lower, Upper
  <2> QED
    BY <1>2, <2>1, <2>6
<1> QED
  BY <1>1, <1>2

\* What erase leaves: the fields, and the ranks they had.
LEMMA EraseFields ==
  ASSUME NEW t, NEW sub, NEW pos, NEW r, NEW b, TreeNow(t, sub, pos, r, b), NEW su \in t,
         LinkedWithout(su, parent[su]), NEW node \in t, NEW k, NEW l,
         root' = IF parent[su] = null THEN null ELSE root, live' = live \ {su},
         key' = [key EXCEPT ![node] = k, ![su] = l]
  PROVE  /\ Fields(root', key', left', right', parent', live', t \ sub[su])
         /\ Cut(t \ sub[su], left', right', live')
         /\ Ranked(left', right', r, b)
<1>1. /\ root \in Node \cup {null} /\ t \subseteq live /\ live \subseteq Node
      /\ key = [m \in Node |-> key[m]]
      /\ left \in [Node -> Node \cup {null}] /\ right \in [Node -> Node \cup {null}]
      /\ \A m \in Node : {left[m], right[m]} \subseteq live \cup {null}
      /\ \A m \in Node \ t : left[m] \notin t /\ right[m] \notin t
      /\ b \in Nat /\ r \in [Node -> 0..b]
      /\ \A m \in Node : /\ left[m] # null => r[left[m]] < r[m]
                         /\ right[m] # null => r[right[m]] < r[m]
  BY DEF TreeNow, TState, Fields, Cut, Ranked
<1>2. \A m \in Node :
        /\ left'[m] = IF m = su \/ (m = parent[su] /\ left[parent[su]] = su) THEN null ELSE left[m]
        /\ right'[m] = IF m = su \/ (m = parent[su] /\ left[parent[su]] # su) THEN null ELSE right[m]
  BY DEF LinkedWithout
<1>3. \A m \in t : /\ m # null /\ m \in Node /\ m \in sub[m] /\ sub[m] \subseteq t
                   /\ \A x \in sub[m] : sub[x] \subseteq sub[m]
                   /\ Hangs(t, sub, parent, m, left[m], Lower(sub, pos, m))
                   /\ Hangs(t, sub, parent, m, right[m], Upper(sub, pos, m))
  BY NodeFacts
<1>4. Fields(root', key', left', right', parent', live', t \ sub[su])
  <2>1. key' = [m \in Node |-> key'[m]]
    BY <1>1
  <2>2. t \ sub[su] \subseteq live'
    BY <1>1, <1>3
  <2>3. IsFiniteSet(t)
    BY DEF TreeNow, TState, Fields
  <2>4. IsFiniteSet(t \ sub[su])
    BY <2>3, FS_Subset
  <2> QED
    BY <1>1, <2>1, <2>2, <2>4 DEF Fields, LinkedWithout
<1>5. \A m \in Node : left'[m] \in {null, left[m]} /\ right'[m] \in {null, right[m]}
  BY <1>2
<1>6. \A m \in Node : left'[m] # su /\ right'[m] # su
  <2> SUFFICES ASSUME NEW m \in Node PROVE left'[m] # su /\ right'[m] # su
    OBVIOUS
  <2>1. su # null
    BY <1>3
  <2>2. CASE m \in t
    <3>1. /\ left[m] = su => m = parent[su]
          /\ right[m] = su => m = parent[su] /\ left[m] # su
      BY <2>2, HangsOnce
    <3> QED
      BY <1>2, <2>1, <3>1
  <2>3. CASE m \notin t
    BY <1>1, <1>5, <2>1, <2>3
  <2> QED
    BY <2>2, <2>3
<1>7. Cut(t \ sub[su], left', right', live')
  <2>1. \A m \in Node : {left'[m], right'[m]} \subseteq live' \cup {null}
    BY <1>1, <1>5, <1>6
  <2>2. ASSUME NEW m \in Node \ (t \ sub[su])
        PROVE  left'[m] \notin t \ sub[su] /\ right'[m] \notin t \ sub[su]
    <3>1. null \notin t
      BY <1>3
    <3>2. CASE m \notin t
      BY <1>1, <1>5, <3>1, <3>2
    <3>3. CASE m \in sub[su]
      <4>1. m \in t /\ sub[m] \subseteq sub[su]
        BY <1>3, <3>3
      <4>2. /\ Hangs(t, sub, parent, m, left[m], Lower(sub, pos, m))
            /\ Hangs(t, sub, parent, m, right[m], Upper(sub, pos, m))
        BY <1>3, <4>1
      <4>3. \A c \in t : sub[c] \subseteq sub[m] => c \in sub[su]
        BY <1>3, <4>1
      <4>4. /\ left[m] = null \/ left[m] \in sub[su]
            /\ right[m] = null \/ right[m] \in sub[su]
        BY <4>2, <4>3 DEF Hangs, Lower, Upper
      <4> QED
        BY <1>5, <3>1, <4>4
    <3> QED
      BY <2>2, <3>2, <3>3
  <2> QED
    BY <2>1, <2>2 DEF Cut
<1>8. Ranked(left', right', r, b)
  BY <1>1, <1>5 DEF Ranked
<1> QED
  BY <1>4, <1>7, <1>8

LEMMA EraseHung ==
  ASSUME NEW t, NEW sub, NEW pos, NEW r, NEW b, TreeNow(t, sub, pos, r, b), NEW su \in t,
         LinkedWithout(su, parent[su]), root' = IF parent[su] = null THEN null ELSE root,
         NEW s2, NEW p2, s2 = Shrunk(t, sub, sub[su]), p2 = Kept(t, pos, sub[su])
  PROVE  /\ Hung(t \ sub[su], s2, p2, left', right', parent')
         /\ Climbs(t \ sub[su], s2, left', right', parent')
         /\ Rooted(t \ sub[su], s2, root', parent')
<1> DEFINE s == sub[su]
           u == t \ s
           p == parent[su]
<1>1. \A m \in t : /\ m # null /\ m \in Node /\ m \in sub[m] /\ sub[m] \subseteq t
                   /\ Hangs(t, sub, parent, m, left[m], Lower(sub, pos, m))
                   /\ Hangs(t, sub, parent, m, right[m], Upper(sub, pos, m))
  BY NodeFacts
<1>2. \A m \in Node :
        /\ left'[m] = IF m = su \/ (m = p /\ left[p] = su) THEN null ELSE left[m]
        /\ right'[m] = IF m = su \/ (m = p /\ left[p] # su) THEN null ELSE right[m]
        /\ parent'[m] = IF m = su THEN null ELSE parent[m]
  BY DEF LinkedWithout
<1>3. p # null => p \in t /\ (left[p] = su \/ right[p] = su)
  BY ParentFacts
<1>4. \A m \in t : /\ left[m] = su => m = p /\ s = Lower(sub, pos, m)
                   /\ right[m] = su => m = p /\ s = Upper(sub, pos, m) /\ left[m] # su
  BY HangsOnce
<1>5. \A x \in t : x # su => (x \in s <=> parent[x] \in s)
  BY HeldClosed
<1>6. Ordered(t, sub, pos)
  BY DEF TreeNow, TState, IsTree
<1>7. \A m \in u : /\ s2[m] = sub[m] \ s /\ p2[m] = pos[m]
                   /\ Lower(s2, p2, m) = Lower(sub, pos, m) \ s
                   /\ Upper(s2, p2, m) = Upper(sub, pos, m) \ s
  <2>1. ShrunkIs(t, sub, pos, s, s2, p2)
    BY <1>6, ShrunkOrdered
  <2> QED
    BY <2>1 DEF ShrunkIs
<1>8. su \in s /\ su # null /\ s \subseteq t /\ su \in Node
  BY <1>1
<1> HIDE DEF s
<1>9. \A m \in t : m # su => /\ parent'[m] = parent[m]
                             /\ left'[m] = IF left[m] = su THEN null ELSE left[m]
                             /\ right'[m] = IF right[m] = su THEN null ELSE right[m]
  <2> SUFFICES ASSUME NEW m \in t, m # su
               PROVE  /\ parent'[m] = parent[m]
                      /\ left'[m] = IF left[m] = su THEN null ELSE left[m]
                      /\ right'[m] = IF right[m] = su THEN null ELSE right[m]
    OBVIOUS
  <2>1. m \in Node /\ m # null
    BY <1>1
  <2> HIDE DEF p
  <2> QED
    BY <1>2, <1>3, <1>4, <2>1
<1> HIDE DEF p
<1>10. \A m \in u : m \in t /\ m # su /\ m \notin s
  BY <1>8
<1>11. Hung(u, s2, p2, left', right', parent')
  <2>1. ASSUME NEW m \in u
        PROVE  /\ Hangs(u, s2, parent', m, left'[m], Lower(s2, p2, m))
               /\ Hangs(u, s2, parent', m, right'[m], Upper(s2, p2, m))
    <3>1. \A c \in t : c # su /\ parent[c] = m => c \in u /\ parent'[c] = m
      BY <1>5, <1>9, <1>10
    <3>2. \A c \in u : s2[c] = sub[c] \ s
      BY <1>7
    <3>3. /\ left'[m] = IF left[m] = su THEN null ELSE left[m]
          /\ right'[m] = IF right[m] = su THEN null ELSE right[m]
          /\ Lower(s2, p2, m) = Lower(sub, pos, m) \ s
          /\ Upper(s2, p2, m) = Upper(sub, pos, m) \ s
      BY <1>7, <1>9, <1>10
    <3>4. /\ left[m] = su => s = Lower(sub, pos, m)
          /\ right[m] = su => s = Upper(sub, pos, m)
          /\ Hangs(t, sub, parent, m, left[m], Lower(sub, pos, m))
          /\ Hangs(t, sub, parent, m, right[m], Upper(sub, pos, m))
      BY <1>1, <1>4, <1>10
    <3> HIDE DEF u
    <3>5. Hangs(u, s2, parent', m, left'[m], Lower(s2, p2, m))
      BY <3>1, <3>2, <3>3, <3>4 DEF Hangs
    <3>6. Hangs(u, s2, parent', m, right'[m], Upper(s2, p2, m))
      BY <3>1, <3>2, <3>3, <3>4 DEF Hangs
    <3> QED
      BY <3>5, <3>6
  <2> QED
    BY <2>1 DEF Hung
<1>12. Climbs(u, s2, left', right', parent')
  <2>1. \A m \in t : /\ parent[m] # null => parent[m] \in t /\ m \in {left[parent[m]], right[parent[m]]}
                     /\ \A x \in sub[m] \ {m} : parent[x] \in sub[m]
    BY DEF TreeNow, TState, IsTree, Climbs
  <2>2. ASSUME NEW m \in u, parent'[m] # null
        PROVE  parent'[m] \in u /\ m \in {left'[parent'[m]], right'[parent'[m]]}
    <3> DEFINE q == parent[m]
    <3>1. parent'[m] = q /\ q \in u /\ m # su /\ m \in {left[q], right[q]}
      BY <1>5, <1>9, <1>10, <2>1, <2>2
    <3>2. /\ left'[q] = IF left[q] = su THEN null ELSE left[q]
          /\ right'[q] = IF right[q] = su THEN null ELSE right[q]
      BY <1>9, <1>10, <3>1
    <3> HIDE DEF q, u
    <3> QED
      BY <3>1, <3>2
  <2>3. ASSUME NEW m \in u, NEW x \in s2[m] \ {m} PROVE parent'[x] \in s2[m]
    <3>1. x \in sub[m] \ {m} /\ x \notin s /\ x \in t /\ x # su /\ s2[m] = sub[m] \ s
      BY <1>1, <1>7, <1>8, <1>10
    <3>2. parent'[x] = parent[x] /\ parent[x] \in sub[m] /\ parent[x] \notin s
      BY <1>5, <1>9, <1>10, <2>1, <3>1
    <3> QED
      BY <3>1, <3>2
  <2> QED
    BY <2>2, <2>3 DEF Climbs
<1>13. Rooted(u, s2, root', parent')
  <2>1. root \in t /\ sub[root] = t /\ parent[root] = null
    BY TreeFacts DEF Rooted
  <2>2. CASE p = null
    <3>1. s = t
      BY <2>2, ParentFacts DEF p, s
    <3> QED
      BY <2>2, <3>1 DEF Rooted, p
  <2>3. CASE p # null
    <3>1. root # su /\ root' = root
      BY <2>1, <2>3 DEF p
    <3>2. root \in u
      BY <1>1, <1>5, <1>8, <2>1, <3>1
    <3>3. s2[root] = u /\ parent'[root] = null /\ root # null
      BY <1>1, <1>7, <1>9, <2>1, <3>1, <3>2
    <3> QED
      BY <3>1, <3>2, <3>3 DEF Rooted
  <2> QED
    BY <2>2, <2>3
<1> QED
  BY <1>11, <1>12, <1>13 DEF s

\* The node that takes over the key of its successor keeps its place.
LEMMA EraseSorted ==
  ASSUME NEW t, NEW sub, NEW pos, NEW r, NEW b, TreeNow(t, sub, pos, r, b), NEW su \in t,
         NEW node \in t, NEW l,
         su # node => /\ pos[node] < pos[su]
                      /\ \A m \in t : pos[node] < pos[m] => pos[su] <= pos[m],
         key' = [key EXCEPT ![node] = key[su], ![su] = l],
         NEW p2, p2 = Kept(t, pos, sub[su])
  PROVE  Sorted(t \ sub[su], p2, key')
<1> DEFINE u == t \ sub[su]
<1>1. /\ \A m \in t : m \in Node /\ m \in sub[m] /\ pos[m] \in Int
      /\ \A m, x \in t : pos[m] = pos[x] => m = x
  BY NodeFacts, TreeFacts
<1>2. \A m \in t : /\ key[m] \in Nat /\ key[m] \in OrderedKey
                   /\ \A x \in t : pos[x] < pos[m] => key[x] <= key[m]
  BY SortedKeys
<1>3. key = [m \in Node |-> key[m]]
  BY DEF TreeNow, TState, Fields
<1>4. \A m \in u : key'[m] = IF m = node THEN key[su] ELSE key[m]
  BY <1>1, <1>3
<1>5. \A m \in u : m \in t /\ m # su /\ p2[m] = pos[m]
  BY <1>1 DEF Kept
<1>6. ASSUME NEW m \in u, NEW x \in u, p2[x] < p2[m]
      PROVE  key'[x] <= key'[m]
  <2>1. pos[x] < pos[m] /\ x \in t /\ m \in t /\ x # su /\ m # su /\ x # m
    BY <1>1, <1>5, <1>6
  <2>2. key[x] <= key[m]
    BY <1>2, <2>1
  <2>3. CASE x # node /\ m # node
    BY <1>4, <2>2, <2>3
  <2>4. CASE m = node
    <3>1. key[node] <= key[su]
      BY <1>2, <1>5, <2>4
    <3>2. key[x] <= key[su]
      BY <1>2, <2>1, <2>2, <2>4, <3>1
    <3>3. key'[m] = key[su] /\ key'[x] = key[x]
      BY <1>4, <2>1, <2>4
    <3> QED
      BY <3>2, <3>3
  <2>5. CASE x = node
    <3>1. pos[su] < pos[m]
      BY <1>1, <1>5, <2>1, <2>5
    <3>2. key[su] <= key[m]
      BY <1>2, <2>1, <3>1
    <3> QED
      BY <1>4, <2>1, <2>5, <3>2
  <2> QED
    BY <2>3, <2>4, <2>5
<1>7. \A m \in u : key'[m] \in OrderedKey
  BY <1>2, <1>4, <1>5
<1> QED
  BY <1>6, <1>7 DEF Sorted

LEMMA EraseTree ==
  ASSUME TInv, NEW k \in OrderedKey, M!erase(k)
  PROVE  TInv'
<1>1. PICK t, sub, pos, r, b : TreeNow(t, sub, pos, r, b)
  BY DEF TInv
<1>2. PICK node \in t :
        LET su == M!Victim(node) IN
          /\ su \in t
          /\ su # node => /\ pos[node] < pos[su]
                          /\ \A m \in t : pos[node] < pos[m] => pos[su] <= pos[m]
          /\ LinkedWithout(su, parent[su])
          /\ root' = IF parent[su] = null THEN null ELSE root
          /\ live' = live \ {su}
          /\ key' = [key EXCEPT ![node] = key[su], ![su] = M!Min(OrderedKey)]
  BY <1>1, EraseLinked
<1>3. PICK su : su = M!Victim(node)
  OBVIOUS
<1>4. /\ su \in t
      /\ su # node => /\ pos[node] < pos[su]
                      /\ \A m \in t : pos[node] < pos[m] => pos[su] <= pos[m]
      /\ LinkedWithout(su, parent[su])
      /\ root' = IF parent[su] = null THEN null ELSE root
      /\ live' = live \ {su}
      /\ key' = [key EXCEPT ![node] = key[su], ![su] = M!Min(OrderedKey)]
  BY <1>2, <1>3
<1>5. PICK s2, p2 : s2 = Shrunk(t, sub, sub[su]) /\ p2 = Kept(t, pos, sub[su])
  OBVIOUS
<1>6. Ordered(t \ sub[su], s2, p2)
  <2>1. Ordered(t, sub, pos)
    BY <1>1 DEF TreeNow, TState, IsTree
  <2> QED
    BY <1>5, <2>1, ShrunkOrdered DEF ShrunkIs
<1>7. /\ Fields(root', key', left', right', parent', live', t \ sub[su])
      /\ Cut(t \ sub[su], left', right', live')
      /\ Ranked(left', right', r, b)
  BY <1>1, <1>4, EraseFields
<1>8. /\ Hung(t \ sub[su], s2, p2, left', right', parent')
      /\ Climbs(t \ sub[su], s2, left', right', parent')
      /\ Rooted(t \ sub[su], s2, root', parent')
  BY <1>1, <1>4, <1>5, EraseHung
<1>9. Sorted(t \ sub[su], p2, key')
  BY <1>1, <1>4, <1>5, EraseSorted
<1>10. TState(root', key', left', right', parent', live', t \ sub[su], s2, p2, r, b)
  BY <1>6, <1>7, <1>8, <1>9 DEF TState, IsTree
<1> QED
  BY <1>10 DEF TInv, TreeNow

\* The empty tree, whatever is left of trees that were cut off.
LEMMA NoTree ==
  ASSUME NEW sub, NEW pos, sub = [m \in {} |-> {}], pos = [m \in {} |-> 0],
         NEW ky, NEW lf, NEW rg, NEW pa
  PROVE  IsTree(null, ky, lf, rg, pa, {}, sub, pos)
BY EmptyTree DEF IsTree

LEMMA ClearTree ==
  ASSUME TInv, M!clear
  PROVE  TInv'
<1>1. PICK t, sub, pos, r, b : TreeNow(t, sub, pos, r, b)
  BY DEF TInv
<1>2. M!Tree = t
  BY <1>1, BelowIs
<1>3. PICK s2, p2 : s2 = [m \in {} |-> {}] /\ p2 = [m \in {} |-> 0]
  OBVIOUS
<1>4. /\ live' = live \ M!Tree /\ root' = null
      /\ key' = [n \in Node |-> IF n \in M!Tree THEN M!Min(OrderedKey) ELSE key[n]]
      /\ left' = [n \in Node |-> IF n \in M!Tree THEN null ELSE left[n]]
      /\ right' = [n \in Node |-> IF n \in M!Tree THEN null ELSE right[n]]
      /\ parent' = [n \in Node |-> IF n \in M!Tree THEN null ELSE parent[n]]
  BY Zenon DEF M!clear
<1>5. /\ root \in Node \cup {null} /\ live \subseteq Node
      /\ left \in [Node -> Node \cup {null}] /\ right \in [Node -> Node \cup {null}]
      /\ parent \in [Node -> Node \cup {null}]
      /\ \A m \in Node : {left[m], right[m]} \subseteq live \cup {null}
      /\ \A m \in Node \ t : left[m] \notin t /\ right[m] \notin t
      /\ b \in Nat /\ r \in [Node -> 0..b]
      /\ \A m \in Node : /\ left[m] # null => r[left[m]] < r[m]
                         /\ right[m] # null => r[right[m]] < r[m]
  BY <1>1 DEF TreeNow, TState, Fields, Cut, Ranked
<1>6. Fields(root', key', left', right', parent', live', {})
  <2>1. key' = [n \in Node |-> key'[n]]
    BY <1>4
  <2>2. /\ left' \in [Node -> Node \cup {null}] /\ right' \in [Node -> Node \cup {null}]
        /\ parent' \in [Node -> Node \cup {null}]
    BY <1>4, <1>5
  <2> QED
    BY <1>4, <1>5, <2>1, <2>2, FS_EmptySet DEF Fields
<1>7. \A m \in Node : /\ left'[m] = IF m \in t THEN null ELSE left[m]
                      /\ right'[m] = IF m \in t THEN null ELSE right[m]
  BY <1>2, <1>4
<1>8. Cut({}, left', right', live')
  BY <1>2, <1>4, <1>5, <1>7 DEF Cut
<1>9. Ranked(left', right', r, b)
  BY <1>5, <1>7 DEF Ranked
<1>10. IsTree(root', key', left', right', parent', {}, s2, p2)
  BY <1>3, <1>4, NoTree
<1>11. TState(root', key', left', right', parent', live', {}, s2, p2, r, b)
  BY <1>6, <1>8, <1>9, <1>10 DEF TState
<1> QED
  BY <1>11 DEF TInv, TreeNow

LEMMA InitTree == M!Init => TInv
<1> SUFFICES ASSUME M!Init PROVE TInv
  OBVIOUS
<1>1. PICK sub, pos, r : /\ sub = [m \in {} |-> {}] /\ pos = [m \in {} |-> 0]
                         /\ r = [n \in Node |-> 0]
  OBVIOUS
<1>2. /\ root = null /\ live = {} /\ key \in [Node -> {M!Min(OrderedKey)}]
      /\ left = [n \in Node |-> null] /\ right = [n \in Node |-> null]
      /\ parent = [n \in Node |-> null]
  BY DEF M!Init, M!Nil
<1>3. Fields(root, key, left, right, parent, live, {})
  BY <1>2, FS_EmptySet DEF Fields
<1>4. Cut({}, left, right, live)
  BY <1>2 DEF Cut
<1>5. Ranked(left, right, r, 0)
  BY <1>1, <1>2 DEF Ranked
<1>6. IsTree(root, key, left, right, parent, {}, sub, pos)
  BY <1>1, <1>2, NoTree
<1>7. TreeNow({}, sub, pos, r, 0)
  BY <1>3, <1>4, <1>5, <1>6 DEF TreeNow, TState
<1> QED
  BY <1>7 DEF TInv

LEMMA SameTree ==
  ASSUME TInv, UNCHANGED <<root, key, left, right, parent, live>>
  PROVE  TInv'
BY DEF TInv, TreeNow

LEMMA TInvStep == TInv /\ (M!Next \/ UNCHANGED tree) => TInv'
<1> SUFFICES ASSUME TInv, M!Next \/ UNCHANGED tree PROVE TInv'
  OBVIOUS
<1>1. CASE UNCHANGED tree
  BY <1>1, SameTree DEF tree
<1>2. ASSUME NEW n \in Node, NEW k \in OrderedKey, M!insert(n, k) PROVE TInv'
  BY <1>2, InsertTree, InsertRoot
<1>3. ASSUME NEW k \in OrderedKey, M!erase(k) PROVE TInv'
  BY <1>3, EraseTree
<1>4. ASSUME NEW k \in OrderedKey, M!eraseMissing(k) PROVE TInv'
  BY <1>4, SameTree DEF M!eraseMissing
<1>5. CASE M!clear
  BY <1>5, ClearTree
<1>6. CASE M!beginEmpty
  BY <1>6, SameTree DEF M!beginEmpty
<1> QED
  BY <1>1, <1>2, <1>3, <1>4, <1>5, <1>6 DEF M!Next

\* Whatever is inserted, erased and cleared, the tree of mymap is ordered, linked
\* both ways, free of deleted nodes, and walked from left to right by its iterators
\* (mymap.h:119, 150, 185).
THEOREM BinaryTreeMapSafeAlways == Spec => []BinaryTreeMapSafe
<1>1. Init => TInv
  BY InitTree DEF Init
<1>2. TInv /\ [Next]_vars => TInv'
  <2>1. [Next]_vars => M!Next \/ UNCHANGED tree
    BY DEF Next, vars
  <2> QED
    BY <2>1, TInvStep
<1>3. TInv => BinaryTreeMapSafe
  BY TInvSafe DEF BinaryTreeMapSafe
<1> QED
  BY <1>1, <1>2, <1>3, PTL DEF Spec

-----------------------------------------------------------------------------
\* The sets of trees, level by level.
TreeStep(s) == {AM!Null} \cup (AvlKey \X AvlValue \X Nat \X s \X s)
Levels(f, n) == f[0] = {AM!Null} /\ \A i \in 1..n : f[i] = TreeStep(f[i - 1])
LevelFn == [n \in Nat |-> (CHOOSE f : Levels(f, n))[n]]

LEMMA LevelsAgree ==
  ASSUME NEW f, NEW g, NEW n \in Nat, NEW m \in Nat, Levels(f, n), Levels(g, m), n <= m
  PROVE  f[n] = g[n]
<1> DEFINE T == {i \in Nat : i <= n => f[i] = g[i]}
<1>1. 0 \in T
  BY DEF Levels
<1>2. ASSUME NEW i \in Nat, i \in T PROVE i + 1 \in T
  <2> SUFFICES ASSUME i + 1 <= n PROVE f[i + 1] = g[i + 1]
    OBVIOUS
  <2>1. f[i] = g[i]
    BY <1>2
  <2>2. i + 1 \in 1..n /\ i + 1 \in 1..m /\ (i + 1) - 1 = i
    OBVIOUS
  <2>3. f[i + 1] = TreeStep(f[i]) /\ g[i + 1] = TreeStep(g[i])
    BY <2>2 DEF Levels
  <2> QED
    BY <2>1, <2>3
<1> HIDE DEF T
<1>3. n \in T
  BY <1>1, <1>2, SetInduction
<1> QED
  BY <1>3 DEF T

LEMMA LevelsExist == ASSUME NEW n \in Nat PROVE \E f : Levels(f, n)
<1> DEFINE T == {i \in Nat : \E f : Levels(f, i)}
<1>1. 0 \in T
  <2>1. Levels([i \in {0} |-> {AM!Null}], 0)
    BY DEF Levels
  <2> QED
    BY <2>1
<1>2. ASSUME NEW i \in Nat, i \in T PROVE i + 1 \in T
  <2>1. PICK f : Levels(f, i)
    BY <1>2
  <2> DEFINE g == [j \in 0..i + 1 |-> IF j = i + 1 THEN TreeStep(f[i]) ELSE f[j]]
  <2>2. g[i + 1] = TreeStep(f[i]) /\ \A j \in 0..i : g[j] = f[j]
    OBVIOUS
  <2> HIDE DEF g
  <2>3. g[0] = {AM!Null}
    BY <2>1, <2>2 DEF Levels
  <2>4. ASSUME NEW j \in 1..i + 1 PROVE g[j] = TreeStep(g[j - 1])
    <3>1. CASE j = i + 1
      BY <2>2, <3>1
    <3>2. CASE j # i + 1
      <4>1. j \in 1..i /\ j \in 0..i /\ j - 1 \in 0..i
        BY <3>2
      <4> QED
        BY <2>1, <2>2, <4>1 DEF Levels
    <3> QED
      BY <3>1, <3>2
  <2>5. Levels(g, i + 1)
    BY <2>3, <2>4 DEF Levels
  <2> QED
    BY <2>5
<1> HIDE DEF T
<1>3. n \in T
  BY <1>1, <1>2, SetInduction
<1> QED
  BY <1>3 DEF T

LEMMA LevelFnStep ==
  LevelFn[0] = {AM!Null} /\ \A n \in Nat : LevelFn[n + 1] = TreeStep(LevelFn[n])
<1> DEFINE C(n) == CHOOSE f : Levels(f, n)
<1>1. ASSUME NEW n \in Nat PROVE Levels(C(n), n) /\ LevelFn[n] = C(n)[n]
  BY LevelsExist, Zenon DEF LevelFn
<1> HIDE DEF C
<1>2. LevelFn[0] = {AM!Null}
  BY <1>1 DEF Levels
<1>3. ASSUME NEW n \in Nat PROVE LevelFn[n + 1] = TreeStep(LevelFn[n])
  <2>0. n + 1 \in Nat /\ n <= n + 1 /\ n + 1 \in 1..n + 1 /\ (n + 1) - 1 = n
    OBVIOUS
  <2>1. Levels(C(n), n) /\ Levels(C(n + 1), n + 1)
    BY <1>1, <2>0
  <2>2. C(n)[n] = C(n + 1)[n]
    BY <2>0, <2>1, LevelsAgree
  <2>3. C(n + 1)[n + 1] = TreeStep(C(n + 1)[n])
    BY <2>0, <2>1 DEF Levels
  <2> QED
    BY <1>1, <2>0, <2>2, <2>3
<1> QED
  BY <1>2, <1>3

LEMMA TreeOfStep ==
  AM!TreeOf[0] = {AM!Null} /\ \A n \in Nat : AM!TreeOf[n + 1] = TreeStep(AM!TreeOf[n])
<1> DEFINE Fn(f) == [d \in Nat |-> IF d = 0 THEN {AM!Null} ELSE TreeStep(f[d - 1])]
<1>1. ASSUME NEW d \in Nat
      PROVE LevelFn[d] = IF d = 0 THEN {AM!Null} ELSE TreeStep(LevelFn[d - 1])
  <2>1. CASE d = 0
    BY <2>1, LevelFnStep
  <2>2. CASE d # 0
    <3>1. d - 1 \in Nat /\ (d - 1) + 1 = d
      BY <2>2
    <3> QED
      BY <2>2, <3>1, LevelFnStep
  <2> QED
    BY <2>1, <2>2
<1>2. LevelFn = Fn(LevelFn)
  <2>1. LevelFn = [d \in Nat |-> LevelFn[d]]
    <3> DEFINE A(n) == (CHOOSE f : Levels(f, n))[n]
    <3>1. LevelFn = [n \in Nat |-> A(n)]
      BY DEF LevelFn
    <3> HIDE DEF A
    <3> QED
      BY <3>1
  <2>2. [d \in Nat |-> LevelFn[d]] = Fn(LevelFn)
    BY <1>1, Zenon
  <2> QED
    BY <2>1, <2>2
<1>3. AM!TreeOf = CHOOSE f : f = Fn(f)
  BY Zenon DEF AM!TreeOf, TreeStep
<1>4. AM!TreeOf = Fn(AM!TreeOf)
  <2> HIDE DEF Fn
  <2> QED
    BY <1>2, <1>3, Zenon
<1>5. AM!TreeOf[0] = {AM!Null}
  BY <1>4
<1>6. ASSUME NEW n \in Nat PROVE AM!TreeOf[n + 1] = TreeStep(AM!TreeOf[n])
  <2>1. n + 1 \in Nat /\ n + 1 # 0 /\ (n + 1) - 1 = n
    OBVIOUS
  <2>2. Fn(AM!TreeOf)[n + 1] = TreeStep(AM!TreeOf[(n + 1) - 1])
    <3> HIDE <1>4
    <3> QED
    BY <2>1, Zenon
  <2> QED
    BY <1>4, <2>1, <2>2
<1> QED
  BY <1>5, <1>6

-----------------------------------------------------------------------------
\* The parts of a node, and that a node is neither the empty tree nor the mark
\* of a crash.
LEMMA NodeParts ==
  ASSUME NEW k, NEW v, NEW h, NEW l, NEW r
  PROVE  LET t == AM!NewNode(k, v, h, l, r) IN
           /\ AM!key(t) = k /\ AM!value(t) = v /\ AM!height(t) = h
           /\ AM!left(t) = l /\ AM!right(t) = r
           /\ t # AM!Null /\ t # AM!Crash
<1>1. Len(<<k, v, h, l, r>>) = 5 /\ Len(<< >>) = 0 /\ Len(<< << >> >>) = 1
  OBVIOUS
<1>2. <<k, v, h, l, r>> # << >> /\ <<k, v, h, l, r>> # << << >> >>
  BY <1>1
<1> QED
  BY <1>2 DEF AM!NewNode, AM!key, AM!value, AM!height, AM!left, AM!right, AM!Null, AM!Crash

LEMMA NullIsNoCrash == AM!Null # AM!Crash
<1>1. Len(<< >>) = 0 /\ Len(<< << >> >>) = 1
  OBVIOUS
<1>2. << >> # << << >> >>
  BY <1>1
<1> QED
  BY <1>2 DEF AM!Null, AM!Crash

\* t is a node whose subtrees are in s.
NodeOver(t, s) ==
  /\ AM!key(t) \in AvlKey /\ AM!value(t) \in AvlValue /\ AM!height(t) \in Nat
  /\ AM!left(t) \in s /\ AM!right(t) \in s
  /\ t = AM!NewNode(AM!key(t), AM!value(t), AM!height(t), AM!left(t), AM!right(t))

LEMMA StepMembers ==
  ASSUME NEW s, NEW t
  PROVE  t \in TreeStep(s) <=> t = AM!Null \/ NodeOver(t, s)
<1>1. ASSUME t \in TreeStep(s), t # AM!Null PROVE NodeOver(t, s)
  <2>1. t \in AvlKey \X AvlValue \X Nat \X s \X s
    BY <1>1 DEF TreeStep
  <2>2. PICK k \in AvlKey, v \in AvlValue, h \in Nat, l \in s, r \in s : t = <<k, v, h, l, r>>
    BY <2>1
  <2>3. t = AM!NewNode(k, v, h, l, r)
    BY <2>2 DEF AM!NewNode
  <2>4. AM!key(t) = k /\ AM!value(t) = v /\ AM!height(t) = h /\ AM!left(t) = l /\ AM!right(t) = r
    BY <2>3, NodeParts
  <2> QED
    BY <2>3, <2>4 DEF NodeOver
<1>2. ASSUME NodeOver(t, s) PROVE t \in TreeStep(s)
  <2>1. t \in AvlKey \X AvlValue \X Nat \X s \X s
    BY <1>2 DEF NodeOver, AM!NewNode
  <2> QED
    BY <2>1 DEF TreeStep
<1>3. AM!Null \in TreeStep(s)
  BY DEF TreeStep
<1> QED
  BY <1>1, <1>2, <1>3

LEMMA LevelsRise ==
  ASSUME NEW n \in Nat, NEW m \in Nat, n <= m
  PROVE  AM!TreeOf[n] \subseteq AM!TreeOf[m]
<1>1. ASSUME NEW a, NEW b, a \subseteq b PROVE TreeStep(a) \subseteq TreeStep(b)
  BY <1>1, StepMembers DEF NodeOver
<1> DEFINE T == {i \in Nat : AM!TreeOf[i] \subseteq AM!TreeOf[i + 1]}
<1>2. 0 \in T
  <2>1. AM!TreeOf[0] = {AM!Null} /\ AM!TreeOf[0 + 1] = TreeStep(AM!TreeOf[0])
    BY TreeOfStep
  <2> QED
    BY <2>1, StepMembers
<1>3. ASSUME NEW i \in Nat, i \in T PROVE i + 1 \in T
  <2>1. AM!TreeOf[i + 1] = TreeStep(AM!TreeOf[i])
    BY TreeOfStep
  <2>2. AM!TreeOf[(i + 1) + 1] = TreeStep(AM!TreeOf[i + 1])
    BY TreeOfStep
  <2> QED
    BY <1>1, <1>3, <2>1, <2>2
<1>4. \A i \in Nat : AM!TreeOf[i] \subseteq AM!TreeOf[i + 1]
  <2> HIDE DEF T
  <2>1. Nat \subseteq T
    BY <1>2, <1>3, SetInduction
  <2> USE DEF T
  <2> QED
    BY <2>1
<1> DEFINE U == {i \in Nat : AM!TreeOf[n] \subseteq AM!TreeOf[n + i]}
<1>5. 0 \in U
  OBVIOUS
<1>6. ASSUME NEW i \in Nat, i \in U PROVE i + 1 \in U
  <2>1. n + i \in Nat /\ (n + i) + 1 = n + (i + 1)
    OBVIOUS
  <2>2. AM!TreeOf[n + i] \subseteq AM!TreeOf[n + (i + 1)]
    BY <1>4, <2>1
  <2> QED
    BY <1>6, <2>2
<1> HIDE DEF U
<1>7. m - n \in U
  BY <1>5, <1>6, SetInduction
<1>8. n + (m - n) = m
  OBVIOUS
<1> QED
  BY <1>7, <1>8 DEF U

AvlTrees == UNION {AM!TreeOf[d] : d \in Nat}

LEMMA TreesStep == \A t : t \in AvlTrees <=> t = AM!Null \/ NodeOver(t, AvlTrees)
<1>1. ASSUME NEW t, t \in AvlTrees, t # AM!Null PROVE NodeOver(t, AvlTrees)
  <2>1. PICK d \in Nat : t \in AM!TreeOf[d]
    BY <1>1 DEF AvlTrees
  <2>2. d # 0
    BY <1>1, <2>1, TreeOfStep
  <2>3. d - 1 \in Nat /\ (d - 1) + 1 = d
    BY <2>2
  <2>4. NodeOver(t, AM!TreeOf[d - 1])
    BY <1>1, <2>1, <2>3, TreeOfStep, StepMembers
  <2>5. AM!TreeOf[d - 1] \subseteq AvlTrees
    BY <2>3 DEF AvlTrees
  <2> QED
    BY <2>4, <2>5 DEF NodeOver
<1>2. ASSUME NEW t, NodeOver(t, AvlTrees) PROVE t \in AvlTrees
  <2>1. PICK a \in Nat, b \in Nat : AM!left(t) \in AM!TreeOf[a] /\ AM!right(t) \in AM!TreeOf[b]
    BY <1>2 DEF NodeOver, AvlTrees
  <2>2. a + b \in Nat /\ a <= a + b /\ b <= a + b /\ (a + b) + 1 \in Nat
    OBVIOUS
  <2>3. AM!TreeOf[a] \subseteq AM!TreeOf[a + b] /\ AM!TreeOf[b] \subseteq AM!TreeOf[a + b]
    BY <2>2, LevelsRise
  <2>4. NodeOver(t, AM!TreeOf[a + b])
    BY <1>2, <2>1, <2>3 DEF NodeOver
  <2>5. t \in AM!TreeOf[(a + b) + 1]
    BY <2>2, <2>4, TreeOfStep, StepMembers
  <2> QED
    BY <2>2, <2>5 DEF AvlTrees
<1>3. AM!Null \in AvlTrees
  BY TreeOfStep DEF AvlTrees
<1> QED
  BY <1>1, <1>2, <1>3

\* The number of levels a tree needs.
TreeRank == [t \in AvlTrees |-> CHOOSE d \in Nat :
               t \in AM!TreeOf[d] /\ \A e \in Nat : t \in AM!TreeOf[e] => d <= e]

LEMMA TreeRankIsLeast ==
  ASSUME NEW t \in AvlTrees
  PROVE  /\ TreeRank[t] \in Nat /\ t \in AM!TreeOf[TreeRank[t]]
         /\ \A e \in Nat : t \in AM!TreeOf[e] => TreeRank[t] <= e
<1> DEFINE S == {d \in Nat : t \in AM!TreeOf[d]}
<1>1. S \in SUBSET Nat /\ S # {}
  BY DEF AvlTrees
<1> HIDE DEF S
<1>2. H!Min(S) \in S /\ \A i \in S : H!Min(S) <= i
  BY <1>1, LeastOf
<1>m. PICK m \in S : \A i \in S : m <= i
  BY <1>2
<1> USE DEF S
<1>3. m \in Nat /\ t \in AM!TreeOf[m] /\ \A e \in Nat : t \in AM!TreeOf[e] => m <= e
  BY <1>m
<1> HIDE DEF S
<1> QED
  BY <1>3, Zenon DEF TreeRank

LEMMA TreeRankFalls ==
  /\ TreeRank \in [AvlTrees -> Nat]
  /\ \A t \in AvlTrees : t # AM!Null => /\ TreeRank[AM!left(t)] < TreeRank[t]
                                        /\ TreeRank[AM!right(t)] < TreeRank[t]
<1>1. TreeRank \in [AvlTrees -> Nat]
  <2>1. DOMAIN TreeRank = AvlTrees /\ TreeRank = [t \in DOMAIN TreeRank |-> TreeRank[t]]
    <3> DEFINE A(t) == CHOOSE d \in Nat :
                         t \in AM!TreeOf[d] /\ \A e \in Nat : t \in AM!TreeOf[e] => d <= e
    <3>1. TreeRank = [t \in AvlTrees |-> A(t)]
      BY DEF TreeRank
    <3> HIDE DEF A
    <3> QED
      BY <3>1
  <2> QED
    BY <2>1, TreeRankIsLeast
<1>2. ASSUME NEW t \in AvlTrees, t # AM!Null
      PROVE  /\ TreeRank[AM!left(t)] < TreeRank[t]
             /\ TreeRank[AM!right(t)] < TreeRank[t]
  <2>1. TreeRank[t] \in Nat /\ t \in AM!TreeOf[TreeRank[t]]
    BY TreeRankIsLeast
  <2>2. TreeRank[t] # 0
    BY <1>2, <2>1, TreeOfStep
  <2>3. PICK n \in Nat : TreeRank[t] = n + 1
    <3>1. TreeRank[t] - 1 \in Nat /\ TreeRank[t] = (TreeRank[t] - 1) + 1
      BY <2>1, <2>2
    <3> QED
      BY <3>1
  <2>4. NodeOver(t, AM!TreeOf[n])
    BY <1>2, <2>1, <2>3, TreeOfStep, StepMembers
  <2>5. AM!left(t) \in AM!TreeOf[n] /\ AM!right(t) \in AM!TreeOf[n]
    BY <2>4 DEF NodeOver
  <2>6. AM!left(t) \in AvlTrees /\ AM!right(t) \in AvlTrees
    BY <2>5 DEF AvlTrees
  <2>7. TreeRank[AM!left(t)] <= n /\ TreeRank[AM!right(t)] <= n
    BY <2>5, <2>6, TreeRankIsLeast
  <2>8. TreeRank[AM!left(t)] \in Nat /\ TreeRank[AM!right(t)] \in Nat
    BY <2>6, TreeRankIsLeast
  <2> QED
    BY <2>3, <2>7, <2>8
<1> QED
  BY <1>1, <1>2

\* The keys are finitely many numbers.
LEMMA FiniteKeys ==
  /\ IsFiniteSet(AvlKey) /\ AvlKey \subseteq Int
  /\ \A S : AM!Cardinality(S) = Cardinality(S)
<1>1. \A S : AM!Cardinality(S) = Cardinality(S)
  BY Zenon DEF AM!Cardinality, Cardinality
<1>2. \A S : AM!IsFiniteSet(S) <=> IsFiniteSet(S)
  BY Zenon DEF AM!IsFiniteSet, IsFiniteSet
<1> QED
  BY <1>1, <1>2, ContainersAssumption DEF AM!AvlMapAssumption

\* The trees that the operations take are closed under subtrees.
LEMMA TreeLevels ==
  /\ AM!Null \in AM!Tree /\ AM!Tree \subseteq AvlTrees
  /\ \A t \in AM!Tree : t # AM!Null => AM!left(t) \in AM!Tree /\ AM!right(t) \in AM!Tree
  /\ \E b \in Nat : \A t \in AM!Tree : TreeRank[t] \in 0..b
<1> DEFINE N == Cardinality(AvlKey)
<1>1. N \in Nat
  BY FiniteKeys, FS_CardinalityType
<1>2. AM!Tree = AM!TreeOf[N]
  BY FiniteKeys DEF AM!Tree
<1> HIDE DEF N
<1>3. AM!Tree \subseteq AvlTrees
  BY <1>1, <1>2 DEF AvlTrees
<1>4. AM!Null \in AM!Tree
  <2>1. AM!TreeOf[0] \subseteq AM!TreeOf[N] /\ AM!TreeOf[0] = {AM!Null}
    BY <1>1, LevelsRise, TreeOfStep
  <2> QED
    BY <1>2, <2>1
<1>5. ASSUME NEW t \in AM!Tree, t # AM!Null PROVE AM!left(t) \in AM!Tree /\ AM!right(t) \in AM!Tree
  <2>1. N # 0
    BY <1>2, <1>5, TreeOfStep
  <2>2. N - 1 \in Nat /\ (N - 1) + 1 = N /\ N - 1 <= N
    BY <1>1, <2>1
  <2>3. NodeOver(t, AM!TreeOf[N - 1])
    BY <1>2, <1>5, <2>2, TreeOfStep, StepMembers
  <2>4. AM!TreeOf[N - 1] \subseteq AM!TreeOf[N]
    BY <1>1, <2>2, LevelsRise
  <2> QED
    BY <1>2, <2>3, <2>4 DEF NodeOver
<1>6. ASSUME NEW t \in AM!Tree PROVE TreeRank[t] \in 0..N
  <2>1. t \in AvlTrees
    BY <1>3
  <2>2. TreeRank[t] \in Nat /\ TreeRank[t] <= N
    BY <1>1, <1>2, <2>1, TreeRankIsLeast
  <2> QED
    BY <1>1, <2>2
<1> QED
  BY <1>1, <1>3, <1>4, <1>5, <1>6

-----------------------------------------------------------------------------
\* The set s is made of the keys l below k, of k, and of the keys r above k.
KeyParts(k, l, r, s) == /\ s = l \cup {k} \cup r
                        /\ \A x \in l : x < k
                        /\ \A x \in r : k < x

BstStep(t, s, pairs) ==
  \/ t = AM!Null /\ s = {}
  \/ /\ NodeOver(t, AvlTrees)
     /\ \E l, r : /\ <<AM!left(t), l>> \in pairs /\ <<AM!right(t), r>> \in pairs
                  /\ KeyParts(AM!key(t), l, r, s)
BstSet(pairs) == \A t, s : <<t, s>> \in pairs => BstStep(t, s, pairs)

\* t is a binary search tree of the keys s.
Shows(t, s) == \E pairs : BstSet(pairs) /\ <<t, s>> \in pairs
Sides(t, l, r, s) ==
  Shows(AM!left(t), l) /\ Shows(AM!right(t), r) /\ KeyParts(AM!key(t), l, r, s)

LEMMA ShowsParts ==
  ASSUME NEW t, NEW s, Shows(t, s)
  PROVE  \/ t = AM!Null /\ s = {}
         \/ t # AM!Null /\ NodeOver(t, AvlTrees) /\ \E l, r : Sides(t, l, r, s)
<1>1. PICK pairs : BstSet(pairs) /\ <<t, s>> \in pairs
  BY DEF Shows
<1>2. BstStep(t, s, pairs)
  BY <1>1 DEF BstSet
<1>3. CASE t = AM!Null /\ s = {}
  BY <1>3
<1>4. CASE NodeOver(t, AvlTrees)
         /\ \E l, r : /\ <<AM!left(t), l>> \in pairs /\ <<AM!right(t), r>> \in pairs
                  /\ KeyParts(AM!key(t), l, r, s)
  <2>1. PICK l, r : /\ <<AM!left(t), l>> \in pairs /\ <<AM!right(t), r>> \in pairs
                    /\ KeyParts(AM!key(t), l, r, s)
    BY <1>4
  <2>2. Sides(t, l, r, s)
    BY <1>1, <2>1 DEF Sides, Shows
  <2>3. t # AM!Null
    BY <1>4, NodeParts DEF NodeOver
  <2> QED
    BY <1>4, <2>2, <2>3
<1> QED
  BY <1>2, <1>3, <1>4 DEF BstStep

LEMMA ShowsNull == Shows(AM!Null, {})
<1>1. BstSet({<<AM!Null, {}>>})
  BY DEF BstSet, BstStep
<1> QED
  BY <1>1 DEF Shows

LEMMA ShowsNode ==
  ASSUME NEW t, NEW l, NEW r, NEW s, NodeOver(t, AvlTrees), Sides(t, l, r, s)
  PROVE  Shows(t, s)
<1>1. PICK pairs : BstSet(pairs) /\ <<AM!left(t), l>> \in pairs
  BY DEF Sides, Shows
<1>2. PICK others : BstSet(others) /\ <<AM!right(t), r>> \in others
  BY DEF Sides, Shows
<1> DEFINE both == pairs \cup others \cup {<<t, s>>}
<1>3. pairs \subseteq both /\ others \subseteq both
  OBVIOUS
<1>4. ASSUME NEW A, A \subseteq both, NEW u, NEW x, BstStep(u, x, A) PROVE BstStep(u, x, both)
  <2> HIDE DEF both
  <2> QED
    BY <1>4 DEF BstStep
<1>5. ASSUME NEW u, NEW x, <<u, x>> \in both PROVE BstStep(u, x, both)
  <2>1. CASE <<u, x>> \in pairs
    BY <1>1, <1>3, <1>4, <2>1 DEF BstSet
  <2>2. CASE <<u, x>> \in others
    BY <1>2, <1>3, <1>4, <2>2 DEF BstSet
  <2>3. CASE <<u, x>> = <<t, s>>
    <3>1. u = t /\ x = s
      BY <2>3
    <3>2. <<AM!left(t), l>> \in both /\ <<AM!right(t), r>> \in both
      BY <1>1, <1>2
    <3>3. BstStep(t, s, both)
      <4> HIDE DEF both
      <4> QED
        BY <3>2 DEF BstStep, Sides
    <3> QED
      BY <3>1, <3>3
  <2> QED
    BY <1>5, <2>1, <2>2, <2>3
<1>6. <<t, s>> \in both
  OBVIOUS
<1> HIDE DEF both
<1> QED
  BY <1>5, <1>6 DEF BstSet, Shows

-----------------------------------------------------------------------------
\* What an operation leaves: the mark of a crash, or a search tree of s.
Leaves(t, s) == t = AM!Crash \/ Shows(t, s)

LEMMA ShowsTree ==
  ASSUME NEW t, NEW s, Shows(t, s)
  PROVE  t \in AvlTrees /\ t # AM!Crash /\ s \subseteq AvlKey
<1>1. t \in AvlTrees
  BY ShowsParts, TreesStep
<1>2. t # AM!Crash
  BY ShowsParts, NullIsNoCrash, NodeParts DEF NodeOver
<1> DEFINE Good == {u \in AvlTrees : \A a : Shows(u, a) => a \subseteq AvlKey}
<1>3. ASSUME NEW u \in AvlTrees, \A w \in AvlTrees : TreeRank[w] < TreeRank[u] => w \in Good
      PROVE  u \in Good
  <2> SUFFICES ASSUME NEW a, Shows(u, a) PROVE a \subseteq AvlKey
    OBVIOUS
  <2>1. CASE u = AM!Null
    BY <2>1, ShowsParts
  <2>2. CASE u # AM!Null
    <3>1. PICK l, r : NodeOver(u, AvlTrees) /\ Sides(u, l, r, a)
      BY <2>2, ShowsParts
    <3>2. AM!left(u) \in AvlTrees /\ AM!right(u) \in AvlTrees
      BY <3>1 DEF NodeOver
    <3>3. TreeRank[AM!left(u)] < TreeRank[u] /\ TreeRank[AM!right(u)] < TreeRank[u]
      BY <2>2, TreeRankFalls
    <3>4. l \subseteq AvlKey /\ r \subseteq AvlKey
      BY <1>3, <3>1, <3>2, <3>3 DEF Sides
    <3> QED
      BY <3>1, <3>4 DEF NodeOver, Sides, KeyParts
  <2> QED
    BY <2>1, <2>2
<1> HIDE DEF Good
<1>4. AvlTrees = Good
  <2>1. TreeRank \in [AvlTrees -> Nat]
    BY TreeRankFalls
  <2>2. Good \in SUBSET AvlTrees
    BY DEF Good
  <2> QED
    BY <1>3, <2>1, <2>2, RankInduction
<1> USE DEF Good
<1>5. s \subseteq AvlKey
  BY <1>1, <1>4
<1> QED
  BY <1>1, <1>2, <1>5

\* A node built over two search trees.
LEMMA ShowsNew ==
  ASSUME NEW k \in AvlKey, NEW v \in AvlValue, NEW h \in Nat,
         NEW a, NEW b, NEW l, NEW r, NEW s, Shows(a, l), Shows(b, r), KeyParts(k, l, r, s)
  PROVE  Shows(AM!NewNode(k, v, h, a, b), s)
<1> DEFINE t == AM!NewNode(k, v, h, a, b)
<1>1. AM!key(t) = k /\ AM!value(t) = v /\ AM!height(t) = h /\ AM!left(t) = a /\ AM!right(t) = b
  BY NodeParts
<1>2. t = AM!NewNode(AM!key(t), AM!value(t), AM!height(t), AM!left(t), AM!right(t))
  BY <1>1
<1> HIDE DEF t
<1>3. a \in AvlTrees /\ b \in AvlTrees
  BY ShowsTree
<1>4. NodeOver(t, AvlTrees)
  BY <1>1, <1>2, <1>3 DEF NodeOver
<1>5. Sides(t, l, r, s)
  BY <1>1 DEF Sides
<1>6. Shows(t, s)
  BY <1>4, <1>5, ShowsNode
<1> QED
  BY <1>6 DEF t

LEMMA HeightNat == ASSUME NEW t \in AvlTrees PROVE AM!getheight(t) \in Nat
<1>1. t = AM!Null \/ NodeOver(t, AvlTrees)
  BY TreesStep
<1> QED
  BY <1>1 DEF AM!getheight, NodeOver

LEMMA AboveNat ==
  ASSUME NEW a \in AvlTrees, NEW b \in AvlTrees PROVE AM!Above(a, b) \in Nat
<1>1. AM!getheight(a) \in Nat /\ AM!getheight(b) \in Nat
  BY HeightNat
<1> QED
  BY <1>1 DEF AM!Above, AM!max

\* A node of a search tree, with the parts that the operations read.
NodeShows(t, l, r, s) == /\ NodeOver(t, AvlTrees) /\ t # AM!Null /\ t # AM!Crash
                         /\ Sides(t, l, r, s) /\ Shows(t, s)

LEMMA NodeShowsOf ==
  ASSUME NEW t, NEW s, Shows(t, s), t # AM!Null
  PROVE  \E l, r : NodeShows(t, l, r, s)
<1>1. t # AM!Crash
  BY ShowsTree
<1> QED
  BY <1>1, ShowsParts DEF NodeShows

LEMMA MeasuredShows ==
  ASSUME NEW t, NEW l, NEW r, NEW s, NodeOver(t, AvlTrees), Sides(t, l, r, s)
  PROVE  /\ NodeShows(AM!Measured(t), l, r, s) /\ AM!key(AM!Measured(t)) = AM!key(t)
         /\ AM!left(AM!Measured(t)) = AM!left(t) /\ AM!right(AM!Measured(t)) = AM!right(t)
<1> DEFINE m == AM!Measured(t)
           h == AM!Above(AM!left(t), AM!right(t))
<1>1. m = AM!NewNode(AM!key(t), AM!value(t), h, AM!left(t), AM!right(t))
  BY DEF AM!Measured
<1>2. h \in Nat
  BY AboveNat DEF NodeOver
<1> HIDE DEF m, h
<1>3. /\ AM!key(m) = AM!key(t) /\ AM!value(m) = AM!value(t) /\ AM!height(m) = h
      /\ AM!left(m) = AM!left(t) /\ AM!right(m) = AM!right(t) /\ m # AM!Null /\ m # AM!Crash
  BY <1>1, NodeParts
<1>4. NodeOver(m, AvlTrees)
  BY <1>1, <1>2, <1>3 DEF NodeOver
<1>5. Sides(m, l, r, s)
  BY <1>3 DEF Sides
<1>6. Shows(m, s)
  BY <1>4, <1>5, ShowsNode
<1>7. NodeShows(m, l, r, s)
  BY <1>3, <1>4, <1>5, <1>6 DEF NodeShows
<1> QED
  BY <1>3, <1>7 DEF m

LEMMA WithLeftShows ==
  ASSUME NEW t, NEW w, NEW l, NEW r, NEW s, NodeOver(t, AvlTrees), Shows(w, l),
         Shows(AM!right(t), r), KeyParts(AM!key(t), l, r, s)
  PROVE  /\ NodeShows(AM!WithLeft(t, w), l, r, s)
         /\ AM!key(AM!WithLeft(t, w)) = AM!key(t) /\ AM!left(AM!WithLeft(t, w)) = w
         /\ AM!right(AM!WithLeft(t, w)) = AM!right(t)
<1> DEFINE m == AM!WithLeft(t, w)
<1>0. w \in AvlTrees /\ w # AM!Crash
  BY ShowsTree
<1>1. m = AM!NewNode(AM!key(t), AM!value(t), AM!height(t), w, AM!right(t))
  BY <1>0 DEF AM!WithLeft
<1> HIDE DEF m
<1>3. /\ AM!key(m) = AM!key(t) /\ AM!value(m) = AM!value(t) /\ AM!height(m) = AM!height(t)
      /\ AM!left(m) = w /\ AM!right(m) = AM!right(t) /\ m # AM!Null /\ m # AM!Crash
  BY <1>1, NodeParts
<1>4. NodeOver(m, AvlTrees)
  BY <1>0, <1>1, <1>3 DEF NodeOver
<1>5. Sides(m, l, r, s)
  BY <1>3 DEF Sides
<1>6. Shows(m, s)
  BY <1>4, <1>5, ShowsNode
<1>7. NodeShows(m, l, r, s)
  BY <1>3, <1>4, <1>5, <1>6 DEF NodeShows
<1> QED
  BY <1>3, <1>7 DEF m

LEMMA WithRightShows ==
  ASSUME NEW t, NEW w, NEW l, NEW r, NEW s, NodeOver(t, AvlTrees), Shows(w, r),
         Shows(AM!left(t), l), KeyParts(AM!key(t), l, r, s)
  PROVE  /\ NodeShows(AM!WithRight(t, w), l, r, s)
         /\ AM!key(AM!WithRight(t, w)) = AM!key(t) /\ AM!right(AM!WithRight(t, w)) = w
         /\ AM!left(AM!WithRight(t, w)) = AM!left(t)
<1> DEFINE m == AM!WithRight(t, w)
<1>0. w \in AvlTrees /\ w # AM!Crash
  BY ShowsTree
<1>1. m = AM!NewNode(AM!key(t), AM!value(t), AM!height(t), AM!left(t), w)
  BY <1>0 DEF AM!WithRight
<1> HIDE DEF m
<1>3. /\ AM!key(m) = AM!key(t) /\ AM!value(m) = AM!value(t) /\ AM!height(m) = AM!height(t)
      /\ AM!right(m) = w /\ AM!left(m) = AM!left(t) /\ m # AM!Null /\ m # AM!Crash
  BY <1>1, NodeParts
<1>4. NodeOver(m, AvlTrees)
  BY <1>0, <1>1, <1>3 DEF NodeOver
<1>5. Sides(m, l, r, s)
  BY <1>3 DEF Sides
<1>6. Shows(m, s)
  BY <1>4, <1>5, ShowsNode
<1>7. NodeShows(m, l, r, s)
  BY <1>3, <1>4, <1>5, <1>6 DEF NodeShows
<1> QED
  BY <1>3, <1>7 DEF m

-----------------------------------------------------------------------------
\* The keys on the three sides of two nodes that a rotation moves.
LEMMA PartsRight ==
  ASSUME NEW x \in Int, NEW y \in Int, NEW a, NEW b, NEW l, NEW s, NEW r \in SUBSET Int,
         KeyParts(y, l, r, s), KeyParts(x, a, b, l)
  PROVE  KeyParts(y, b, r, b \cup {y} \cup r) /\ KeyParts(x, a, b \cup {y} \cup r, s)
<1>1. x < y
  BY DEF KeyParts
<1>2. \A z \in r : x < z
  BY <1>1 DEF KeyParts
<1> QED
  BY <1>1, <1>2 DEF KeyParts

LEMMA PartsLeft ==
  ASSUME NEW x \in Int, NEW y \in Int, NEW b, NEW c, NEW r, NEW s, NEW l \in SUBSET Int,
         KeyParts(x, l, r, s), KeyParts(y, b, c, r)
  PROVE  KeyParts(x, l, b, l \cup {x} \cup b) /\ KeyParts(y, l \cup {x} \cup b, c, s)
<1>1. x < y
  BY DEF KeyParts
<1>2. \A z \in l : z < y
  BY <1>1 DEF KeyParts
<1> QED
  BY <1>1, <1>2 DEF KeyParts

\* A rotation keeps the keys and their order, or finds no child to rotate about.
LEMMA RightRotateLeaves ==
  ASSUME NEW y, NEW s, Leaves(y, s), y # AM!Null
  PROVE  Leaves(AM!rightRotate(y), s)
<1>1. CASE y = AM!Crash \/ AM!left(y) = AM!Null
  BY <1>1 DEF AM!rightRotate, Leaves
<1>2. CASE y # AM!Crash /\ AM!left(y) # AM!Null
  <2>1. PICK l, r : NodeShows(y, l, r, s)
    BY <1>2, NodeShowsOf DEF Leaves
  <2> DEFINE x == AM!left(y)
             q == AM!WithLeft(y, AM!right(x))
             w == AM!WithRight(x, AM!Measured(q))
  <2>2. AM!rightRotate(y) = AM!Measured(w)
    BY <1>2 DEF AM!rightRotate
  <2>3. Shows(x, l) /\ Shows(AM!right(y), r) /\ KeyParts(AM!key(y), l, r, s) /\ x # AM!Null
    BY <1>2, <2>1 DEF NodeShows, Sides
  <2> HIDE DEF x
  <2>4. PICK a, b : NodeShows(x, a, b, l)
    BY <2>3, NodeShowsOf
  <2>5. NodeOver(x, AvlTrees) /\ NodeOver(y, AvlTrees)
    BY <2>1, <2>4 DEF NodeShows
  <2>6. Shows(AM!left(x), a) /\ Shows(AM!right(x), b) /\ KeyParts(AM!key(x), a, b, l)
    BY <2>4 DEF NodeShows, Sides
  <2>7. AM!key(x) \in Int /\ AM!key(y) \in Int /\ r \in SUBSET Int
    BY <2>3, <2>5, FiniteKeys, ShowsTree DEF NodeOver
  <2> DEFINE z == b \cup {AM!key(y)} \cup r
  <2>8. KeyParts(AM!key(y), b, r, z) /\ KeyParts(AM!key(x), a, z, s)
    BY <2>3, <2>6, <2>7, PartsRight
  <2> HIDE DEF z, q
  <2>9. NodeShows(q, b, r, z)
    <3> USE DEF q
    <3> QED
      BY <2>3, <2>5, <2>6, <2>8, WithLeftShows
  <2>10. Shows(AM!Measured(q), z)
    BY <2>9, MeasuredShows DEF NodeShows
  <2> HIDE DEF w
  <2>11. NodeShows(w, a, z, s)
    <3> USE DEF w
    <3> QED
      BY <2>5, <2>6, <2>8, <2>10, WithRightShows
  <2>12. Shows(AM!Measured(w), s)
    BY <2>11, MeasuredShows DEF NodeShows
  <2> QED
    BY <2>2, <2>12 DEF Leaves
<1> QED
  BY <1>1, <1>2

LEMMA LeftRotateLeaves ==
  ASSUME NEW x, NEW s, Leaves(x, s), x # AM!Null
  PROVE  Leaves(AM!leftRotate(x), s)
<1>1. CASE x = AM!Crash \/ AM!right(x) = AM!Null
  BY <1>1 DEF AM!leftRotate, Leaves
<1>2. CASE x # AM!Crash /\ AM!right(x) # AM!Null
  <2>1. PICK l, r : NodeShows(x, l, r, s)
    BY <1>2, NodeShowsOf DEF Leaves
  <2> DEFINE y == AM!right(x)
             q == AM!WithRight(x, AM!left(y))
             w == AM!WithLeft(y, AM!Measured(q))
  <2>2. AM!leftRotate(x) = AM!Measured(w)
    BY <1>2 DEF AM!leftRotate
  <2>3. Shows(AM!left(x), l) /\ Shows(y, r) /\ KeyParts(AM!key(x), l, r, s) /\ y # AM!Null
    BY <1>2, <2>1 DEF NodeShows, Sides
  <2> HIDE DEF y
  <2>4. PICK b, c : NodeShows(y, b, c, r)
    BY <2>3, NodeShowsOf
  <2>5. NodeOver(x, AvlTrees) /\ NodeOver(y, AvlTrees)
    BY <2>1, <2>4 DEF NodeShows
  <2>6. Shows(AM!left(y), b) /\ Shows(AM!right(y), c) /\ KeyParts(AM!key(y), b, c, r)
    BY <2>4 DEF NodeShows, Sides
  <2>7. AM!key(x) \in Int /\ AM!key(y) \in Int /\ l \in SUBSET Int
    BY <2>3, <2>5, FiniteKeys, ShowsTree DEF NodeOver
  <2> DEFINE z == l \cup {AM!key(x)} \cup b
  <2>8. KeyParts(AM!key(x), l, b, z) /\ KeyParts(AM!key(y), z, c, s)
    BY <2>3, <2>6, <2>7, PartsLeft
  <2> HIDE DEF z, q
  <2>9. NodeShows(q, l, b, z)
    <3> USE DEF q
    <3> QED
      BY <2>3, <2>5, <2>6, <2>8, WithRightShows
  <2>10. Shows(AM!Measured(q), z)
    BY <2>9, MeasuredShows DEF NodeShows
  <2> HIDE DEF w
  <2>11. NodeShows(w, z, c, s)
    <3> USE DEF w
    <3> QED
      BY <2>5, <2>6, <2>8, <2>10, WithLeftShows
  <2>12. Shows(AM!Measured(w), s)
    BY <2>11, MeasuredShows DEF NodeShows
  <2> QED
    BY <2>2, <2>12 DEF Leaves
<1> QED
  BY <1>1, <1>2

\* Whatever heights it goes by, the balancing keeps the keys and their order.
LEMMA RebalanceLeaves ==
  ASSUME NEW t, NEW k, NEW l, NEW r, NEW s, NodeOver(t, AvlTrees), Sides(t, l, r, s)
  PROVE  Leaves(AM!Rebalance(t, k), s)
<1> DEFINE m == AM!Measured(t)
           b == AM!getBalance(m)
           inner == AM!WithRight(m, AM!rightRotate(AM!right(m)))
           outer == AM!WithLeft(m, AM!leftRotate(AM!left(m)))
<1>1. AM!Rebalance(t, k) =
        CASE b > 1 /\ k < AM!key(AM!left(m))   -> AM!rightRotate(m)
          [] b < -1 /\ k > AM!key(AM!right(m)) -> AM!leftRotate(m)
          [] b < -1 /\ k < AM!key(AM!right(m)) -> AM!leftRotate(inner)
          [] b > 1 /\ k > AM!key(AM!left(m))   -> AM!rightRotate(outer)
          [] OTHER                             -> m
  BY DEF AM!Rebalance
<1> HIDE DEF m
<1>2. NodeShows(m, l, r, s)
  <2> USE DEF m
  <2> QED
    BY MeasuredShows
<1>3. /\ NodeOver(m, AvlTrees) /\ m # AM!Null /\ m # AM!Crash /\ Shows(m, s)
      /\ Shows(AM!left(m), l) /\ Shows(AM!right(m), r) /\ KeyParts(AM!key(m), l, r, s)
  BY <1>2 DEF NodeShows, Sides
<1>4. b \in Int /\ (b > 1 => AM!left(m) # AM!Null) /\ (b < -1 => AM!right(m) # AM!Null)
  <2>1. AM!getheight(AM!left(m)) \in Nat /\ AM!getheight(AM!right(m)) \in Nat
    BY <1>3, HeightNat DEF NodeOver
  <2>2. AM!getheight(AM!Null) = 0
    BY DEF AM!getheight
  <2> QED
    BY <2>1, <2>2 DEF AM!getBalance
<1>5. Leaves(m, s) /\ Leaves(AM!rightRotate(m), s) /\ Leaves(AM!leftRotate(m), s)
  BY <1>3, RightRotateLeaves, LeftRotateLeaves DEF Leaves
<1>6. ASSUME b < -1 PROVE Leaves(AM!leftRotate(inner), s)
  <2> DEFINE w == AM!rightRotate(AM!right(m))
  <2>1. Leaves(w, r)
    BY <1>3, <1>4, <1>6, RightRotateLeaves DEF Leaves
  <2> HIDE DEF w
  <2>2. CASE w = AM!Crash
    <3>1. inner = AM!Crash
      BY <2>2 DEF AM!WithRight, w
    <3> QED
      BY <3>1 DEF AM!leftRotate, Leaves
  <2>3. CASE Shows(w, r)
    <3>1. NodeShows(AM!WithRight(m, w), l, r, s)
      BY <1>3, <2>3, WithRightShows
    <3>2. inner # AM!Null /\ Leaves(inner, s)
      BY <3>1 DEF NodeShows, Leaves, w
    <3> HIDE DEF inner
    <3> QED
      BY <3>2, LeftRotateLeaves
  <2> QED
    BY <2>1, <2>2, <2>3 DEF Leaves
<1>7. ASSUME b > 1 PROVE Leaves(AM!rightRotate(outer), s)
  <2> DEFINE w == AM!leftRotate(AM!left(m))
  <2>1. Leaves(w, l)
    BY <1>3, <1>4, <1>7, LeftRotateLeaves DEF Leaves
  <2> HIDE DEF w
  <2>2. CASE w = AM!Crash
    <3>1. outer = AM!Crash
      BY <2>2 DEF AM!WithLeft, w
    <3> QED
      BY <3>1 DEF AM!rightRotate, Leaves
  <2>3. CASE Shows(w, l)
    <3>1. NodeShows(AM!WithLeft(m, w), l, r, s)
      BY <1>3, <2>3, WithLeftShows
    <3>2. outer # AM!Null /\ Leaves(outer, s)
      BY <3>1 DEF NodeShows, Leaves, w
    <3> HIDE DEF outer
    <3> QED
      BY <3>2, RightRotateLeaves
  <2> QED
    BY <2>1, <2>2, <2>3 DEF Leaves
<1> HIDE DEF b, inner, outer
<1> QED
  BY <1>1, <1>5, <1>6, <1>7

-----------------------------------------------------------------------------
\* The operations on any tree, ordered or not, return a tree or the mark of a
\* crash.
AvlResults == AvlTrees \cup {AM!Crash}

LEMMA TreesSorted ==
  /\ \A t \in AvlTrees : t # AM!Null => NodeOver(t, AvlTrees)
  /\ \A t : NodeOver(t, AvlTrees) => t \in AvlTrees /\ t # AM!Null /\ t # AM!Crash
<1>1. \A t : NodeOver(t, AvlTrees) => t # AM!Null /\ t # AM!Crash
  BY NodeParts DEF NodeOver
<1> QED
  BY <1>1, TreesStep

LEMMA NewNodeOver ==
  ASSUME NEW k \in AvlKey, NEW v \in AvlValue, NEW h \in Nat, NEW a \in AvlTrees, NEW b \in AvlTrees
  PROVE  NodeOver(AM!NewNode(k, v, h, a, b), AvlTrees)
<1> DEFINE t == AM!NewNode(k, v, h, a, b)
<1>1. AM!key(t) = k /\ AM!value(t) = v /\ AM!height(t) = h /\ AM!left(t) = a /\ AM!right(t) = b
  BY NodeParts
<1>2. t = AM!NewNode(AM!key(t), AM!value(t), AM!height(t), AM!left(t), AM!right(t))
  BY <1>1
<1> HIDE DEF t
<1>3. NodeOver(t, AvlTrees)
  BY <1>1, <1>2 DEF NodeOver
<1> QED
  BY <1>3 DEF t

LEMMA MeasuredOver ==
  ASSUME NEW t, NodeOver(t, AvlTrees) PROVE NodeOver(AM!Measured(t), AvlTrees)
BY AboveNat, NewNodeOver DEF AM!Measured, NodeOver

LEMMA WithOver ==
  ASSUME NEW t, NodeOver(t, AvlTrees), NEW w \in AvlTrees
  PROVE  NodeOver(AM!WithLeft(t, w), AvlTrees) /\ NodeOver(AM!WithRight(t, w), AvlTrees)
<1>1. w # AM!Crash
  BY TreesStep, TreesSorted, NullIsNoCrash
<1>2. NodeOver(AM!WithLeft(t, w), AvlTrees)
  BY <1>1, NewNodeOver DEF AM!WithLeft, NodeOver
<1>3. NodeOver(AM!WithRight(t, w), AvlTrees)
  BY <1>1, NewNodeOver DEF AM!WithRight, NodeOver
<1> QED
  BY <1>2, <1>3

LEMMA RotateResults ==
  ASSUME NEW t \in AvlResults, t # AM!Null
  PROVE  AM!rightRotate(t) \in AvlResults /\ AM!leftRotate(t) \in AvlResults
<1>1. AM!rightRotate(t) \in AvlResults
  <2>1. CASE t = AM!Crash \/ AM!left(t) = AM!Null
    BY <2>1 DEF AM!rightRotate, AvlResults
  <2>2. CASE t # AM!Crash /\ AM!left(t) # AM!Null
    <3>1. NodeOver(t, AvlTrees)
      BY <2>2, TreesSorted DEF AvlResults
    <3> DEFINE x == AM!left(t)
               q == AM!WithLeft(t, AM!right(x))
               w == AM!WithRight(x, AM!Measured(q))
    <3>2. AM!rightRotate(t) = AM!Measured(w)
      BY <2>2 DEF AM!rightRotate
    <3>3. NodeOver(x, AvlTrees)
      BY <2>2, <3>1, TreesSorted DEF NodeOver
    <3>4. AM!right(x) \in AvlTrees
      BY <3>3 DEF NodeOver
    <3> HIDE DEF x
    <3>5. NodeOver(q, AvlTrees)
      BY <3>1, <3>4, WithOver
    <3> HIDE DEF q
    <3>6. AM!Measured(q) \in AvlTrees
      BY <3>5, MeasuredOver, TreesSorted
    <3>7. NodeOver(w, AvlTrees)
      BY <3>3, <3>6, WithOver
    <3> HIDE DEF w
    <3>8. AM!Measured(w) \in AvlTrees
      BY <3>7, MeasuredOver, TreesSorted
    <3> QED
      BY <3>2, <3>8 DEF AvlResults
  <2> QED
    BY <2>1, <2>2
<1>2. AM!leftRotate(t) \in AvlResults
  <2>1. CASE t = AM!Crash \/ AM!right(t) = AM!Null
    BY <2>1 DEF AM!leftRotate, AvlResults
  <2>2. CASE t # AM!Crash /\ AM!right(t) # AM!Null
    <3>1. NodeOver(t, AvlTrees)
      BY <2>2, TreesSorted DEF AvlResults
    <3> DEFINE y == AM!right(t)
               q == AM!WithRight(t, AM!left(y))
               w == AM!WithLeft(y, AM!Measured(q))
    <3>2. AM!leftRotate(t) = AM!Measured(w)
      BY <2>2 DEF AM!leftRotate
    <3>3. NodeOver(y, AvlTrees)
      BY <2>2, <3>1, TreesSorted DEF NodeOver
    <3>4. AM!left(y) \in AvlTrees
      BY <3>3 DEF NodeOver
    <3> HIDE DEF y
    <3>5. NodeOver(q, AvlTrees)
      BY <3>1, <3>4, WithOver
    <3> HIDE DEF q
    <3>6. AM!Measured(q) \in AvlTrees
      BY <3>5, MeasuredOver, TreesSorted
    <3>7. NodeOver(w, AvlTrees)
      BY <3>3, <3>6, WithOver
    <3> HIDE DEF w
    <3>8. AM!Measured(w) \in AvlTrees
      BY <3>7, MeasuredOver, TreesSorted
    <3> QED
      BY <3>2, <3>8 DEF AvlResults
  <2> QED
    BY <2>1, <2>2
<1> QED
  BY <1>1, <1>2

LEMMA WithResults ==
  ASSUME NEW t, NodeOver(t, AvlTrees), NEW w \in AvlResults
  PROVE  /\ AM!WithLeft(t, w) \in AvlResults \ {AM!Null}
         /\ AM!WithRight(t, w) \in AvlResults \ {AM!Null}
<1>1. CASE w = AM!Crash
  <2>1. AM!WithLeft(t, w) = AM!Crash /\ AM!WithRight(t, w) = AM!Crash
    BY <1>1 DEF AM!WithLeft, AM!WithRight
  <2> QED
    BY <2>1, NullIsNoCrash DEF AvlResults
<1>2. CASE w \in AvlTrees
  BY <1>2, WithOver, TreesSorted DEF AvlResults
<1> QED
  BY <1>1, <1>2 DEF AvlResults

LEMMA RebalanceResults ==
  ASSUME NEW t, NEW k, NodeOver(t, AvlTrees)
  PROVE  AM!Rebalance(t, k) \in AvlResults
<1> DEFINE m == AM!Measured(t)
           b == AM!getBalance(m)
           inner == AM!WithRight(m, AM!rightRotate(AM!right(m)))
           outer == AM!WithLeft(m, AM!leftRotate(AM!left(m)))
<1>1. AM!Rebalance(t, k) =
        CASE b > 1 /\ k < AM!key(AM!left(m))   -> AM!rightRotate(m)
          [] b < -1 /\ k > AM!key(AM!right(m)) -> AM!leftRotate(m)
          [] b < -1 /\ k < AM!key(AM!right(m)) -> AM!leftRotate(inner)
          [] b > 1 /\ k > AM!key(AM!left(m))   -> AM!rightRotate(outer)
          [] OTHER                             -> m
  BY DEF AM!Rebalance
<1>2. NodeOver(m, AvlTrees)
  BY MeasuredOver
<1> HIDE DEF m
<1>3. AM!left(m) \in AvlTrees /\ AM!right(m) \in AvlTrees /\ m \in AvlTrees /\ m # AM!Null
  BY <1>2, TreesSorted DEF NodeOver
<1>4. b \in Int /\ (b > 1 => AM!left(m) # AM!Null) /\ (b < -1 => AM!right(m) # AM!Null)
  <2>1. AM!getheight(AM!left(m)) \in Nat /\ AM!getheight(AM!right(m)) \in Nat
    BY <1>3, HeightNat
  <2>2. AM!getheight(AM!Null) = 0
    BY DEF AM!getheight
  <2> QED
    BY <2>1, <2>2 DEF AM!getBalance
<1>5. m \in AvlResults /\ AM!rightRotate(m) \in AvlResults /\ AM!leftRotate(m) \in AvlResults
  BY <1>3, RotateResults DEF AvlResults
<1>6. ASSUME b < -1 PROVE AM!leftRotate(inner) \in AvlResults
  <2>1. AM!rightRotate(AM!right(m)) \in AvlResults
    BY <1>3, <1>4, <1>6, RotateResults DEF AvlResults
  <2>2. inner \in AvlResults /\ inner # AM!Null
    BY <1>2, <2>1, WithResults
  <2> HIDE DEF inner
  <2> QED
    BY <2>2, RotateResults
<1>7. ASSUME b > 1 PROVE AM!rightRotate(outer) \in AvlResults
  <2>1. AM!leftRotate(AM!left(m)) \in AvlResults
    BY <1>3, <1>4, <1>7, RotateResults DEF AvlResults
  <2>2. outer \in AvlResults /\ outer # AM!Null
    BY <1>2, <2>1, WithResults
  <2> HIDE DEF outer
  <2> QED
    BY <2>2, RotateResults
<1> HIDE DEF b, inner, outer
<1> QED
  BY <1>1, <1>5, <1>6, <1>7

-----------------------------------------------------------------------------
\* The recursions of insert and deleteNode, with f for the calls on subtrees.
InsertBody(k, v, u, f) ==
  IF u = AM!Null THEN AM!NewNode(k, v, 1, AM!Null, AM!Null)
  ELSE IF k > AM!key(u)
       THEN LET r == f[AM!right(u)] IN
              IF r = AM!Crash THEN AM!Crash ELSE AM!Rebalance(AM!WithRight(u, r), k)
       ELSE LET l == IF k < AM!key(u) THEN f[AM!left(u)] ELSE AM!left(u) IN
              IF l = AM!Crash THEN AM!Crash ELSE AM!WithValue(AM!WithLeft(u, l), v)

DeleteBody(k, u, f) ==
  IF u = AM!Null THEN AM!Null
  ELSE LET w == IF k < AM!key(u) THEN AM!WithLeft(u, f[AM!left(u)])
                ELSE IF k > AM!key(u) THEN AM!WithRight(u, f[AM!right(u)])
                ELSE AM!DeleteHere(u) IN
         IF w \in {AM!Null, AM!Crash} THEN w ELSE AM!Rebalance(w, k)

LEMMA TreeNode ==
  ASSUME NEW u \in AM!Tree, u # AM!Null
  PROVE  /\ NodeOver(u, AvlTrees) /\ AM!left(u) \in AM!Tree /\ AM!right(u) \in AM!Tree
         /\ AM!left(u) \in AvlTrees /\ AM!right(u) \in AvlTrees
BY TreeLevels, TreesSorted

LEMMA InsertBodyResults ==
  ASSUME NEW k \in AvlKey, NEW v \in AvlValue, NEW u \in AM!Tree, NEW f \in [AM!Tree -> AvlResults]
  PROVE  InsertBody(k, v, u, f) \in AvlResults
<1>1. CASE u = AM!Null
  <2>1. NodeOver(AM!NewNode(k, v, 1, AM!Null, AM!Null), AvlTrees)
    BY NewNodeOver, TreesStep
  <2> QED
    BY <1>1, <2>1, TreesSorted DEF InsertBody, AvlResults
<1>2. CASE u # AM!Null /\ k > AM!key(u)
  <2> DEFINE r == f[AM!right(u)]
  <2>1. r \in AvlResults
    BY <1>2, TreeNode
  <2>2. InsertBody(k, v, u, f) =
          IF r = AM!Crash THEN AM!Crash ELSE AM!Rebalance(AM!WithRight(u, r), k)
    BY <1>2 DEF InsertBody
  <2> HIDE DEF r
  <2>3. CASE r = AM!Crash
    BY <2>2, <2>3 DEF AvlResults
  <2>4. CASE r # AM!Crash
    <3>1. NodeOver(AM!WithRight(u, r), AvlTrees)
      BY <1>2, <2>1, <2>4, TreeNode, WithOver DEF AvlResults
    <3> QED
      BY <2>2, <2>4, <3>1, RebalanceResults
  <2> QED
    BY <2>3, <2>4
<1>3. CASE u # AM!Null /\ ~(k > AM!key(u))
  <2> DEFINE l == IF k < AM!key(u) THEN f[AM!left(u)] ELSE AM!left(u)
  <2>1. l \in AvlResults
    BY <1>3, TreeNode DEF AvlResults
  <2>2. InsertBody(k, v, u, f) =
          IF l = AM!Crash THEN AM!Crash ELSE AM!WithValue(AM!WithLeft(u, l), v)
    BY <1>3 DEF InsertBody
  <2> HIDE DEF l
  <2>3. CASE l = AM!Crash
    BY <2>2, <2>3 DEF AvlResults
  <2>4. CASE l # AM!Crash
    <3>1. NodeOver(AM!WithLeft(u, l), AvlTrees)
      BY <1>3, <2>1, <2>4, TreeNode, WithOver DEF AvlResults
    <3>2. NodeOver(AM!WithValue(AM!WithLeft(u, l), v), AvlTrees)
      BY <3>1, NewNodeOver DEF NodeOver, AM!WithValue
    <3> QED
      BY <2>2, <2>4, <3>2, TreesSorted DEF AvlResults
  <2> QED
    BY <2>3, <2>4
<1> QED
  BY <1>1, <1>2, <1>3

LEMMA DeleteBodyResults ==
  ASSUME NEW k, NEW u \in AM!Tree, NEW f \in [AM!Tree -> AvlResults]
  PROVE  DeleteBody(k, u, f) \in AvlResults
<1>1. CASE u = AM!Null
  BY <1>1, TreesStep DEF DeleteBody, AvlResults
<1>2. CASE u # AM!Null
  <2> DEFINE w == IF k < AM!key(u) THEN AM!WithLeft(u, f[AM!left(u)])
                  ELSE IF k > AM!key(u) THEN AM!WithRight(u, f[AM!right(u)])
                  ELSE AM!DeleteHere(u)
  <2>1. w \in AvlResults
    <3>1. f[AM!left(u)] \in AvlResults /\ f[AM!right(u)] \in AvlResults
      BY <1>2, TreeNode
    <3>2. /\ AM!WithLeft(u, f[AM!left(u)]) \in AvlResults
          /\ AM!WithRight(u, f[AM!right(u)]) \in AvlResults
      BY <1>2, <3>1, TreeNode, WithResults
    <3>3. AM!DeleteHere(u) \in AvlResults
      BY <1>2, TreeNode DEF AM!DeleteHere, AvlResults
    <3> QED
      BY <3>2, <3>3
  <2>2. DeleteBody(k, u, f) = IF w \in {AM!Null, AM!Crash} THEN w ELSE AM!Rebalance(w, k)
    BY <1>2 DEF DeleteBody
  <2> HIDE DEF w
  <2>3. CASE w \in {AM!Null, AM!Crash}
    BY <2>1, <2>2, <2>3
  <2>4. CASE w \notin {AM!Null, AM!Crash}
    <3>1. NodeOver(w, AvlTrees)
      BY <2>1, <2>4, TreesSorted DEF AvlResults
    <3> QED
      BY <2>2, <2>4, <3>1, RebalanceResults
  <2> QED
    BY <2>3, <2>4
<1> QED
  BY <1>1, <1>2

\* A recursion over the trees that looks at the subtrees only has a solution.
TreeStepFn(step, v) ==
  /\ v # {} /\ step \in [AM!Tree -> [[AM!Tree -> v] -> v]]
  /\ \A u \in AM!Tree : \A f, g \in [AM!Tree -> v] :
       (u # AM!Null => f[AM!left(u)] = g[AM!left(u)] /\ f[AM!right(u)] = g[AM!right(u)])
         => step[u][f] = step[u][g]

LEMMA TreeRecursion ==
  ASSUME NEW step, NEW v, TreeStepFn(step, v)
  PROVE  \E f : Solution(f, step, AM!Tree, v)
<1> DEFINE s == AM!Tree
           rank == [u \in s |-> TreeRank[u]]
<1>1. PICK b \in Nat : \A u \in s : TreeRank[u] \in 0..b
  BY TreeLevels
<1>2. rank \in [s -> 0..b] /\ \A u \in s : rank[u] = TreeRank[u]
  BY <1>1
<1> HIDE DEF rank
<1>3. ASSUME NEW u \in s, u # AM!Null
      PROVE  /\ AM!left(u) \in s /\ rank[AM!left(u)] < rank[u]
             /\ AM!right(u) \in s /\ rank[AM!right(u)] < rank[u]
  <2>1. AM!left(u) \in s /\ AM!right(u) \in s /\ u \in AvlTrees
    BY <1>3, TreeLevels
  <2>2. TreeRank[AM!left(u)] < TreeRank[u] /\ TreeRank[AM!right(u)] < TreeRank[u]
    BY <1>3, <2>1, TreeRankFalls
  <2> QED
    BY <1>2, <2>1, <2>2
<1>4. Descends(step, s, v, rank)
  <2> SUFFICES ASSUME NEW u \in s, NEW f \in [s -> v], NEW g \in [s -> v], Agree(f, g, s, rank, u)
               PROVE  step[u][f] = step[u][g]
    BY DEF Descends
  <2>1. u # AM!Null => f[AM!left(u)] = g[AM!left(u)] /\ f[AM!right(u)] = g[AM!right(u)]
    BY <1>3 DEF Agree
  <2> QED
    BY <2>1 DEF TreeStepFn
<1>5. Recursive(step, s, v, rank, b)
  BY <1>1, <1>2, <1>4 DEF Recursive, TreeStepFn
<1> HIDE DEF s
<1>6. \E f : Solution(f, step, s, v)
  BY <1>5, RecursionExists
<1> QED
  BY <1>6 DEF s

\* What the two recursions compute.
LEMMA InsertCalls ==
  ASSUME NEW k \in AvlKey, NEW v \in AvlValue
  PROVE  \E f :
           /\ \A u \in AM!Tree : f[u] = InsertBody(k, v, u, f)
           /\ \A t : AM!insert(t, k, v) = f[t]
<1> DEFINE s == AM!Tree
           step == [u \in s |-> [f \in [s -> AvlResults] |-> InsertBody(k, v, u, f)]]
           Fn(f) == [u \in s |-> InsertBody(k, v, u, f)]
<1>1. TreeStepFn(step, AvlResults)
  <2>1. AvlResults # {}
    BY DEF AvlResults
  <2>2. step \in [s -> [[s -> AvlResults] -> AvlResults]]
    BY InsertBodyResults
  <2>3. \A u \in s : \A f \in [s -> AvlResults] : step[u][f] = InsertBody(k, v, u, f)
    OBVIOUS
  <2> HIDE DEF step
  <2>4. ASSUME NEW u \in s, NEW f \in [s -> AvlResults], NEW g \in [s -> AvlResults],
               u # AM!Null => f[AM!left(u)] = g[AM!left(u)] /\ f[AM!right(u)] = g[AM!right(u)]
        PROVE  step[u][f] = step[u][g]
    <3>1. InsertBody(k, v, u, f) = InsertBody(k, v, u, g)
      BY <2>4 DEF InsertBody
    <3> QED
      BY <2>3, <3>1
  <2> QED
    BY <2>1, <2>2, <2>4 DEF TreeStepFn
<1> HIDE DEF step
<1>2. PICK f : Solution(f, step, s, AvlResults)
  BY <1>1, TreeRecursion
<1>3. f \in [s -> AvlResults] /\ \A u \in s : f[u] = InsertBody(k, v, u, f)
  <2> USE DEF step
  <2> QED
    BY <1>2, Zenon DEF Solution
<1>4. f = Fn(f)
  <2>1. f = [u \in s |-> f[u]]
    BY <1>3
  <2>2. [u \in s |-> f[u]] = Fn(f)
    BY <1>3, Zenon
  <2> QED
    BY <2>1, <2>2
<1> DEFINE F == CHOOSE g : g = Fn(g)
<1>5. F = Fn(F)
  <2> HIDE DEF Fn
  <2> QED
    BY <1>4, Zenon
<1>6. \A t : AM!insert(t, k, v) = F[t]
  BY Zenon DEF AM!insert, InsertBody
<1> HIDE DEF F
<1>7. \A u \in s : F[u] = InsertBody(k, v, u, F)
  <2>1. \A u \in s : Fn(F)[u] = InsertBody(k, v, u, F)
    BY Zenon
  <2> HIDE DEF Fn
  <2> QED
    BY <1>5, <2>1
<1> QED
  BY <1>6, <1>7

LEMMA DeleteCalls ==
  ASSUME NEW k
  PROVE  \E f :
           /\ \A u \in AM!Tree : f[u] = DeleteBody(k, u, f)
           /\ \A t : AM!deleteNode(t, k) = f[t]
<1> DEFINE s == AM!Tree
           step == [u \in s |-> [f \in [s -> AvlResults] |-> DeleteBody(k, u, f)]]
           Fn(f) == [u \in s |-> DeleteBody(k, u, f)]
<1>1. TreeStepFn(step, AvlResults)
  <2>1. AvlResults # {}
    BY DEF AvlResults
  <2>2. step \in [s -> [[s -> AvlResults] -> AvlResults]]
    BY DeleteBodyResults
  <2>3. \A u \in s : \A f \in [s -> AvlResults] : step[u][f] = DeleteBody(k, u, f)
    OBVIOUS
  <2> HIDE DEF step
  <2>4. ASSUME NEW u \in s, NEW f \in [s -> AvlResults], NEW g \in [s -> AvlResults],
               u # AM!Null => f[AM!left(u)] = g[AM!left(u)] /\ f[AM!right(u)] = g[AM!right(u)]
        PROVE  step[u][f] = step[u][g]
    <3>1. DeleteBody(k, u, f) = DeleteBody(k, u, g)
      BY <2>4 DEF DeleteBody
    <3> QED
      BY <2>3, <3>1
  <2> QED
    BY <2>1, <2>2, <2>4 DEF TreeStepFn
<1> HIDE DEF step
<1>2. PICK f : Solution(f, step, s, AvlResults)
  BY <1>1, TreeRecursion
<1>3. f \in [s -> AvlResults] /\ \A u \in s : f[u] = DeleteBody(k, u, f)
  <2> USE DEF step
  <2> QED
    BY <1>2, Zenon DEF Solution
<1>4. f = Fn(f)
  <2>1. f = [u \in s |-> f[u]]
    BY <1>3
  <2>2. [u \in s |-> f[u]] = Fn(f)
    BY <1>3, Zenon
  <2> QED
    BY <2>1, <2>2
<1> DEFINE F == CHOOSE g : g = Fn(g)
<1>5. F = Fn(F)
  <2> HIDE DEF Fn
  <2> QED
    BY <1>4, Zenon
<1>6. \A t : AM!deleteNode(t, k) = F[t]
  BY Zenon DEF AM!deleteNode, DeleteBody
<1> HIDE DEF F
<1>7. \A u \in s : F[u] = DeleteBody(k, u, F)
  <2>1. \A u \in s : Fn(F)[u] = DeleteBody(k, u, F)
    BY Zenon
  <2> HIDE DEF Fn
  <2> QED
    BY <1>5, <2>1
<1> QED
  BY <1>6, <1>7

-----------------------------------------------------------------------------
LEMMA TreeInduction ==
  ASSUME NEW good \in SUBSET AM!Tree, AM!Null \in good,
         \A u \in AM!Tree : u # AM!Null /\ AM!left(u) \in good /\ AM!right(u) \in good => u \in good
  PROVE  AM!Tree = good
<1> DEFINE r == [u \in AM!Tree |-> TreeRank[u]]
<1>1. r \in [AM!Tree -> Nat] /\ \A u \in AM!Tree : r[u] = TreeRank[u]
  BY TreeLevels, TreeRankFalls
<1> HIDE DEF r
<1>2. ASSUME NEW u \in AM!Tree, \A w \in AM!Tree : r[w] < r[u] => w \in good
      PROVE  u \in good
  <2>1. CASE u = AM!Null
    BY <2>1
  <2>2. CASE u # AM!Null
    <3>1. AM!left(u) \in AM!Tree /\ AM!right(u) \in AM!Tree /\ u \in AvlTrees
      BY <2>2, TreeLevels
    <3>2. r[AM!left(u)] < r[u] /\ r[AM!right(u)] < r[u]
      BY <1>1, <2>2, <3>1, TreeRankFalls
    <3>3. AM!left(u) \in good /\ AM!right(u) \in good
      BY <1>2, <3>1, <3>2
    <3> QED
      BY <2>2, <3>3
  <2> QED
    BY <2>1, <2>2
<1> QED
  BY <1>1, <1>2, RankInduction

LEMMA WithValueShows ==
  ASSUME NEW t, NEW l, NEW r, NEW s, NEW v \in AvlValue, NodeShows(t, l, r, s)
  PROVE  Shows(AM!WithValue(t, v), s)
BY ShowsNew DEF AM!WithValue, NodeShows, Sides, NodeOver

\* insert leaves the keys of the tree and the new one, or crashes.
LEMMA InsertLeaves ==
  ASSUME NEW k \in AvlKey, NEW v \in AvlValue, NEW t \in AM!Tree, NEW s, Shows(t, s)
  PROVE  Leaves(AM!insert(t, k, v), s \cup {k})
<1>1. PICK f : /\ \A u \in AM!Tree : f[u] = InsertBody(k, v, u, f)
               /\ \A u : AM!insert(u, k, v) = f[u]
  BY InsertCalls
<1>0. k \in Int
  BY FiniteKeys
<1> DEFINE good == {u \in AM!Tree : \A a : Shows(u, a) => Leaves(f[u], a \cup {k})}
<1>2. AM!Null \in good
  <2>1. f[AM!Null] = AM!NewNode(k, v, 1, AM!Null, AM!Null)
    BY <1>1, TreeLevels DEF InsertBody
  <2>2. KeyParts(k, {}, {}, {} \cup {k})
    BY DEF KeyParts
  <2>3. Shows(f[AM!Null], {} \cup {k})
    BY <2>1, <2>2, ShowsNull, ShowsNew
  <2>4. ASSUME NEW a, Shows(AM!Null, a) PROVE Leaves(f[AM!Null], a \cup {k})
    <3>1. a = {}
      BY <2>4, ShowsParts
    <3> QED
      BY <2>3, <3>1 DEF Leaves
  <2> QED
    BY <2>4, TreeLevels
<1>3. ASSUME NEW u \in AM!Tree, u # AM!Null, AM!left(u) \in good, AM!right(u) \in good
      PROVE  u \in good
  <2> SUFFICES ASSUME NEW a, Shows(u, a) PROVE Leaves(f[u], a \cup {k})
    OBVIOUS
  <2>1. PICK l, r : NodeShows(u, l, r, a)
    BY <1>3, NodeShowsOf
  <2>2. /\ NodeOver(u, AvlTrees) /\ Shows(AM!left(u), l) /\ Shows(AM!right(u), r)
        /\ KeyParts(AM!key(u), l, r, a) /\ AM!key(u) \in Int
    BY <2>1, FiniteKeys DEF NodeShows, Sides, NodeOver
  <2>3. Leaves(f[AM!left(u)], l \cup {k}) /\ Leaves(f[AM!right(u)], r \cup {k})
    BY <1>3, <2>2
  <2>4. f[u] = InsertBody(k, v, u, f)
    BY <1>1
  <2> HIDE DEF good
  <2>5. CASE k > AM!key(u)
    <3> DEFINE w == f[AM!right(u)]
    <3>1. f[u] = IF w = AM!Crash THEN AM!Crash ELSE AM!Rebalance(AM!WithRight(u, w), k)
      BY <1>3, <2>4, <2>5 DEF InsertBody
    <3>2. Leaves(w, r \cup {k})
      BY <2>3
    <3> HIDE DEF w
    <3>3. CASE w = AM!Crash
      BY <3>1, <3>3 DEF Leaves
    <3>4. CASE w # AM!Crash
      <4>1. KeyParts(AM!key(u), l, r \cup {k}, a \cup {k})
        BY <1>0, <2>2, <2>5 DEF KeyParts
      <4>2. Shows(w, r \cup {k})
        BY <3>2, <3>4 DEF Leaves
      <4>3. NodeShows(AM!WithRight(u, w), l, r \cup {k}, a \cup {k})
        BY <2>2, <4>1, <4>2, WithRightShows
      <4>4. Leaves(AM!Rebalance(AM!WithRight(u, w), k), a \cup {k})
        BY <4>3, RebalanceLeaves DEF NodeShows
      <4> QED
        BY <3>1, <3>4, <4>4
    <3> QED
      BY <3>3, <3>4
  <2>6. CASE ~(k > AM!key(u))
    <3> DEFINE w == IF k < AM!key(u) THEN f[AM!left(u)] ELSE AM!left(u)
               b == IF k < AM!key(u) THEN l \cup {k} ELSE l
    <3>1. f[u] = IF w = AM!Crash THEN AM!Crash ELSE AM!WithValue(AM!WithLeft(u, w), v)
      BY <1>3, <2>4, <2>6 DEF InsertBody
    <3>2. Leaves(w, b)
      BY <2>2, <2>3 DEF Leaves
    <3>3. KeyParts(AM!key(u), b, r, a \cup {k})
      <4>1. CASE k < AM!key(u)
        BY <2>2, <4>1 DEF KeyParts
      <4>2. CASE k = AM!key(u)
        BY <2>2, <4>2 DEF KeyParts
      <4> QED
        BY <1>0, <2>2, <2>6, <4>1, <4>2
    <3> HIDE DEF w, b
    <3>4. CASE w = AM!Crash
      BY <3>1, <3>4 DEF Leaves
    <3>5. CASE w # AM!Crash
      <4>1. Shows(w, b)
        BY <3>2, <3>5 DEF Leaves
      <4>2. NodeShows(AM!WithLeft(u, w), b, r, a \cup {k})
        BY <2>2, <3>3, <4>1, WithLeftShows
      <4>3. Shows(AM!WithValue(AM!WithLeft(u, w), v), a \cup {k})
        BY <4>2, WithValueShows
      <4> QED
        BY <3>1, <3>5, <4>3 DEF Leaves
    <3> QED
      BY <3>4, <3>5
  <2> QED
    BY <2>5, <2>6
<1>4. AM!Tree = good
  <2>1. good \in SUBSET AM!Tree
    OBVIOUS
  <2> HIDE DEF good
  <2> QED
    BY <1>2, <1>3, <2>1, TreeInduction
<1> QED
  BY <1>1, <1>4

\* deleteNode leaves the keys of the tree without k, or crashes.
LEMMA DeleteLeaves ==
  ASSUME NEW k \in AvlKey, NEW t \in AM!Tree, NEW s, Shows(t, s)
  PROVE  Leaves(AM!deleteNode(t, k), s \ {k})
<1>1. PICK f : /\ \A u \in AM!Tree : f[u] = DeleteBody(k, u, f)
               /\ \A u : AM!deleteNode(u, k) = f[u]
  BY DeleteCalls
<1>0. k \in Int
  BY FiniteKeys
<1> DEFINE good == {u \in AM!Tree : \A a : Shows(u, a) => Leaves(f[u], a \ {k})}
<1>2. AM!Null \in good
  <2>1. f[AM!Null] = AM!Null
    BY <1>1, TreeLevels DEF DeleteBody
  <2>4. ASSUME NEW a, Shows(AM!Null, a) PROVE Leaves(f[AM!Null], a \ {k})
    <3>1. a = {} /\ a \ {k} = {}
      BY <2>4, ShowsParts
    <3> QED
      BY <2>1, <3>1, ShowsNull DEF Leaves
  <2> QED
    BY <2>4, TreeLevels
<1>3. ASSUME NEW u \in AM!Tree, u # AM!Null, AM!left(u) \in good, AM!right(u) \in good
      PROVE  u \in good
  <2> SUFFICES ASSUME NEW a, Shows(u, a) PROVE Leaves(f[u], a \ {k})
    OBVIOUS
  <2>1. PICK l, r : NodeShows(u, l, r, a)
    BY <1>3, NodeShowsOf
  <2>2. /\ NodeOver(u, AvlTrees) /\ Shows(AM!left(u), l) /\ Shows(AM!right(u), r)
        /\ KeyParts(AM!key(u), l, r, a) /\ AM!key(u) \in Int
    BY <2>1, FiniteKeys DEF NodeShows, Sides, NodeOver
  <2>0. l \subseteq Int /\ r \subseteq Int
    BY <2>2, ShowsTree, FiniteKeys
  <2>3. Leaves(f[AM!left(u)], l \ {k}) /\ Leaves(f[AM!right(u)], r \ {k})
    BY <1>3, <2>2
  <2> HIDE DEF good
  <2> DEFINE w == IF k < AM!key(u) THEN AM!WithLeft(u, f[AM!left(u)])
                  ELSE IF k > AM!key(u) THEN AM!WithRight(u, f[AM!right(u)])
                  ELSE AM!DeleteHere(u)
  <2>4. f[u] = IF w \in {AM!Null, AM!Crash} THEN w ELSE AM!Rebalance(w, k)
    BY <1>1, <1>3, Zenon DEF DeleteBody
  <2>5. Leaves(w, a \ {k})
    <3>1. CASE k < AM!key(u)
      <4> DEFINE x == f[AM!left(u)]
      <4>1. w = AM!WithLeft(u, x) /\ Leaves(x, l \ {k})
        BY <2>3, <3>1
      <4> HIDE DEF x, w
      <4>2. CASE x = AM!Crash
        BY <4>1, <4>2 DEF Leaves, AM!WithLeft
      <4>3. CASE x # AM!Crash
        <5>1. KeyParts(AM!key(u), l \ {k}, r, a \ {k})
          BY <1>0, <2>0, <2>2, <3>1 DEF KeyParts
        <5>2. Shows(x, l \ {k})
          BY <4>1, <4>3 DEF Leaves
        <5> QED
          BY <2>2, <4>1, <5>1, <5>2, WithLeftShows DEF NodeShows, Leaves
      <4> QED
        BY <4>2, <4>3
    <3>2. CASE k > AM!key(u)
      <4> DEFINE x == f[AM!right(u)]
      <4>1. w = AM!WithRight(u, x) /\ Leaves(x, r \ {k})
        BY <1>0, <2>2, <2>3, <3>2
      <4> HIDE DEF x, w
      <4>2. CASE x = AM!Crash
        BY <4>1, <4>2 DEF Leaves, AM!WithRight
      <4>3. CASE x # AM!Crash
        <5>1. KeyParts(AM!key(u), l, r \ {k}, a \ {k})
          BY <1>0, <2>0, <2>2, <3>2 DEF KeyParts
        <5>2. Shows(x, r \ {k})
          BY <4>1, <4>3 DEF Leaves
        <5> QED
          BY <2>2, <4>1, <5>1, <5>2, WithRightShows DEF NodeShows, Leaves
      <4> QED
        BY <4>2, <4>3
    <3>3. CASE k = AM!key(u)
      <4>1. w = AM!DeleteHere(u)
        BY <1>0, <3>3
      <4>2. a \ {k} = l \cup r
        BY <1>0, <2>0, <2>2, <3>3 DEF KeyParts
      <4>3. (AM!left(u) = AM!Null => l = {}) /\ (AM!right(u) = AM!Null => r = {})
        BY <2>2, ShowsParts
      <4> HIDE DEF w
      <4>4. CASE AM!left(u) # AM!Null /\ AM!right(u) # AM!Null
        BY <4>1, <4>4 DEF AM!DeleteHere, Leaves
      <4>5. CASE AM!left(u) # AM!Null /\ AM!right(u) = AM!Null
        <5>1. w = AM!left(u) /\ a \ {k} = l
          BY <4>1, <4>2, <4>3, <4>5 DEF AM!DeleteHere
        <5> QED
          BY <2>2, <5>1 DEF Leaves
      <4>6. CASE AM!left(u) = AM!Null
        <5>1. w = AM!right(u) /\ a \ {k} = r
          BY <4>1, <4>2, <4>3, <4>6 DEF AM!DeleteHere
        <5> QED
          BY <2>2, <5>1 DEF Leaves
      <4> QED
        BY <4>4, <4>5, <4>6
    <3> QED
      BY <1>0, <2>2, <3>1, <3>2, <3>3
  <2> HIDE DEF w
  <2>6. CASE w \in {AM!Null, AM!Crash}
    BY <2>4, <2>5, <2>6
  <2>7. CASE w \notin {AM!Null, AM!Crash}
    <3>1. Shows(w, a \ {k})
      BY <2>5, <2>7 DEF Leaves
    <3>2. PICK b, c : NodeShows(w, b, c, a \ {k})
      BY <2>7, <3>1, NodeShowsOf
    <3>3. Leaves(AM!Rebalance(w, k), a \ {k})
      BY <3>2, RebalanceLeaves DEF NodeShows
    <3> QED
      BY <2>4, <2>7, <3>3
  <2> QED
    BY <2>6, <2>7
<1>4. AM!Tree = good
  <2>1. good \in SUBSET AM!Tree
    OBVIOUS
  <2> HIDE DEF good
  <2> QED
    BY <1>2, <1>3, <2>1, TreeInduction
<1> QED
  BY <1>1, <1>4

-----------------------------------------------------------------------------
\* A search tree of some of the keys has no more levels than there are keys.
LEMMA ShowsLevels == ASSUME NEW t, NEW s, Shows(t, s) PROVE t \in AM!Tree
<1> DEFINE good == {u \in AvlTrees : \A a : Shows(u, a) => u \in AM!TreeOf[Cardinality(a)]}
<1>0. ASSUME NEW a, a \subseteq AvlKey
      PROVE  IsFiniteSet(a) /\ Cardinality(a) \in Nat /\ Cardinality(a) <= Cardinality(AvlKey)
  BY <1>0, FiniteKeys, FS_Subset, FS_CardinalityType
<1>1. ASSUME NEW u \in AvlTrees, \A w \in AvlTrees : TreeRank[w] < TreeRank[u] => w \in good
      PROVE  u \in good
  <2> SUFFICES ASSUME NEW a, Shows(u, a) PROVE u \in AM!TreeOf[Cardinality(a)]
    OBVIOUS
  <2>1. CASE u = AM!Null
    <3>1. a = {} /\ Cardinality({}) = 0
      BY <2>1, ShowsParts, FS_EmptySet
    <3> QED
      BY <2>1, <3>1, TreeOfStep
  <2>2. CASE u # AM!Null
    <3>1. PICK l, r : NodeShows(u, l, r, a)
      BY <2>2, NodeShowsOf
    <3>2. /\ NodeOver(u, AvlTrees) /\ Shows(AM!left(u), l) /\ Shows(AM!right(u), r)
          /\ KeyParts(AM!key(u), l, r, a) /\ AM!key(u) \in Int
      BY <3>1, FiniteKeys DEF NodeShows, Sides, NodeOver
    <3>3. AM!left(u) \in AvlTrees /\ AM!right(u) \in AvlTrees
      BY <3>2 DEF NodeOver
    <3>4. TreeRank[AM!left(u)] < TreeRank[u] /\ TreeRank[AM!right(u)] < TreeRank[u]
      BY <2>2, TreeRankFalls
    <3>5. AM!left(u) \in AM!TreeOf[Cardinality(l)] /\ AM!right(u) \in AM!TreeOf[Cardinality(r)]
      BY <1>1, <3>2, <3>3, <3>4
    <3> HIDE DEF good
    <3>6. a \subseteq AvlKey /\ l \subseteq AvlKey /\ r \subseteq AvlKey
      BY <2>2, <3>2, ShowsTree
    <3> DEFINE b == a \ {AM!key(u)}
    <3>7. l \subseteq b /\ r \subseteq b /\ AM!key(u) \in a
      BY <3>2, <3>6, FiniteKeys DEF KeyParts
    <3>8. IsFiniteSet(a) /\ IsFiniteSet(b) /\ Cardinality(a) \in Nat /\ Cardinality(b) \in Nat
          /\ Cardinality(l) \in Nat /\ Cardinality(r) \in Nat
      BY <1>0, <3>6
    <3>9. Cardinality(b) = Cardinality(a) - 1
      BY <3>7, <3>8, FS_RemoveElement
    <3>10. Cardinality(l) <= Cardinality(b) /\ Cardinality(r) <= Cardinality(b)
      BY <3>7, <3>8, FS_Subset
    <3>11. AM!left(u) \in AM!TreeOf[Cardinality(b)] /\ AM!right(u) \in AM!TreeOf[Cardinality(b)]
      BY <3>5, <3>8, <3>10, LevelsRise
    <3>12. NodeOver(u, AM!TreeOf[Cardinality(b)])
      BY <3>2, <3>11 DEF NodeOver
    <3>13. Cardinality(a) = Cardinality(b) + 1
      BY <3>8, <3>9
    <3> HIDE DEF b
    <3> QED
      BY <3>8, <3>12, <3>13, TreeOfStep, StepMembers
  <2> QED
    BY <2>1, <2>2
<1>2. AvlTrees = good
  <2>1. TreeRank \in [AvlTrees -> Nat] /\ good \in SUBSET AvlTrees
    BY TreeRankFalls
  <2> HIDE DEF good
  <2> QED
    BY <1>1, <2>1, RankInduction
<1>3. t \in AM!TreeOf[Cardinality(s)]
  BY <1>2, ShowsTree
<1>4. Cardinality(s) \in Nat /\ Cardinality(AvlKey) \in Nat /\ Cardinality(s) <= Cardinality(AvlKey)
  BY <1>0, ShowsTree
<1>5. AM!TreeOf[Cardinality(s)] \subseteq AM!TreeOf[Cardinality(AvlKey)]
  BY <1>4, LevelsRise
<1>6. AM!Tree = AM!TreeOf[Cardinality(AvlKey)]
  BY FiniteKeys DEF AM!Tree
<1> QED
  BY <1>3, <1>5, <1>6

-----------------------------------------------------------------------------
AvlPairs == AvlKey \X AvlValue

InorderBody(u, f) ==
  IF u = AM!Null THEN << >>
  ELSE f[AM!left(u)] \o << <<AM!key(u), AM!value(u)>> >> \o f[AM!right(u)]

LEMMA InorderStep == \A u \in AM!Tree : AM!inorder[u] = InorderBody(u, AM!inorder)
<1> DEFINE s == AM!Tree
           step == [u \in s |-> [f \in [s -> Seq(AvlPairs)] |-> InorderBody(u, f)]]
           Fn(f) == [u \in s |-> InorderBody(u, f)]
<1>1. TreeStepFn(step, Seq(AvlPairs))
  <2>1. ASSUME NEW u \in s, NEW f \in [s -> Seq(AvlPairs)] PROVE InorderBody(u, f) \in Seq(AvlPairs)
    <3>1. CASE u = AM!Null
      BY <3>1 DEF InorderBody
    <3>2. CASE u # AM!Null
      <4>1. f[AM!left(u)] \in Seq(AvlPairs) /\ f[AM!right(u)] \in Seq(AvlPairs)
        BY <3>2, TreeNode
      <4>2. <<AM!key(u), AM!value(u)>> \in AvlPairs
        BY <3>2, TreeNode DEF NodeOver, AvlPairs
      <4> QED
        BY <3>2, <4>1, <4>2 DEF InorderBody
    <3> QED
      BY <3>1, <3>2
  <2>2. step \in [s -> [[s -> Seq(AvlPairs)] -> Seq(AvlPairs)]]
    BY <2>1
  <2>3. \A u \in s : \A f \in [s -> Seq(AvlPairs)] : step[u][f] = InorderBody(u, f)
    OBVIOUS
  <2> HIDE DEF step
  <2>4. ASSUME NEW u \in s, NEW f \in [s -> Seq(AvlPairs)], NEW g \in [s -> Seq(AvlPairs)],
               u # AM!Null => f[AM!left(u)] = g[AM!left(u)] /\ f[AM!right(u)] = g[AM!right(u)]
        PROVE  step[u][f] = step[u][g]
    <3>1. InorderBody(u, f) = InorderBody(u, g)
      BY <2>4, Zenon DEF InorderBody
    <3> QED
      BY <2>3, <3>1
  <2>5. Seq(AvlPairs) # {}
    <3>1. << >> \in Seq(AvlPairs)
      OBVIOUS
    <3> QED
      BY <3>1
  <2> QED
    BY <2>2, <2>4, <2>5 DEF TreeStepFn
<1> HIDE DEF step
<1>2. PICK f : Solution(f, step, s, Seq(AvlPairs))
  BY <1>1, TreeRecursion
<1>3. f \in [s -> Seq(AvlPairs)] /\ \A u \in s : f[u] = InorderBody(u, f)
  <2> USE DEF step
  <2> QED
    BY <1>2, Zenon DEF Solution
<1>4. f = Fn(f)
  <2>1. f = [u \in s |-> f[u]]
    BY <1>3
  <2>2. [u \in s |-> f[u]] = Fn(f)
    BY <1>3, Zenon
  <2> QED
    BY <2>1, <2>2
<1>5. AM!inorder = CHOOSE g : g = Fn(g)
  BY Zenon DEF AM!inorder, InorderBody
<1>6. AM!inorder = Fn(AM!inorder)
  <2> HIDE DEF Fn
  <2> QED
    BY <1>4, <1>5, Zenon
<1>7. \A u \in s : Fn(AM!inorder)[u] = InorderBody(u, AM!inorder)
  <2> HIDE <1>6
  <2> QED
    BY Zenon
<1> HIDE DEF Fn
<1> QED
  BY <1>6, <1>7

\* e lists the keys a once and ascending.
Lists(e, a) ==
  /\ e \in Seq(AvlPairs)
  /\ \A x \in a : \E i \in 1..Len(e) : e[i][1] = x
  /\ \A i \in 1..Len(e) : e[i][1] \in a
  /\ \A i, j \in 1..Len(e) : i < j => e[i][1] < e[j][1]

LEMMA ListsJoin ==
  ASSUME NEW e, NEW g, NEW l \in SUBSET Int, NEW r \in SUBSET Int, NEW s,
         NEW k \in AvlKey, NEW v \in AvlValue,
         Lists(e, l), Lists(g, r), KeyParts(k, l, r, s)
  PROVE  Lists(e \o << <<k, v>> >> \o g, s)
<1> DEFINE p == <<k, v>>
           h == e \o <<p>> \o g
           n == Len(e)
<1>1. e \in Seq(AvlPairs) /\ g \in Seq(AvlPairs) /\ p \in AvlPairs /\ p[1] = k
  BY DEF Lists, AvlPairs
<1> HIDE DEF p
<1>2. h \in Seq(AvlPairs) /\ Len(h) = n + 1 + Len(g) /\ n \in Nat /\ Len(g) \in Nat
  BY <1>1
<1>3. /\ \A i \in 1..n : h[i] = e[i]
      /\ h[n + 1] = p
      /\ \A i \in 1..Len(g) : h[n + 1 + i] = g[i]
  BY <1>1
<1> HIDE DEF h, n
<1>4. \A i \in 1..Len(h) : i \in 1..n \/ i = n + 1 \/ \E j \in 1..Len(g) : i = n + 1 + j
  <2> SUFFICES ASSUME NEW i \in 1..Len(h), i \notin 1..n, i # n + 1
               PROVE  \E j \in 1..Len(g) : i = n + 1 + j
    OBVIOUS
  <2>1. i - (n + 1) \in 1..Len(g) /\ i = n + 1 + (i - (n + 1))
    BY <1>2
  <2> QED
    BY <2>1
<1>5. /\ \A i \in 1..n : h[i][1] \in l
      /\ h[n + 1][1] = k
      /\ \A j \in 1..Len(g) : h[n + 1 + j][1] \in r
  BY <1>1, <1>3 DEF Lists, n
<1>6. k \in Int /\ (\A x \in l : x < k) /\ (\A x \in r : k < x) /\ s = l \cup {k} \cup r
  BY FiniteKeys DEF KeyParts
<1>7. \A x \in s : \E i \in 1..Len(h) : h[i][1] = x
  <2> SUFFICES ASSUME NEW x \in s PROVE \E i \in 1..Len(h) : h[i][1] = x
    OBVIOUS
  <2>1. CASE x \in l
    <3>1. PICK i \in 1..n : e[i][1] = x
      BY <2>1 DEF Lists, n
    <3>2. i \in 1..Len(h) /\ h[i][1] = x
      BY <1>2, <1>3, <3>1
    <3> QED
      BY <3>2
  <2>2. CASE x = k
    <3>1. n + 1 \in 1..Len(h)
      BY <1>2
    <3> QED
      BY <1>5, <2>2, <3>1
  <2>3. CASE x \in r
    <3>1. PICK i \in 1..Len(g) : g[i][1] = x
      BY <2>3 DEF Lists
    <3>2. n + 1 + i \in 1..Len(h) /\ h[n + 1 + i][1] = x
      BY <1>2, <1>3, <3>1
    <3> QED
      BY <3>2
  <2> QED
    BY <1>6, <2>1, <2>2, <2>3
<1>8. \A i \in 1..Len(h) : h[i][1] \in s
  BY <1>4, <1>5, <1>6
<1>9. ASSUME NEW i \in 1..Len(h), NEW j \in 1..Len(h), i < j PROVE h[i][1] < h[j][1]
  <2>1. CASE j \in 1..n
    <3>1. i \in 1..n
      BY <1>2, <1>9, <2>1
    <3> QED
      BY <1>3, <1>9, <2>1, <3>1 DEF Lists, n
  <2>2. CASE j = n + 1
    <3>1. i \in 1..n
      BY <1>2, <1>9, <2>2
    <3> QED
      BY <1>5, <1>6, <2>2, <3>1
  <2>3. CASE \E b \in 1..Len(g) : j = n + 1 + b
    <3>1. PICK b \in 1..Len(g) : j = n + 1 + b
      BY <2>3
    <3>2. h[j][1] \in r /\ h[j][1] \in Int /\ k < h[j][1]
      BY <1>5, <1>6, <3>1
    <3>3. CASE i \in 1..n
      <4>1. h[i][1] \in Int /\ h[i][1] < k
        BY <1>5, <1>6, <3>3
      <4> QED
        BY <1>6, <3>2, <4>1
    <3>4. CASE i = n + 1
      BY <1>5, <3>2, <3>4
    <3>5. CASE \E a \in 1..Len(g) : i = n + 1 + a
      <4>1. PICK a \in 1..Len(g) : i = n + 1 + a
        BY <3>5
      <4>2. a < b
        BY <1>2, <1>9, <3>1, <4>1
      <4>3. g[a][1] < g[b][1]
        BY <4>2 DEF Lists
      <4> QED
        BY <1>3, <3>1, <4>1, <4>3
    <3> QED
      BY <1>4, <3>3, <3>4, <3>5
  <2> QED
    BY <1>4, <2>1, <2>2, <2>3
<1>10. Lists(h, s)
  BY <1>2, <1>7, <1>8, <1>9 DEF Lists
<1> QED
  BY <1>10 DEF h, p

LEMMA InorderLists ==
  ASSUME NEW t \in AM!Tree, NEW s, Shows(t, s)
  PROVE  Lists(AM!inorder[t], s)
<1> DEFINE good == {u \in AM!Tree : \A a : Shows(u, a) => Lists(AM!inorder[u], a)}
<1>1. AM!Null \in good
  <2>1. AM!inorder[AM!Null] = << >>
    BY TreeLevels, InorderStep DEF InorderBody
  <2>2. Lists(<< >>, {})
    BY DEF Lists
  <2> QED
    BY <2>1, <2>2, TreeLevels, ShowsParts
<1>2. ASSUME NEW u \in AM!Tree, u # AM!Null, AM!left(u) \in good, AM!right(u) \in good
      PROVE  u \in good
  <2> SUFFICES ASSUME NEW a, Shows(u, a) PROVE Lists(AM!inorder[u], a)
    OBVIOUS
  <2>1. PICK l, r : NodeShows(u, l, r, a)
    BY <1>2, NodeShowsOf
  <2>2. /\ Shows(AM!left(u), l) /\ Shows(AM!right(u), r) /\ KeyParts(AM!key(u), l, r, a)
        /\ AM!key(u) \in AvlKey /\ AM!value(u) \in AvlValue
    BY <2>1 DEF NodeShows, Sides, NodeOver
  <2>3. Lists(AM!inorder[AM!left(u)], l) /\ Lists(AM!inorder[AM!right(u)], r)
    BY <1>2, <2>2
  <2> HIDE DEF good
  <2>4. l \in SUBSET Int /\ r \in SUBSET Int
    BY <2>2, ShowsTree, FiniteKeys
  <2>5. AM!inorder[u] = AM!inorder[AM!left(u)] \o << <<AM!key(u), AM!value(u)>> >>
                          \o AM!inorder[AM!right(u)]
    BY <1>2, InorderStep, Zenon DEF InorderBody
  <2> QED
    BY <2>2, <2>3, <2>4, <2>5, ListsJoin
<1>3. AM!Tree = good
  <2>1. good \in SUBSET AM!Tree
    OBVIOUS
  <2> HIDE DEF good
  <2> QED
    BY <1>1, <1>2, <2>1, TreeInduction
<1> QED
  BY <1>3

-----------------------------------------------------------------------------
\* The inductive invariant of AVLmap: the tree is a search tree of the keys
\* put and not removed, whatever its heights, until a call reads a null pointer.
AvlInv == ~avlCrashed => Shows(avlRoot, kept)

LEMMA AvlInit == AM!Init => AvlInv
BY ShowsNull DEF AM!Init, AvlInv

LEMMA AvlPut ==
  ASSUME AvlInv, ~avlCrashed, NEW k \in AvlKey, NEW v \in AvlValue, AM!put(k, v)
  PROVE  AvlInv'
<1> DEFINE t == AM!insert(avlRoot, k, v)
<1>1. Shows(avlRoot, kept) /\ avlRoot \in AM!Tree
  BY ShowsLevels DEF AvlInv
<1>2. Leaves(t, kept \cup {k})
  BY <1>1, InsertLeaves
<1>3. kept' = kept \cup {k}
  BY DEF AM!put
<1>4. IF t = AM!Crash THEN avlCrashed' = TRUE ELSE avlRoot' = t
  BY DEF AM!put, AM!Returns
<1> HIDE DEF t
<1> QED
  BY <1>2, <1>3, <1>4 DEF AvlInv, Leaves

LEMMA AvlRemove ==
  ASSUME AvlInv, ~avlCrashed, NEW k \in AvlKey, AM!remove(k)
  PROVE  AvlInv'
<1> DEFINE t == AM!deleteNode(avlRoot, k)
<1>1. Shows(avlRoot, kept) /\ avlRoot \in AM!Tree
  BY ShowsLevels DEF AvlInv
<1>2. Leaves(t, kept \ {k})
  BY <1>1, DeleteLeaves
<1>3. kept' = kept \ {k}
  BY DEF AM!remove
<1>4. IF t = AM!Crash THEN avlCrashed' = TRUE ELSE avlRoot' = t
  BY DEF AM!remove, AM!Returns
<1> HIDE DEF t
<1> QED
  BY <1>2, <1>3, <1>4 DEF AvlInv, Leaves

LEMMA AvlStep == AvlInv /\ AM!Next => AvlInv'
BY AvlPut, AvlRemove DEF AM!Next

LEMMA AvlInvSafe == AvlInv => AvlMapSafe
<1> SUFFICES ASSUME AvlInv, ~avlCrashed
             PROVE  LET e == AM!inorder[avlRoot] IN
                      /\ {e[i][1] : i \in DOMAIN e} = kept
                      /\ \A i \in 1..Len(e) - 1 : e[i][1] < e[i + 1][1]
  BY DEF AvlMapSafe, AM!Safe
<1> DEFINE e == AM!inorder[avlRoot]
<1>1. Lists(e, kept)
  BY ShowsLevels, InorderLists DEF AvlInv
<1> HIDE DEF e
<1>2. e \in Seq(AvlPairs) /\ DOMAIN e = 1..Len(e) /\ Len(e) \in Nat
  BY <1>1 DEF Lists
<1>3. {e[i][1] : i \in DOMAIN e} = kept
  BY <1>1, <1>2 DEF Lists
<1>4. ASSUME NEW i \in 1..Len(e) - 1 PROVE e[i][1] < e[i + 1][1]
  <2>1. i \in 1..Len(e) /\ i + 1 \in 1..Len(e) /\ i < i + 1
    BY <1>2
  <2> QED
    BY <1>1, <2>1 DEF Lists
<1> QED
  BY <1>3, <1>4 DEF e

\* Through rotations that work on heights that are out of date, inorder lists
\* every key that was put and not removed, once and ascending, until a call reads
\* a null pointer (AVLmap.h:78, 89, 155).
THEOREM AvlMapSafeAlways == Spec => []AvlMapSafe
<1>1. Init => AvlInv
  BY AvlInit DEF Init
<1>2. AvlInv /\ [Next]_vars => AvlInv'
  <2> SUFFICES ASSUME AvlInv, [Next]_vars PROVE AvlInv'
    OBVIOUS
  <2>1. CASE AM!Next
    BY <2>1, AvlStep
  <2>2. CASE UNCHANGED avl
    BY <2>2 DEF avl, AvlInv
  <2>3. AM!Next \/ UNCHANGED avl
    BY DEF Next, vars
  <2> QED
    BY <2>1, <2>2, <2>3
<1>3. AvlInv => AvlMapSafe
  BY AvlInvSafe
<1> QED
  BY <1>1, <1>2, <1>3, PTL DEF Spec
=============================================================================
