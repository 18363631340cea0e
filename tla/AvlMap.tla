------------------------------- MODULE AvlMap -------------------------------
(***************************************************************************)
(* AVLmap of basic/STL (AVLmap.h), "based on AVL".  The second test of      *)
(* insert is no else of the first: after a descent to the left it ends in   *)
(* the branch that stores the value, and returns before the height is       *)
(* updated and the node balanced.  getMinn returns null for every node, so  *)
(* removing a node with two children reads a null pointer, and so does a    *)
(* rotation about a child that is not there, which ends the process.        *)
(* Searching does not compile (search, searchNode) and is left out.         *)
(***************************************************************************)
EXTENDS Integers, Sequences, FiniteSets

CONSTANTS Key, Value

AvlMapAssumption == Key \subseteq Int /\ IsFiniteSet(Key)

VARIABLES
  root,     \* the tree: Null, or a node with its subtrees
  crashed,
  kept      \* history: the keys put and not removed since

vars == <<root, crashed, kept>>

Null == << >>
NewNode(k, v, h, l, r) == <<k, v, h, l, r>>
key(t) == t[1]
value(t) == t[2]
height(t) == t[3]
left(t) == t[4]
right(t) == t[5]

\* The trees with nodes on d levels at most; a tree of all keys needs no more
\* levels than there are keys.
TreeOf[d \in Nat] ==
  IF d = 0 THEN {Null}
  ELSE LET below == TreeOf[d - 1] IN {Null} \cup (Key \X Value \X Nat \X below \X below)
Tree == TreeOf[Cardinality(Key)]

\* The outcome of a call that reads a null pointer.
Crash == <<Null>>

getheight(t) == IF t = Null THEN 0 ELSE height(t)
getBalance(t) == getheight(left(t)) - getheight(right(t))
max(a, b) == IF a < b THEN b ELSE a
Above(l, r) == 1 + max(getheight(l), getheight(r))

WithLeft(t, l) ==
  IF l = Crash THEN Crash ELSE NewNode(key(t), value(t), height(t), l, right(t))
WithRight(t, r) ==
  IF r = Crash THEN Crash ELSE NewNode(key(t), value(t), height(t), left(t), r)
WithValue(t, v) == NewNode(key(t), v, height(t), left(t), right(t))
Measured(t) == NewNode(key(t), value(t), Above(left(t), right(t)), left(t), right(t))

rightRotate(y) == IF y = Crash \/ left(y) = Null THEN Crash ELSE
                    LET x == left(y) IN
                      Measured(WithRight(x, Measured(WithLeft(y, right(x)))))

\* Mutant of leftRotate: the subtree between the two nodes is dropped.
leftRotateDrops(x) == IF x = Crash \/ right(x) = Null THEN Crash ELSE
                        Measured(WithLeft(right(x), Measured(WithRight(x, Null))))

leftRotate(x) == IF x = Crash \/ right(x) = Null THEN Crash ELSE
                   LET y == right(x) IN
                     Measured(WithLeft(y, Measured(WithRight(x, left(y)))))

\* The end of insert and of deleteNode: the height, then one of four rotations
\* by the balance and by the side of the heavier child that k belongs to.
Rebalance(t, k) ==
  LET m == Measured(t)
      l == left(m)
      r == right(m)
      b == getBalance(m) IN
    CASE b > 1 /\ k < key(l)  -> rightRotate(m)
      [] b < -1 /\ k > key(r) -> leftRotate(m)
      [] b < -1 /\ k < key(r) -> leftRotate(WithRight(m, rightRotate(r)))
      [] b > 1 /\ k > key(l)  -> rightRotate(WithLeft(m, leftRotate(l)))
      [] OTHER                -> m

insert(t, k, v) ==
  LET Ins[u \in Tree] ==
        IF u = Null THEN NewNode(k, v, 1, Null, Null)
        ELSE IF k > key(u)
             THEN LET r == Ins[right(u)] IN
                    IF r = Crash THEN Crash ELSE Rebalance(WithRight(u, r), k)
             ELSE LET l == IF k < key(u) THEN Ins[left(u)] ELSE left(u) IN
                    IF l = Crash THEN Crash ELSE WithValue(WithLeft(u, l), v) IN
    Ins[t]

\* The node itself: replaced by its only child, or crashed on its two children.
DeleteHere(t) == IF left(t) # Null /\ right(t) # Null THEN Crash
                 ELSE IF left(t) # Null THEN left(t) ELSE right(t)

deleteNode(t, k) ==
  LET Del[u \in Tree] ==
        IF u = Null THEN Null
        ELSE LET w == IF k < key(u) THEN WithLeft(u, Del[left(u)])
                      ELSE IF k > key(u) THEN WithRight(u, Del[right(u)])
                      ELSE DeleteHere(u) IN
               IF w \in {Null, Crash} THEN w ELSE Rebalance(w, k) IN
    Del[t]

-----------------------------------------------------------------------------
Init == root = Null /\ crashed = FALSE /\ kept = {}

Returns(t) == IF t = Crash THEN crashed' = TRUE /\ UNCHANGED root
              ELSE root' = t /\ UNCHANGED crashed

put(k, v) == Returns(insert(root, k, v)) /\ kept' = kept \cup {k}
remove(k) == Returns(deleteNode(root, k)) /\ kept' = kept \ {k}

Next == /\ ~crashed
        /\ \/ \E k \in Key, v \in Value : put(k, v)
           \/ \E k \in Key : remove(k)

Spec == Init /\ [][Next]_vars

-----------------------------------------------------------------------------
inorder[t \in Tree] ==
  IF t = Null THEN << >>
  ELSE inorder[left(t)] \o <<<<key(t), value(t)>>>> \o inorder[right(t)]

\* Through rotations that work on heights that are out of date, inorder lists
\* every key that was put and not removed, once and ascending, until a call
\* reads a null pointer (AVLmap.h:78, 89, 155).
Safe == ~crashed => LET a == inorder[root] IN
                      /\ {a[i][1] : i \in DOMAIN a} = kept
                      /\ \A i \in 1..Len(a) - 1 : a[i][1] < a[i + 1][1]
=============================================================================
