---------------------------- MODULE BinaryTreeMap ----------------------------
(***************************************************************************)
(* mymap of basic/STL (mymap.h): a binary search tree of nodes with links   *)
(* to their children and to their parent, which its iterators climb.        *)
(* Equal keys go to the right.  What erase puts in the place of the node it *)
(* deletes is always null, so it cuts off what hangs below that node.       *)
(***************************************************************************)
EXTENDS FiniteSetsExt, Naturals

CONSTANTS
  Node,   \* nodes that can be allocated
  Key,
  null

BinaryTreeMapAssumption == /\ Key \subseteq Nat
                           /\ null \notin Node

VARIABLES
  root,
  key, left, right, parent,  \* fields of the nodes
  live,     \* nodes allocated and not deleted
  crashed   \* something that is no node was used as one

vars == <<root, key, left, right, parent, live, crashed>>

Nil == [n \in Node |-> null]

Init == /\ root = null
        /\ key \in [Node -> {Min(Key)}]
        /\ left = Nil /\ right = Nil /\ parent = Nil
        /\ live = {}
        /\ crashed = FALSE

Pointer == Node \cup {null}

\* The node below which helper1 puts a key.
helper1(k) ==
  LET child(n) == IF k < key[n] THEN left[n] ELSE right[n]
      Last[n \in Node] == IF child(n) = null THEN n ELSE Last[child(n)] IN
    Last[root]

insert(n, k) ==
  /\ n \notin live
  /\ live' = live \cup {n}
  /\ key' = [key EXCEPT ![n] = k]
  /\ IF root = null
     THEN /\ root' = n
          /\ parent' = [parent EXCEPT ![n] = null]
          /\ left' = [left EXCEPT ![n] = null]
          /\ right' = [right EXCEPT ![n] = null]
     ELSE LET p == helper1(k) IN
            /\ parent' = [parent EXCEPT ![n] = p]
            /\ left' = [left EXCEPT ![n] = null, ![p] = IF k < key[p] THEN n ELSE @]
            /\ right' = [right EXCEPT ![n] = null, ![p] = IF k < key[p] THEN @ ELSE n]
            /\ UNCHANGED root
  /\ UNCHANGED crashed

minn[n \in Node] == IF left[n] = null THEN n ELSE minn[left[n]]

\* The node find meets first; null stands for the value it fails to return.
find(k) ==
  LET Search[n \in Pointer] == IF n = null THEN null
                               ELSE IF k < key[n] THEN Search[left[n]]
                               ELSE IF k > key[n] THEN Search[right[n]]
                               ELSE n IN
    Search[root]

\* Mutant of Victim: the least node below the left child.
VictimLeft(n) == IF left[n] # null /\ right[n] # null THEN minn[left[n]] ELSE n

\* The node erase deletes: the successor, when two children hang below the node.
Victim(n) == IF left[n] # null /\ right[n] # null THEN minn[right[n]] ELSE n

\* chile: the left child of a node with a right one, or else the right one.
chile(n) == IF right[n] # null THEN left[n] ELSE right[n]

\* The fields of the node it deletes are gone.
erase(k) ==
  LET node == find(k)
      su == Victim(node)
      p == parent[su]
      Relink(link, side) == [link EXCEPT ![su] = null, ![p] = IF side THEN chile(su) ELSE @] IN
    /\ node # null
    /\ key' = [key EXCEPT ![node] = key[su], ![su] = Min(Key)]
    /\ root' = IF p = null THEN chile(su) ELSE root
    /\ left' = Relink(left, p # null /\ left[p] = su)
    /\ right' = Relink(right, p # null /\ left[p] # su)
    /\ parent' = [parent EXCEPT ![su] = null]
    /\ live' = live \ {su}
    /\ UNCHANGED crashed

\* find of a key that is not there ends without a return: erase gets a null
\* pointer, and returns, or whatever the register held, and uses it.
eraseMissing(k) == /\ find(k) = null
                   /\ crashed' \in BOOLEAN
                   /\ UNCHANGED <<root, key, left, right, parent, live>>

Below[n \in Pointer] ==
  IF n = null THEN {} ELSE {n} \cup Below[left[n]] \cup Below[right[n]]

Tree == Below[root]

clear == LET Gone(f, v) == [n \in Node |-> IF n \in Tree THEN v ELSE f[n]] IN
           /\ live' = live \ Tree
           /\ root' = null
           /\ key' = Gone(key, Min(Key))
           /\ left' = Gone(left, null) /\ right' = Gone(right, null)
           /\ parent' = Gone(parent, null)
           /\ UNCHANGED crashed

\* begin() takes the least node of the tree, and reads a null root.
beginEmpty == /\ root = null
              /\ crashed' = TRUE
              /\ UNCHANGED <<root, key, left, right, parent, live>>

Next == /\ ~crashed
        /\ \/ \E n \in Node, k \in Key : insert(n, k)
           \/ \E k \in Key : erase(k) \/ eraseMissing(k)
           \/ clear
           \/ beginEmpty

Spec == Init /\ [][Next]_vars

-----------------------------------------------------------------------------
\* An iterator climbs while it comes from the right.
Climb[n \in Node] ==
  IF parent[n] # null /\ n = right[parent[n]] THEN Climb[parent[n]] ELSE parent[n]

successor(n) == IF right[n] # null THEN minn[right[n]] ELSE Climb[n]

\* What operator++ makes of an iterator.
advance(n) == IF n # null THEN successor(n) ELSE null

\* The iterator k steps after begin().
Visit[k \in Nat] == IF k = 0 THEN minn[root] ELSE advance(Visit[k - 1])

\* However nodes are inserted, erased and moved up, what hangs below the root is
\* a tree of nodes that were not deleted, whose parent links are right; a loop
\* from begin() to end() meets each of them once, keys ascending; and find finds
\* the key of each (mymap.h:119, 150, 185).  What erase cuts off is leaked: no
\* link of the tree leads to a node that was deleted.
Safe ==
  LET size == Cardinality(Tree) IN
    /\ Tree \subseteq live
    /\ \A n \in Tree : /\ left[n] # null => parent[left[n]] = n
                       /\ right[n] # null => parent[right[n]] = n
                       /\ find(key[n]) # null
    /\ root # null => /\ parent[root] = null
                      /\ {Visit[k] : k \in 0..size - 1} = Tree /\ Visit[size] = null
                      /\ \A k \in 1..size - 1 : key[Visit[k - 1]] <= key[Visit[k]]
=============================================================================
