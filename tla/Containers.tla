------------------------------ MODULE Containers ------------------------------
(***************************************************************************)
(* The containers of basic/STL and the shared pointer of basic/type_ptr,    *)
(* which nothing connects: one of them is chosen at the start, and used for *)
(* all that follows.                                                        *)
(***************************************************************************)
EXTENDS Naturals, Sequences

CONSTANTS
  Value, Junk, InitialCapacity, MaxCount,   \* Deque and HashMap
  Node, head, tail, null,                   \* List and BinaryTreeMap
  Key, hash_func_(_), MaxLoad,              \* HashMap
  OrderedKey,                               \* BinaryTreeMap
  AvlKey, AvlValue,                         \* AvlMap
  Variable, Object                          \* SharedPtr

VARIABLES
  used,                                           \* the one that is used
  buffer, capacity, count, front_idx, back_idx,   \* Deque
  next, prev, listLive, it,                       \* List
  bucket_, element_count_, hashCrashed,           \* HashMap
  scope, alive, ptr, ref_count, freedRead,        \* SharedPtr
  root, key, left, right, parent, live, crashed,  \* BinaryTreeMap
  avlRoot, avlCrashed, kept                       \* AvlMap

deque == <<buffer, capacity, count, front_idx, back_idx>>
list == <<next, prev, listLive, it>>
hash == <<bucket_, element_count_, hashCrashed>>
shared == <<scope, alive, ptr, ref_count, freedRead>>
tree == <<root, key, left, right, parent, live, crashed>>
avl == <<avlRoot, avlCrashed, kept>>
vars == <<used, deque, list, hash, shared, tree, avl>>

D == INSTANCE Deque
L == INSTANCE List WITH live <- listLive
H == INSTANCE HashMap WITH crashed <- hashCrashed
P == INSTANCE SharedPtr WITH Null <- null
M == INSTANCE BinaryTreeMap WITH Key <- OrderedKey
AM == INSTANCE AvlMap WITH Key <- AvlKey, Value <- AvlValue,
                           root <- avlRoot, crashed <- avlCrashed

ASSUME ContainersAssumption == /\ D!DequeAssumption /\ L!ListAssumption
                               /\ H!HashMapAssumption /\ P!SharedPtrAssumption
                               /\ M!BinaryTreeMapAssumption /\ AM!AvlMapAssumption

Init == /\ used \in {"deque", "list", "hash", "shared", "tree", "avl"}
        /\ D!Init /\ L!Init /\ H!Init /\ P!Init /\ M!Init /\ AM!Init

Next == /\ \/ used = "deque" /\ D!Next /\ UNCHANGED <<list, hash, shared, tree, avl>>
           \/ used = "list" /\ L!Next /\ UNCHANGED <<deque, hash, shared, tree, avl>>
           \/ used = "hash" /\ H!Next /\ UNCHANGED <<deque, list, shared, tree, avl>>
           \/ used = "shared" /\ P!Next /\ UNCHANGED <<deque, list, hash, tree, avl>>
           \/ used = "tree" /\ M!Next /\ UNCHANGED <<deque, list, hash, shared, avl>>
           \/ used = "avl" /\ AM!Next /\ UNCHANGED <<deque, list, hash, shared, tree>>
        /\ UNCHANGED used

Spec == Init /\ [][Next]_vars

-----------------------------------------------------------------------------
\* The ring of the deque: its indices agree and its ends are what iteration reads.
DequeSafe == D!DequeSafe

\* The ring is the sequence its pushes and pops make it, through every resize.
DequeIsContainer == D!DequeIsContainer

\* The links of the list are a chain both ways of the nodes that are allocated.
ListSafe == L!ListSafe

\* The chain is the sequence its inserts and erases make it.
ListIsContainer == L!ListIsContainer

\* Nodes in the bucket of their key, a count that counts, a key twice at most.
HashMapSafe == H!HashMapSafe

\* The count of an object is the number of pointers to it.
SharedPtrSafe == P!SharedPtrSafe

\* The tree is ordered and linked both ways, and iteration meets each node once.
BinaryTreeMapSafe == M!Safe

\* inorder lists what was put and not removed, ascending.
AvlMapSafe == AM!Safe
=============================================================================
