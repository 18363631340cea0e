------------------------------- MODULE HashMap -------------------------------
(***************************************************************************)
(* The hash map of basic/STL (hashmap.h): a vector of chains of nodes, and  *)
(* a rehash to twice the buckets when the load passes max_load_factor_.     *)
(* insert walks a chain while a node has a next one, so the last node of a  *)
(* chain is never compared; erase dereferences what it walks over, so it    *)
(* reads a null pointer, which ends the process, on an empty bucket and     *)
(* after it has removed the last node of a chain.                           *)
(***************************************************************************)
EXTENDS SequencesExt, Naturals

CONSTANTS
  Key, Value,
  hash_func_(_),    \* hash of a key
  InitialCapacity,  \* argument of the constructor, 16 by default
  MaxLoad,          \* max_load_factor_ in quarters: 3 by default
  MaxCount          \* bound: nodes in the map

HashMapAssumption == /\ InitialCapacity \in Nat \ {0}
                     /\ MaxLoad \in Nat /\ MaxCount \in Nat
                     /\ \A k \in Key : hash_func_(k) \in Nat

VARIABLES
  bucket_,         \* chain of each bucket, from its head
  element_count_,
  crashed          \* a null pointer has been read

vars == <<bucket_, element_count_, crashed>>

bucket_count_ == Cardinality(DOMAIN bucket_)
location(k) == hash_func_(k) % bucket_count_
Empty(n) == [i \in 0..n - 1 |-> << >>]

Init == /\ bucket_ = Empty(InitialCapacity)
        /\ element_count_ = 0
        /\ crashed = FALSE

\* Positions of a chain that hold a key.
At(chain, k) == {i \in 1..Len(chain) : chain[i].key = k}

\* The nodes of a chain at some positions, in its order.
Kept(chain, is) == FlattenSeq([i \in 1..Len(chain) |->
                                 IF i \in is THEN <<chain[i]>> ELSE << >>])

-----------------------------------------------------------------------------
\* Mutant of rehash: the nodes keep their bucket number.
rehashInPlace(table) ==
  [l \in 0..2 * Cardinality(DOMAIN table) - 1 |-> IF l \in DOMAIN table THEN table[l] ELSE << >>]

\* rehash: bucket by bucket and from the head of each chain, every node is put
\* at the head of its new chain.
rehash(table) ==
  LET n == 2 * Cardinality(DOMAIN table)
      old == FlattenSeq([i \in 1..Cardinality(DOMAIN table) |-> table[i - 1]]) IN
    [l \in 0..n - 1 |-> Reverse(Kept(old, {i \in 1..Len(old) : hash_func_(old[i].key) % n = l}))]

\* The node insert finds: all but the last of the chain are compared.
Found(chain, k) == At(Front(chain), k)

insert(k, val) ==
  LET chain == bucket_[location(k)]
      found == IF chain = << >> THEN {} ELSE Found(chain, k)
      table == [bucket_ EXCEPT ![location(k)] = Append(@, [key |-> k, val |-> val])] IN
    IF found # {}
    THEN /\ bucket_' = [bucket_ EXCEPT ![location(k)][Min(found)].val = val]
         /\ UNCHANGED <<element_count_, crashed>>
    ELSE /\ element_count_ < MaxCount
         /\ element_count_' = element_count_ + 1
         /\ bucket_' = IF 4 * element_count_' > MaxLoad * bucket_count_
                       THEN rehash(table) ELSE table
         /\ UNCHANGED crashed

\* Positions erase removes: the head alone when it has the key, or else every
\* node after the head that is not the next of one just removed.
Removed(chain, k) ==
  LET R[i \in 0..Len(chain)] == i > 1 /\ chain[i].key = k /\ ~R[i - 1] IN
    IF chain[1].key = k THEN {1} ELSE {i \in 2..Len(chain) : R[i]}

\* The walk goes on from what follows a removed node: null, when that was last.
erase(k) ==
  LET chain == bucket_[location(k)] IN
    IF chain = << >>
    THEN crashed' = TRUE /\ UNCHANGED <<bucket_, element_count_>>
    ELSE LET is == Removed(chain, k) IN
           /\ bucket_' = [bucket_ EXCEPT ![location(k)] = Kept(chain, (1..Len(chain)) \ is)]
           /\ element_count_' = element_count_ - Cardinality(is)
           /\ crashed' = (Len(chain) \in is \ {1})

clear == /\ bucket_' = Empty(bucket_count_)
         /\ element_count_' = 0
         /\ UNCHANGED crashed

Next == /\ ~crashed
        /\ \/ \E k \in Key, v \in Value : insert(k, v)
           \/ \E k \in Key : erase(k)
           \/ clear

Spec == Init /\ [][Next]_vars

-----------------------------------------------------------------------------
\* An iterator is a bucket and a position in its chain, 0 for a null curr.
NonEmptyFrom(i) == {j \in i..bucket_count_ - 1 : bucket_[j] # << >>}
FirstFrom(i) == IF NonEmptyFrom(i) = {} THEN <<bucket_count_, 0>> ELSE <<Min(NonEmptyFrom(i)), 1>>

begin == FirstFrom(0)
end == <<bucket_count_, 0>>

advance(p) == IF p # end /\ p[2] < Len(bucket_[p[1]])
              THEN <<p[1], p[2] + 1>> ELSE FirstFrom(p[1] + 1)

\* The iterator after k increments of begin().
Visit[k \in Nat] == IF k = 0 THEN begin ELSE advance(Visit[k - 1])

\* Bucket and position of every node.
Places == UNION {{l} \X DOMAIN bucket_[l] : l \in DOMAIN bucket_}

\* Every node hangs in the bucket of its key; element_count_ counts the nodes;
\* although insert may add a key that is there, no key is ever there more than
\* twice; and a loop from begin() to end() visits each node once
\* (hashmap.h:47, 190, 219).
HashMapSafe ==
  ~crashed =>
    /\ \A l \in DOMAIN bucket_ : \A i \in DOMAIN bucket_[l] :
         location(bucket_[l][i].key) = l
    /\ element_count_ = Cardinality(Places)
    /\ \A k \in Key : Cardinality(At(bucket_[location(k)], k)) <= 2
    /\ {Visit[k] : k \in 0..element_count_ - 1} = Places
    /\ Visit[element_count_] = end
=============================================================================
