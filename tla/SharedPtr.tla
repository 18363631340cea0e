----------------------------- MODULE SharedPtr -----------------------------
(***************************************************************************)
(* The shared pointer of basic/type_ptr (simpleSharedPtr.h), managing       *)
(* objects that hold such a pointer themselves, as the nodes of a list do.  *)
(* A pointer is a variable of the program or the member of an object, and   *)
(* then has the name of its object.                                         *)
(*                                                                          *)
(* Deleting an object destroys its member, which may delete the next.  An   *)
(* assignment releases what its target holds before it reads its source: a  *)
(* source that is a member of an object deleted by that is read after it    *)
(* was freed.                                                               *)
(***************************************************************************)
EXTENDS FiniteSets, Integers

CONSTANTS
  Variable,  \* pointers of the program
  Object,    \* objects it may create
  Null

SharedPtrAssumption == /\ Variable \cap Object = {} /\ Null \notin Object
                       /\ IsFiniteSet(Object)

VARIABLES
  scope,      \* variables that are constructed
  alive,      \* objects created and not deleted
  ptr,        \* ptr[h]: what pointer h points to
  ref_count,  \* ref_count[o]: in the ControlBlock of o
  freedRead   \* a pointer was used after it was freed

vars == <<scope, alive, ptr, ref_count, freedRead>>

Pointer == Variable \cup Object
Live == scope \cup alive
Holders(o) == {h \in Live : ptr[h] = o}

Init == /\ scope = {} /\ alive = {}
        /\ ptr = [h \in Pointer |-> Null]
        /\ ref_count = [o \in Object |-> 0]
        /\ freedRead = FALSE

-----------------------------------------------------------------------------
\* What a step from pointer to pointer reaches, from the variables.
Reached == LET R[n \in Nat] == IF n = 0 THEN scope
                               ELSE R[n - 1] \cup ({ptr[h] : h \in R[n - 1]} \ {Null})
           IN R[Cardinality(Object)]

\* The objects that have one owner left, and that is one of some pointers.
OnlyOwned(from) == {o \in alive : ref_count[o] = 1 /\ \E g \in from : ptr[g] = o}

\* The objects release deletes for pointer h: the one it points to if it has no
\* other owner, the one that points to if that has no other owner, and so on.
Deleted(h) == LET D[n \in Nat] == IF n = 0 THEN OnlyOwned({h})
                                  ELSE D[n - 1] \cup OnlyOwned(D[n - 1])
              IN D[Cardinality(Object)]

\* Mutant of Released: the destructor of the object does not destroy its member.
ReleasedAlone(h) == [o \in Object |-> ref_count[o] - IF ptr[h] = o THEN 1 ELSE 0]

\* The counts after release of pointer h.
Released(h) == [o \in Object |-> ref_count[o] -
                  Cardinality({g \in {h} \cup Deleted(h) : ptr[g] = o})]

Incremented(count, o) == IF o = Null THEN count ELSE [count EXCEPT ![o] = @ + 1]

\* simpleSharedPtr(T *): a new object, its member pointing to nothing.
Construct(h, o) == /\ h \in Variable \ scope /\ o \in Object \ alive
                   /\ scope' = scope \cup {h}
                   /\ alive' = alive \cup {o}
                   /\ ptr' = [ptr EXCEPT ![h] = o, ![o] = Null]
                   /\ ref_count' = [ref_count EXCEPT ![o] = 1]
                   /\ UNCHANGED freedRead

ConstructCopy(h, a) == /\ h \in Variable \ scope /\ a \in Reached
                       /\ scope' = scope \cup {h}
                       /\ ptr' = [ptr EXCEPT ![h] = ptr[a]]
                       /\ ref_count' = Incremented(ref_count, ptr[a])
                       /\ UNCHANGED <<alive, freedRead>>

ConstructMove(h, other) == /\ h \in Variable \ scope /\ other \in Reached
                           /\ scope' = scope \cup {h}
                           /\ ptr' = [ptr EXCEPT ![h] = ptr[other], ![other] = Null]
                           /\ UNCHANGED <<alive, ref_count, freedRead>>

Destroy(h) == /\ h \in scope
              /\ scope' = scope \ {h}
              /\ alive' = alive \ Deleted(h)
              /\ ref_count' = Released(h)
              /\ ptr' = [ptr EXCEPT ![h] = Null]
              /\ UNCHANGED freedRead

\* operator=, copying and moving: release, and then the source is read.
AssignCopy(h, a) ==
  /\ h \in Reached /\ a \in Reached \ {h}
  /\ alive' = alive \ Deleted(h)
  /\ freedRead' = (a \in Deleted(h))
  /\ ptr' = [ptr EXCEPT ![h] = ptr[a]]
  /\ ref_count' = Incremented(Released(h), ptr[a])
  /\ UNCHANGED scope

AssignMove(h, other) ==
  /\ h \in Reached /\ other \in Reached \ {h}
  /\ alive' = alive \ Deleted(h)
  /\ freedRead' = (other \in Deleted(h))
  /\ ptr' = [ptr EXCEPT ![h] = ptr[other], ![other] = Null]
  /\ ref_count' = Released(h)
  /\ UNCHANGED scope

\* reset() and reset(new T).
Reset(h) == /\ h \in Reached
            /\ alive' = alive \ Deleted(h)
            /\ ref_count' = Released(h)
            /\ ptr' = [ptr EXCEPT ![h] = Null]
            /\ UNCHANGED <<scope, freedRead>>

ResetTo(h, o) == /\ h \in Reached /\ o \in Object \ alive
                 /\ alive' = (alive \ Deleted(h)) \cup {o}
                 /\ ref_count' = [Released(h) EXCEPT ![o] = 1]
                 /\ ptr' = [ptr EXCEPT ![h] = o, ![o] = Null]
                 /\ UNCHANGED <<scope, freedRead>>

Next == /\ ~freedRead
        /\ \E h \in Pointer :
             \/ \E o \in Object : Construct(h, o) \/ ResetTo(h, o)
             \/ \E a \in Pointer : \/ ConstructCopy(h, a) \/ ConstructMove(h, a)
                                   \/ AssignCopy(h, a) \/ AssignMove(h, a)
             \/ Destroy(h) \/ Reset(h)

Spec == Init /\ [][Next]_vars

-----------------------------------------------------------------------------
\* Until a freed pointer is read, in every order of copies, moves, assignments,
\* resets and destructions: the count of an object is the number of pointers to
\* it, so it is deleted with the last, never while one is left, and once, unless
\* it hangs on a cycle (simpleSharedPtr.h:19, 48, 59, 65).
SharedPtrSafe ==
  ~freedRead =>
    /\ \A o \in alive : ref_count[o] = Cardinality(Holders(o)) /\ ref_count[o] > 0
    /\ \A h \in Live : ptr[h] \in alive \cup {Null}
=============================================================================
