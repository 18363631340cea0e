SPECIFICATION Spec
CONSTANTS
  \* A ring of two slots that grows to eight, and five elements at most.
  Value = {a, b}
  Junk = junk
  InitialCapacity = 2
  MaxCount = 5
  \* Four nodes, so that an element can have neighbours on both sides; with three
  \* keys, so that keys are equal and nodes have two children of which one has one.
  Node = {n1, n2, n3, n4}
  head = head
  tail = tail
  null = null
  Key = {1, 2, 3}
  OrderedKey = {1, 2, 3}
  hash_func_ <- Hash
  MaxLoad = 3
  \* Six keys: enough for both double rotations and for a removal that unbalances
  \* a node above its parent.
  AvlKey = {1, 2, 3, 4, 5, 6}
  AvlValue = {0}
  \* Two variables and three objects: chains and cycles of three.
  Variable = {p, q}
  Object = {o1, o2, o3}
INVARIANTS
  DequeSafe
  ListSafe
  HashMapSafe
  BinaryTreeMapSafe
  AvlMapSafe
  SharedPtrSafe
PROPERTIES
  DequeIsContainer
  ListIsContainer
CHECK_DEADLOCK FALSE
