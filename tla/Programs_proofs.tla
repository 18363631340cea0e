------------------------- MODULE Programs_proofs -------------------------
(***************************************************************************)
(* Proofs about TaskManager, LogFormat, Logger, Perceptron and NeuralNet.   *)
(*                                                                          *)
(* TaskManager, for every content of tasks and any number of them: ids stay *)
(* unique and ascending in memory and in the file, and what the file holds  *)
(* is the tasks or the part of them a save has written.  The invariant is   *)
(* TaskManagerSafe with the types, and with the prefix as the equality of   *)
(* the lines there are.  A save only ever copies an ascending list, so the  *)
(* file is ascending wherever it is cut; the id past the greatest is then   *)
(* the one past the last line.                                              *)
(*                                                                          *)
(* LogFormat, for every format and number of arguments: the invariant of    *)
(* the loop of formatMessage says that what is written is the format as far *)
(* as it was scanned, with its placeholders filled by the arguments taken.  *)
(*                                                                          *)
(* Logger, for every set of threads and number of lines: that the closed    *)
(* file is complete needs a chain of facts.  The file is closed after the   *)
(* join, the join returns after the worker has exited, and the worker exits *)
(* with an empty queue that nobody pushes to any more, because the flag it  *)
(* has seen was set by the destructor.                                      *)
(*                                                                          *)
(* Perceptron, for every layer, bias and number of corrections: the sum the *)
(* library takes over a set does not depend on the order, so a correction   *)
(* of the cells of a sample changes the square of the weights by twice the  *)
(* score of the sample and its area, and a sample is only corrected when    *)
(* its score is on the wrong side of the bias.                              *)
(*                                                                          *)
(* NeuralNet, for every architecture, training data and activation that     *)
(* gives integers: that the recursive functions of the model exist and have *)
(* the types of the layers; that going down a layer, as back_prop does, and *)
(* going up one, as the chain rule does, differ by the factor 2; and so     *)
(* that what back_prop leaves is the gradient doubled on the way down.      *)
(***************************************************************************)
EXTENDS Programs, FiniteSetTheorems, SequenceTheorems, WellFoundedInduction, TLAPS

Task == [id : Nat, content : Content]

Prefix(s, t) == Len(s) <= Len(t) /\ \A i \in 1..Len(s) : s[i] = t[i]

TInv == /\ tasks \in Seq(Task) /\ file \in Seq(Task) /\ nextId \in Nat
        /\ T!Ascending(tasks) /\ T!Ascending(file)
        /\ \A i \in DOMAIN tasks : tasks[i].id < nextId
        /\ pc = "idle" => stale \/ file = tasks
        /\ pc = "saving" => ~stale /\ Prefix(file, tasks)

-----------------------------------------------------------------------------
(* Lists of tasks. *)

\* The prefix of the library, line by line.
LEMMA PrefixIs ==
  ASSUME NEW s \in Seq(Task), NEW t \in Seq(Task), Prefix(s, t)
  PROVE  T!IsPrefix(s, t)
<1> DEFINE n == Len(s)
           u == SubSeq(t, 1, n)
<1>1. n \in Nat /\ n <= Len(t) /\ Len(t) \in Nat /\ \A i \in 1..n : s[i] = t[i]
  BY DEF Prefix
<1>2. SubSeq(s, 1, n) = s
  BY SubSeqFull
<1>3. u \in Seq(Task) /\ Len(u) = n /\ \A i \in 1..n : u[i] = t[i]
  BY <1>1
<1> HIDE DEF u
<1>4. s = u
  BY <1>1, <1>3
<1> QED
  BY <1>1, <1>2, <1>4 DEF T!IsPrefix, u

\* A list that is written from the beginning.
LEMMA PrefixEmpty ==
  ASSUME NEW t \in Seq(Task)
  PROVE  /\ Prefix(<< >>, t) /\ << >> \in Seq(Task) /\ T!Ascending(<< >>)
BY DEF Prefix, T!Ascending

LEMMA PrefixGrows ==
  ASSUME NEW s \in Seq(Task), NEW t \in Seq(Task), Prefix(s, t), Len(s) < Len(t), T!Ascending(t)
  PROVE  LET r == Append(s, t[Len(s) + 1]) IN
         r \in Seq(Task) /\ Prefix(r, t) /\ T!Ascending(r)
<1> DEFINE n == Len(s)
           x == t[n + 1]
           r == Append(s, x)
<1>1. n \in Nat /\ Len(t) \in Nat /\ n + 1 \in 1..Len(t) /\ \A i \in 1..n : s[i] = t[i]
  BY DEF Prefix
<1>2. x \in Task
  BY <1>1
<1> HIDE DEF x
<1>3. r \in Seq(Task) /\ Len(r) = n + 1 /\ r[n + 1] = x /\ \A i \in 1..n : r[i] = s[i]
  BY <1>2
<1> HIDE DEF r, n
<1>4. ASSUME NEW i \in 1..(n + 1) PROVE r[i] = t[i] /\ i \in 1..Len(t)
  <2>1. i = n + 1 \/ i \in 1..n
    BY <1>1
  <2> QED
    BY <1>1, <1>3, <2>1 DEF x
<1>5. DOMAIN r = 1..(n + 1) /\ DOMAIN t = 1..Len(t)
  BY <1>3
<1>6. T!Ascending(r)
  <2> SUFFICES ASSUME NEW i \in 1..(n + 1), NEW j \in 1..(n + 1), i < j
               PROVE  r[i].id < r[j].id
    BY <1>5 DEF T!Ascending
  <2>1. t[i].id < t[j].id
    BY <1>4, <1>5 DEF T!Ascending
  <2> QED
    BY <1>4, <2>1
<1>7. Prefix(r, t)
  BY <1>1, <1>3, <1>4 DEF Prefix
<1> QED
  BY <1>3, <1>6, <1>7 DEF r, x, n

\* A list that has been written is all of it.
LEMMA PrefixWhole ==
  ASSUME NEW s \in Seq(Task), NEW t \in Seq(Task), Prefix(s, t), Len(s) = Len(t)
  PROVE  s = t
BY SeqEqual DEF Prefix

\* The greatest id of an ascending list is the last.
LEMMA LastIsGreatest ==
  ASSUME NEW s \in Seq(Task), T!Ascending(s)
  PROVE  T!AfterLoaded(s) \in Nat /\ \A i \in DOMAIN s : s[i].id < T!AfterLoaded(s)
<1> DEFINE n == Len(s)
           ids == {1} \cup {s[i].id + 1 : i \in DOMAIN s}
<1>0. n \in Nat /\ DOMAIN s = 1..n /\ \A i \in 1..n : s[i] \in Task
  OBVIOUS
<1>1. n \in Nat /\ DOMAIN s = 1..n /\ \A i \in 1..n : s[i].id \in Nat
  BY <1>0 DEF Task
<1>2. \A i, j \in 1..n : i < j => s[i].id < s[j].id
  BY <1>1 DEF T!Ascending
<1>3. \E m \in ids : m \in Nat /\ \A k \in ids : m >= k
  <2>1. CASE n = 0
    <3>1. ids = {1}
      BY <1>1, <2>1
    <3>2. \A m \in ids : m = 1
      BY <3>1
    <3> HIDE DEF ids
    <3>3. 1 \in ids /\ 1 \in Nat /\ 1 >= 1
      BY <3>1
    <3> QED
      BY <3>2, <3>3
  <2>2. CASE n # 0
    <3> DEFINE m == s[n].id + 1
    <3>1. n \in 1..n /\ s[n].id \in Nat
      BY <1>1, <2>2
    <3>2. m \in ids /\ m \in Nat
      BY <1>1, <3>1
    <3>3. ASSUME NEW k \in ids PROVE m >= k
      <4>1. CASE k = 1
        BY <3>1, <4>1
      <4>2. ASSUME NEW i \in 1..n, k = s[i].id + 1 PROVE m >= k
        <5>1. i = n \/ i < n
          <6>1. \A c \in Nat : \A d \in 1..c : d = c \/ d < c
            OBVIOUS
          <6> HIDE DEF n
          <6> QED
            BY <1>1, <6>1
        <5>2. s[i].id \in Nat
          BY <1>1
        <5>3. i < n => s[i].id < s[n].id
          BY <1>2, <3>1
        <5> QED
          BY <3>1, <4>2, <5>1, <5>2, <5>3
      <4> QED
        BY <1>1, <4>1, <4>2
    <3> QED
      BY <3>2, <3>3
  <2> QED
    BY <2>1, <2>2
<1>4. \A i \in 1..n : s[i].id + 1 \in ids
  BY <1>1
<1> HIDE DEF ids
<1>5. T!AfterLoaded(s) = CHOOSE m \in ids : \A k \in ids : m >= k
  BY Zenon DEF T!AfterLoaded, T!Max, ids
<1>6. T!AfterLoaded(s) \in ids /\ \A k \in ids : T!AfterLoaded(s) >= k
  BY <1>3, <1>5
<1>7. \A k \in ids : k \in Nat
  BY <1>1 DEF ids
<1>8. ASSUME NEW i \in 1..n PROVE s[i].id < T!AfterLoaded(s)
  <2>1. s[i].id \in Nat /\ T!AfterLoaded(s) \in Nat /\ T!AfterLoaded(s) >= s[i].id + 1
    BY <1>1, <1>4, <1>6, <1>7
  <2> QED
    BY <2>1
<1> QED
  BY <1>1, <1>6, <1>7, <1>8

\* find_if finds the one task that has the id.
LEMMA AtIsOne ==
  ASSUME NEW id, T!At(id) # {}, tasks \in Seq(Task), T!Ascending(tasks)
  PROVE  T!Min(T!At(id)) \in 1..Len(tasks)
<1> DEFINE n == Len(tasks)
<1>1. n \in Nat /\ DOMAIN tasks = 1..n /\ \A i \in 1..n : tasks[i] \in Task
  OBVIOUS
<1>2. T!At(id) \subseteq 1..n /\ \A i \in T!At(id) : tasks[i].id = id
  BY <1>1 DEF T!At
<1>3. \A i \in 1..n : tasks[i].id \in Nat
  BY <1>1 DEF Task
<1>4. ASSUME NEW i \in T!At(id), NEW j \in T!At(id) PROVE i <= j
  <2> SUFFICES ASSUME j < i PROVE FALSE
    BY <1>1, <1>2
  <2>1. i \in DOMAIN tasks /\ j \in DOMAIN tasks
    BY <1>1, <1>2
  <2>2. tasks[j].id < tasks[i].id
    BY <2>1 DEF T!Ascending
  <2> QED
    BY <1>2, <1>3, <2>2
<1>5. T!Min(T!At(id)) = CHOOSE x \in T!At(id) : \A y \in T!At(id) : x <= y
  BY Zenon DEF T!Min
<1>6. T!Min(T!At(id)) \in T!At(id)
  BY <1>4, <1>5
<1> QED
  BY <1>2, <1>6

\* An element is taken out of a list, the others stay in their order.
LEMMA Removed ==
  ASSUME NEW s \in Seq(Task), NEW k \in 1..Len(s), T!Ascending(s)
  PROVE  LET r == T!RemoveAt(s, k) IN
         /\ r \in Seq(Task) /\ T!Ascending(r)
         /\ \A i \in DOMAIN r : \E j \in DOMAIN s : r[i].id = s[j].id
<1> DEFINE n == Len(s)
           r == T!RemoveAt(s, k)
           a == SubSeq(s, 1, k - 1)
           b == SubSeq(s, k + 1, n)
           place(i) == IF i < k THEN i ELSE i + 1
<1>1. n \in Nat /\ DOMAIN s = 1..n /\ \A i \in 1..n : s[i] \in Task
  OBVIOUS
<1>2. /\ a \in Seq(Task) /\ Len(a) = k - 1 /\ \A i \in 1..(k - 1) : a[i] = s[i]
      /\ b \in Seq(Task) /\ Len(b) = n - k /\ \A i \in 1..(n - k) : b[i] = s[k + i]
  <2>1. /\ SubSeq(s, 1, k - 1) \in Seq(Task)
        /\ Len(SubSeq(s, 1, k - 1)) = k - 1
        /\ \A i \in 1..(k - 1) : SubSeq(s, 1, k - 1)[i] = s[i]
    OBVIOUS
  <2>2. /\ SubSeq(s, k + 1, n) \in Seq(Task)
        /\ Len(SubSeq(s, k + 1, n)) = n - k
        /\ \A i \in 1..(n - k) : SubSeq(s, k + 1, n)[i] = s[k + i]
    OBVIOUS
  <2> QED
    BY <2>1, <2>2
<1>3. r = a \o b
  BY DEF T!RemoveAt
<1> HIDE DEF a, b, r, n
<1>4. /\ a \o b \in Seq(Task) /\ Len(a \o b) = Len(a) + Len(b)
      /\ \A i \in 1..Len(a) + Len(b) : (a \o b)[i] = IF i <= Len(a) THEN a[i] ELSE b[i - Len(a)]
  BY <1>2, ConcatProperties
<1>a. (k - 1) + (n - k) = n - 1 /\ k \in 1..n
  BY <1>1 DEF n
<1>5. /\ r \in Seq(Task) /\ Len(r) = n - 1
      /\ \A i \in 1..n - 1 : r[i] = IF i <= k - 1 THEN a[i] ELSE b[i - (k - 1)]
  BY <1>2, <1>3, <1>4, <1>a
<1>6. ASSUME NEW i \in 1..(n - 1) PROVE place(i) \in 1..n /\ r[i] = s[place(i)]
  <2>1. CASE i < k
    <3>1. i \in 1..n /\ i \in 1..(k - 1) /\ i <= k - 1 /\ i \in 1..n - 1
      BY <1>1, <1>a, <2>1
    <3> QED
      BY <1>2, <1>5, <2>1, <3>1
  <2>2. CASE ~(i < k)
    <3>1. i + 1 \in 1..n /\ ~(i <= k - 1) /\ i - (k - 1) \in 1..(n - k) /\ i \in 1..n - 1
          /\ k + (i - (k - 1)) = i + 1
      BY <1>1, <1>a, <2>2
    <3>2. r[i] = b[i - (k - 1)] /\ b[i - (k - 1)] = s[k + (i - (k - 1))]
      BY <1>2, <1>5, <3>1
    <3> QED
      BY <2>2, <3>1, <3>2
  <2> QED
    BY <2>1, <2>2
<1>7. DOMAIN r = 1..(n - 1)
  BY <1>1, <1>5
<1>8. T!Ascending(r)
  <2> SUFFICES ASSUME NEW i \in 1..(n - 1), NEW j \in 1..(n - 1), i < j
               PROVE  r[i].id < r[j].id
    BY <1>7 DEF T!Ascending
  <2>1. place(i) < place(j)
    BY <1>a
  <2>2. s[place(i)].id < s[place(j)].id
    BY <1>1, <1>6, <2>1 DEF T!Ascending
  <2> QED
    BY <1>6, <2>2
<1>9. \A i \in DOMAIN r : \E j \in DOMAIN s : r[i].id = s[j].id
  BY <1>1, <1>6, <1>7
<1> QED
  BY <1>5, <1>8, <1>9 DEF r

\* A task is given another content, and keeps its id.
LEMMA TaskExcept ==
  ASSUME NEW t \in Task, NEW c
  PROVE  [t EXCEPT !.content = c] = [id |-> t.id, content |-> c]
BY DEF Task

IsUpdate(r, s, k, c) == r = [s EXCEPT ![k].content = c]

LEMMA Updated ==
  ASSUME NEW s \in Seq(Task), NEW k \in 1..Len(s), NEW c \in Content, T!Ascending(s),
         NEW r, IsUpdate(r, s, k, c)
  PROVE  /\ r \in Seq(Task) /\ T!Ascending(r) /\ DOMAIN r = DOMAIN s
         /\ \A i \in DOMAIN s : r[i].id = s[i].id
<1> DEFINE t == [s[k] EXCEPT !.content = c]
<1>1. s[k] \in Task
  OBVIOUS
<1>2. t = [id |-> s[k].id, content |-> c]
  BY <1>1, TaskExcept
<1>3. t \in Task /\ t.id = s[k].id
  BY <1>1, <1>2 DEF Task
<1>7. r = [s EXCEPT ![k] = t]
  BY DEF IsUpdate
<1> HIDE DEF t
<1>4. /\ r \in Seq(Task) /\ DOMAIN r = DOMAIN s /\ DOMAIN s = 1..Len(s)
      /\ \A i \in DOMAIN s : r[i] = IF i = k THEN t ELSE s[i]
  BY <1>3, <1>7
<1>5. \A i \in DOMAIN s : r[i].id = s[i].id
  BY <1>3, <1>4
<1>6. T!Ascending(r)
  BY <1>4, <1>5 DEF T!Ascending
<1> QED
  BY <1>4, <1>5, <1>6

\* A task with a new id is put behind the others.
LEMMA Added ==
  ASSUME NEW s \in Seq(Task), T!Ascending(s), NEW m \in Nat, NEW c \in Content,
         \A i \in DOMAIN s : s[i].id < m
  PROVE  LET r == Append(s, [id |-> m, content |-> c]) IN
         r \in Seq(Task) /\ T!Ascending(r) /\ \A i \in DOMAIN r : r[i].id < m + 1
<1> DEFINE n == Len(s)
           x == [id |-> m, content |-> c]
           r == Append(s, x)
<1>1. x \in Task /\ x.id = m
  BY DEF Task
<1> HIDE DEF x
<1>2. n \in Nat /\ DOMAIN s = 1..n /\ \A i \in 1..n : s[i] \in Task
  OBVIOUS
<1>3. \A i \in 1..n : s[i].id \in Nat /\ s[i].id < m
  BY <1>2 DEF Task
<1>4. r \in Seq(Task) /\ DOMAIN r = 1..(n + 1) /\ r[n + 1] = x /\ \A i \in 1..n : r[i] = s[i]
  BY <1>1, <1>2
<1> HIDE DEF r, n
<1>5. ASSUME NEW i \in 1..(n + 1) PROVE r[i].id < m + 1
  <2>1. CASE i = n + 1
    BY <1>1, <1>4, <2>1
  <2>2. CASE i \in 1..n
    BY <1>3, <1>4, <2>2
  <2> QED
    BY <1>2, <2>1, <2>2
<1>6. T!Ascending(r)
  <2> SUFFICES ASSUME NEW i \in 1..(n + 1), NEW j \in 1..(n + 1), i < j
               PROVE  r[i].id < r[j].id
    BY <1>4 DEF T!Ascending
  <2>1. i \in 1..n
    BY <1>2
  <2>2. CASE j = n + 1
    BY <1>1, <1>3, <1>4, <2>1, <2>2
  <2>3. CASE j \in 1..n
    BY <1>2, <1>4, <2>1, <2>3 DEF T!Ascending
  <2> QED
    BY <1>2, <2>2, <2>3
<1> QED
  BY <1>4, <1>5, <1>6 DEF r, x

-----------------------------------------------------------------------------
(* The steps. *)

\* The file that a save begins with: truncated, or what it was.
LEMMA SaveOpened ==
  ASSUME tasks' \in Seq(Task), file \in Seq(Task), nextId' \in Nat,
         T!Ascending(tasks'), T!Ascending(file),
         \A i \in DOMAIN tasks' : tasks'[i].id < nextId', T!OpenForSave
  PROVE  TInv'
<1>1. CASE pc' = "saving" /\ file' = << >> /\ stale' = FALSE
  <2>1. Prefix(file', tasks') /\ file' \in Seq(Task) /\ T!Ascending(file')
    BY <1>1, PrefixEmpty
  <2> QED
    BY <1>1, <2>1 DEF TInv, T!Ascending, Prefix
<1>2. CASE pc' = "idle" /\ stale' = TRUE /\ UNCHANGED file
  BY <1>2 DEF TInv, T!Ascending
<1> QED
  BY <1>1, <1>2 DEF T!OpenForSave

LEMMA AddTaskStep ==
  ASSUME TInv, NEW c \in Content, T!AddTask(c)
  PROVE  TInv'
<1>1. /\ tasks' = Append(tasks, [id |-> nextId, content |-> c]) /\ nextId' = nextId + 1
      /\ T!OpenForSave
  BY DEF T!AddTask
<1>2. /\ tasks' \in Seq(Task) /\ T!Ascending(tasks')
      /\ \A i \in DOMAIN tasks' : tasks'[i].id < nextId'
  BY <1>1, Added DEF TInv
<1> QED
  BY <1>1, <1>2, SaveOpened DEF TInv

LEMMA RemoveTaskStep ==
  ASSUME TInv, NEW id, T!RemoveTask(id)
  PROVE  TInv'
<1> DEFINE k == T!Min(T!At(id))
<1>1. tasks' = T!RemoveAt(tasks, k) /\ T!At(id) # {} /\ nextId' = nextId /\ T!OpenForSave
  BY DEF T!RemoveTask
<1>2. k \in 1..Len(tasks)
  BY <1>1, AtIsOne DEF TInv
<1> HIDE DEF k
<1>3. /\ tasks' \in Seq(Task) /\ T!Ascending(tasks')
      /\ \A i \in DOMAIN tasks' : \E j \in DOMAIN tasks : tasks'[i].id = tasks[j].id
  BY <1>1, <1>2, Removed DEF TInv
<1>4. \A i \in DOMAIN tasks' : tasks'[i].id < nextId'
  BY <1>1, <1>3 DEF TInv
<1> QED
  BY <1>1, <1>3, <1>4, SaveOpened DEF TInv

LEMMA UpdateTaskStep ==
  ASSUME TInv, NEW id, NEW c \in Content, T!UpdateTask(id, c)
  PROVE  TInv'
<1> DEFINE k == T!Min(T!At(id))
<1>1. tasks' = [tasks EXCEPT ![k].content = c] /\ T!At(id) # {} /\ nextId' = nextId /\ T!OpenForSave
  BY DEF T!UpdateTask
<1>2. k \in 1..Len(tasks)
  BY <1>1, AtIsOne DEF TInv
<1> HIDE DEF k
<1>3. /\ tasks' \in Seq(Task) /\ T!Ascending(tasks') /\ DOMAIN tasks' = DOMAIN tasks
      /\ \A i \in DOMAIN tasks : tasks'[i].id = tasks[i].id
  <2>1. tasks \in Seq(Task) /\ T!Ascending(tasks)
    BY DEF TInv
  <2> DEFINE r == tasks'
  <2>2. IsUpdate(r, tasks, k, c)
    BY <1>1 DEF IsUpdate
  <2> HIDE DEF r
  <2>3. /\ r \in Seq(Task) /\ T!Ascending(r) /\ DOMAIN r = DOMAIN tasks
        /\ \A i \in DOMAIN tasks : r[i].id = tasks[i].id
    BY <1>2, <2>1, <2>2, Updated
  <2> QED
    BY <2>3 DEF r
<1>4. \A i \in DOMAIN tasks' : tasks'[i].id < nextId'
  BY <1>1, <1>3 DEF TInv
<1> QED
  BY <1>1, <1>3, <1>4, SaveOpened DEF TInv

LEMMA SaveLineStep ==
  ASSUME TInv, T!SaveLine
  PROVE  TInv'
<1>1. /\ pc = "saving" /\ Len(file) < Len(tasks)
      /\ file' = Append(file, tasks[Len(file) + 1])
      /\ UNCHANGED <<tasks, nextId, pc, stale>>
  BY DEF T!SaveLine
<1>2. /\ tasks \in Seq(Task) /\ file \in Seq(Task) /\ T!Ascending(tasks) /\ Prefix(file, tasks)
  BY <1>1 DEF TInv
<1>3. file' \in Seq(Task) /\ Prefix(file', tasks) /\ T!Ascending(file')
  BY <1>1, <1>2, PrefixGrows
<1> QED
  BY <1>1, <1>3 DEF TInv, T!Ascending, Prefix

LEMMA LoadTasksStep ==
  ASSUME TInv, T!LoadTasks
  PROVE  TInv'
<1>1. file \in Seq(Task) /\ T!Ascending(file)
  BY DEF TInv
<1>2. T!AfterLoaded(file) \in Nat /\ \A i \in DOMAIN file : file[i].id < T!AfterLoaded(file)
  BY <1>1, LastIsGreatest
<1>3. /\ tasks' = file /\ file' = file /\ nextId' = T!AfterLoaded(file) /\ pc' = "idle"
  BY DEF T!LoadTasks
<1>4. T!Ascending(tasks)' /\ T!Ascending(file)'
  BY <1>1, <1>3 DEF T!Ascending
<1> QED
  BY <1>1, <1>2, <1>3, <1>4 DEF TInv

\* The memory of a process that is not running.
LEMMA NoTasks ==
  ASSUME TInv, tasks' = << >>, nextId' = 1, file' = file,
         pc' # "saving", pc' = "idle" => stale' = TRUE
  PROVE  TInv'
<1>1. /\ << >> \in Seq(Task) /\ DOMAIN << >> = {} /\ 1 \in Nat
  OBVIOUS
<1>2. T!Ascending(tasks)' /\ \A i \in DOMAIN tasks' : tasks'[i].id < nextId'
  BY <1>1 DEF T!Ascending
<1>3. T!Ascending(file)'
  BY DEF TInv, T!Ascending
<1> QED
  BY <1>1, <1>2, <1>3 DEF TInv

LEMMA StepsOfOne ==
  ASSUME [Next]_vars
  PROVE  [T!Next]_(T!vars) /\ [L!Next]_(L!vars) /\ [G!Next]_(G!vars) /\ [P!Next]_(P!vars)
BY DEF Next, vars, manager, json, logger, log, net, perceptron, T!vars, L!vars, G!vars, P!vars

LEMMA TaskInvInit == T!Init => TInv
BY DEF T!Init, TInv, T!Ascending

LEMMA TaskInvStep == TInv /\ [T!Next]_(T!vars) => TInv'
<1> SUFFICES ASSUME TInv, [T!Next]_(T!vars) PROVE TInv'
  OBVIOUS
<1>1. CASE UNCHANGED T!vars
  BY <1>1 DEF T!vars, TInv, T!Ascending, Prefix
<1>2. CASE T!SaveDone
  <2>1. pc = "saving" /\ Len(file) = Len(tasks) /\ pc' = "idle"
        /\ UNCHANGED <<tasks, nextId, file, stale>>
    BY <1>2 DEF T!SaveDone
  <2>2. file = tasks
    BY <2>1, PrefixWhole DEF TInv
  <2> QED
    BY <2>1, <2>2 DEF TInv, T!Ascending
<1>3. CASE T!LoadFails
  BY <1>3, NoTasks DEF T!LoadFails
<1>4. CASE T!Leave
  <2>1. tasks' = << >> /\ nextId' = 1 /\ file' = file /\ pc' = "down"
    BY <1>4 DEF T!Leave
  <2> QED
    BY <2>1, NoTasks
<1>5. CASE T!Die
  <2>1. tasks' = << >> /\ nextId' = 1 /\ file' = file /\ pc' = "down"
    BY <1>5 DEF T!Die
  <2> QED
    BY <2>1, NoTasks
<1> QED
  BY <1>1, <1>2, <1>3, <1>4, <1>5, AddTaskStep, RemoveTaskStep, UpdateTaskStep, SaveLineStep,
     LoadTasksStep DEF T!Next

LEMMA TaskInvSafe == TInv => T!TaskManagerSafe
<1> SUFFICES ASSUME TInv PROVE T!TaskManagerSafe
  OBVIOUS
<1>1. pc = "saving" => T!IsPrefix(file, tasks)
  BY PrefixIs DEF TInv
<1> QED
  BY <1>1 DEF TInv, T!TaskManagerSafe

\* Ids are never given out twice and stay ascending in memory and in the file,
\* also when the process dies in a save and reads back what that left; and the
\* file is the tasks in memory, or a prefix of them during a save, unless an
\* open failed (TaskManager.h:21, 86, 121).
THEOREM TaskManagerSafeAlways == Spec => []TaskManagerSafe
<1>1. Init => TInv
  BY TaskInvInit DEF Init
<1>2. TInv /\ [Next]_vars => TInv'
  BY StepsOfOne, TaskInvStep
<1>3. TInv => TaskManagerSafe
  BY TaskInvSafe DEF TaskManagerSafe
<1> QED
  BY <1>1, <1>2, <1>3, PTL DEF Spec

-----------------------------------------------------------------------------
(***************************************************************************)
(* LogFormat.  What has been printed is what should have been for the       *)
(* tokens behind the position, and the arguments used are as many as there  *)
(* were placeholders, or all; behind the format, it is the format filled in *)
(* and the arguments from the one after the last placeholder on.            *)
(***************************************************************************)

LEMMA LeastOf ==
  ASSUME NEW S \in SUBSET Nat, S # {}
  PROVE  L!Min(S) \in S /\ \A y \in S : L!Min(S) <= y
<1> DEFINE R == OpToRel(<, Nat)
<1>1. IsWellFoundedOn(R, Nat)
  BY NatLessThanWellFounded
<1>2. \A y \in Nat, x \in Nat : y < x => <<y, x>> \in R
  BY DEF OpToRel
<1> HIDE DEF R
<1>3. PICK x \in S : \A y \in S : ~(<<y, x>> \in R)
  BY <1>1, WFMin
<1>4. ASSUME NEW y \in S PROVE x <= y
  <2>1. x \in Nat /\ y \in Nat
    OBVIOUS
  <2>2. ~(y < x)
    BY <1>2, <1>3, <2>1
  <2> QED
    BY <2>1, <2>2
<1>5. L!Min(S) = CHOOSE m \in S : \A y \in S : m <= y
  BY Zenon DEF L!Min
<1>6. \E m \in S : \A y \in S : m <= y
  BY <1>3, <1>4
<1> QED
  BY <1>5, <1>6, Zenon

Token == Text \cup {Placeholder}
Piece == Token \cup Argument

\* The places of the placeholders up to i, and their number.
Places(f, i) == {j \in 1..i : f[j] = Placeholder}
Count(f, i) == Cardinality(Places(f, i))

\* What takes the place of the token at i, and what should be printed up to p.
Shown(f, a, i) == IF f[i] = Placeholder /\ Count(f, i) <= Len(a) THEN a[Count(f, i)] ELSE f[i]
Filled(f, a, p) == [i \in 1..p |-> Shown(f, a, i)]

\* The whole format, and the arguments up to k that it has no place for.
Output(f, a, k) == Filled(f, a, Len(f)) \o SubSeq(a, Count(f, Len(f)) + 1, k)

Smaller(i, j) == IF i <= j THEN i ELSE j

LogInv ==
  /\ format \in Seq(Token) /\ arg_strings \in Seq(Argument)
  /\ at \in {"loop", "args", "done"}
  /\ arg_index \in 0..Len(arg_strings)
  /\ at = "loop" => /\ pos \in 1..(Len(format) + 1)
                    /\ oss = Filled(format, arg_strings, pos - 1)
                    /\ arg_index = Smaller(Count(format, pos - 1), Len(arg_strings))
  /\ at = "args" => /\ oss = Output(format, arg_strings, arg_index)
                    /\ arg_index >= Smaller(Count(format, Len(format)), Len(arg_strings))
  /\ at = "done" => oss = Output(format, arg_strings, Len(arg_strings))

LEMMA CountStep ==
  ASSUME NEW f, NEW i \in Nat
  PROVE  /\ Count(f, 0) = 0 /\ Count(f, i) \in Nat
         /\ Count(f, i + 1) = IF f[i + 1] = Placeholder THEN Count(f, i) + 1 ELSE Count(f, i)
<1>1. IsFiniteSet(1..i)
  BY FS_Interval
<1>2. IsFiniteSet(Places(f, i)) /\ Cardinality(Places(f, i)) \in Nat
  <2>1. Places(f, i) \in SUBSET (1..i)
    BY DEF Places
  <2> QED
    BY <1>1, <2>1, FS_Subset, FS_CardinalityType
<1>3. Places(f, 0) = {}
  BY DEF Places
<1>4. CASE f[i + 1] = Placeholder
  <2>1. Places(f, i + 1) = Places(f, i) \cup {i + 1} /\ i + 1 \notin Places(f, i)
    BY <1>4 DEF Places
  <2>2. Cardinality(Places(f, i + 1)) = Cardinality(Places(f, i)) + 1
    BY <1>2, <2>1, FS_AddElement
  <2> QED
    BY <1>2, <1>3, <1>4, <2>2, FS_EmptySet DEF Count
<1>5. CASE f[i + 1] # Placeholder
  <2>1. Places(f, i + 1) = Places(f, i)
    BY <1>5 DEF Places
  <2> QED
    BY <1>2, <1>3, <1>5, <2>1, FS_EmptySet DEF Count
<1> QED
  BY <1>4, <1>5

LEMMA CountSame ==
  ASSUME NEW f, NEW p \in Nat, NEW i \in Nat, p <= i,
         \A j \in (p + 1)..i : f[j] # Placeholder
  PROVE  Count(f, i) = Count(f, p)
<1>1. Places(f, i) = Places(f, p)
  BY DEF Places
<1> QED
  BY <1>1 DEF Count

\* The number of the first placeholder behind p is one more.
LEMMA CountNext ==
  ASSUME NEW f, NEW p \in Nat, NEW i \in Nat, p < i, f[i] = Placeholder,
         \A j \in (p + 1)..(i - 1) : f[j] # Placeholder
  PROVE  Count(f, i) = Count(f, p) + 1
<1>1. i - 1 \in Nat /\ p <= i - 1 /\ (i - 1) + 1 = i
  OBVIOUS
<1>2. Count(f, i - 1) = Count(f, p)
  BY <1>1, CountSame
<1>3. Count(f, (i - 1) + 1) = Count(f, i - 1) + 1
  BY <1>1, CountStep
<1> QED
  BY <1>1, <1>2, <1>3

LEMMA FilledType ==
  ASSUME NEW f \in Seq(Token), NEW a \in Seq(Argument), NEW p \in 0..Len(f)
  PROVE  /\ Filled(f, a, p) \in Seq(Piece) /\ Len(Filled(f, a, p)) = p
         /\ \A i \in 1..p : Filled(f, a, p)[i] = Shown(f, a, i)
<1>1. ASSUME NEW i \in 1..p PROVE Shown(f, a, i) \in Piece
  <2>1. f[i] \in Piece
    BY DEF Piece
  <2>2. ASSUME f[i] = Placeholder, Count(f, i) <= Len(a) PROVE a[Count(f, i)] \in Piece
    <3>1. i - 1 \in Nat /\ (i - 1) + 1 = i
      OBVIOUS
    <3>2. Count(f, i - 1) \in Nat /\ Count(f, (i - 1) + 1) = Count(f, i - 1) + 1
      BY <2>2, <3>1, CountStep
    <3>3. Count(f, i) \in 1..Len(a)
      BY <2>2, <3>1, <3>2
    <3> QED
      BY <3>3 DEF Piece
  <2> QED
    BY <2>1, <2>2, Zenon DEF Shown
<1>2. p \in Nat
  OBVIOUS
<1>3. Filled(f, a, p) \in [1..p -> Piece]
  BY <1>1 DEF Filled
<1>4. \A i \in 1..p : Filled(f, a, p)[i] = Shown(f, a, i)
  BY Zenon DEF Filled
<1> QED
  BY <1>2, <1>3, <1>4

\* The next placeholder is replaced, or stays if no argument is left.
Put(f, a, p) == IF Count(f, p) < Len(a) THEN a[Count(f, p) + 1] ELSE Placeholder

LEMMA FilledText ==
  ASSUME NEW f \in Seq(Token), NEW a \in Seq(Argument), NEW p \in 0..Len(f), NEW i \in p..Len(f),
         \A j \in (p + 1)..i : f[j] # Placeholder
  PROVE  Filled(f, a, i) = Filled(f, a, p) \o SubSeq(f, p + 1, i)
<1> DEFINE u == Filled(f, a, p)
           v == SubSeq(f, p + 1, i)
           w == Filled(f, a, i)
<1>1. p \in Nat /\ i \in Nat /\ Len(f) \in Nat /\ p <= i /\ i <= Len(f)
  OBVIOUS
<1>2. /\ u \in Seq(Piece) /\ Len(u) = p /\ \A j \in 1..p : u[j] = Shown(f, a, j)
      /\ w \in Seq(Piece) /\ Len(w) = i /\ \A j \in 1..i : w[j] = Shown(f, a, j)
  BY FilledType
<1>3. v \in Seq(Piece) /\ Len(v) = i - p /\ \A j \in 1..(i - p) : v[j] = f[p + j]
  <2>1. \A j \in (p + 1)..i : f[j] \in Piece
    BY <1>1 DEF Piece
  <2>2. p + 1 \in Int /\ i \in Int /\ i - (p + 1) + 1 = i - p
        /\ (IF p + 1 <= i THEN i - (p + 1) + 1 ELSE 0) = i - p
        /\ \A j \in 1..(i - p) : (p + 1) + j - 1 = p + j
    BY <1>1
  <2>3. /\ v \in Seq(Piece) /\ Len(v) = (IF p + 1 <= i THEN i - (p + 1) + 1 ELSE 0)
        /\ \A j \in 1..i - (p + 1) + 1 : v[j] = f[(p + 1) + j - 1]
    BY <2>1, <2>2, SubSeqProperties
  <2> QED
    BY <2>2, <2>3
<1> HIDE DEF u, v, w
<1>4. /\ u \o v \in Seq(Piece) /\ Len(u \o v) = i
      /\ \A j \in 1..i : (u \o v)[j] = IF j <= p THEN u[j] ELSE v[j - p]
  <2>1. /\ u \o v \in Seq(Piece) /\ Len(u \o v) = Len(u) + Len(v)
        /\ \A j \in 1..Len(u) + Len(v) : (u \o v)[j] = IF j <= Len(u) THEN u[j] ELSE v[j - Len(u)]
    BY <1>2, <1>3, ConcatProperties
  <2>2. Len(u) + Len(v) = i
    BY <1>1, <1>2, <1>3
  <2> QED
    BY <1>2, <2>1, <2>2
<1>5. ASSUME NEW j \in 1..i PROVE w[j] = (u \o v)[j]
  <2>1. CASE j <= p
    BY <1>1, <1>2, <1>4, <2>1
  <2>2. CASE ~(j <= p)
    <3>1. j \in (p + 1)..i /\ j - p \in 1..(i - p) /\ p + (j - p) = j
      BY <1>1, <2>2
    <3>2. Shown(f, a, j) = f[j]
      BY <3>1 DEF Shown
    <3>3. (u \o v)[j] = v[j - p]
      BY <1>4, <2>2
    <3>4. v[j - p] = f[p + (j - p)]
      BY <1>3, <3>1
    <3> QED
      BY <1>2, <3>1, <3>2, <3>3, <3>4
  <2> QED
    BY <2>1, <2>2
<1>6. w = u \o v
  <2>1. Len(w) = Len(u \o v) /\ \A j \in 1..Len(w) : w[j] = (u \o v)[j]
    BY <1>2, <1>4, <1>5
  <2> QED
    BY <1>2, <1>4, <2>1, SeqEqual
<1> QED
  BY <1>6 DEF u, v, w

LEMMA FilledPut ==
  ASSUME NEW f \in Seq(Token), NEW a \in Seq(Argument), NEW p \in 0..Len(f),
         NEW i \in (p + 1)..Len(f), f[i] = Placeholder,
         \A j \in (p + 1)..(i - 1) : f[j] # Placeholder
  PROVE  Filled(f, a, i) = Filled(f, a, p) \o SubSeq(f, p + 1, i - 1) \o << Put(f, a, p) >>
<1> DEFINE u == Filled(f, a, i - 1)
           x == Put(f, a, p)
           w == Filled(f, a, i)
<1>1. p \in Nat /\ i - 1 \in Nat /\ i \in Nat /\ p < i /\ i - 1 \in p..Len(f)
      /\ i - 1 \in 0..Len(f) /\ i \in 0..Len(f) /\ (i - 1) + 1 = i /\ i \in 1..i
      /\ \A j \in 1..(i - 1) : j \in 1..i
  OBVIOUS
<1>2. u = Filled(f, a, p) \o SubSeq(f, p + 1, i - 1)
  BY <1>1, FilledText
<1>3. /\ u \in Seq(Piece) /\ Len(u) = i - 1 /\ \A j \in 1..(i - 1) : u[j] = Shown(f, a, j)
      /\ w \in Seq(Piece) /\ Len(w) = i /\ \A j \in 1..i : w[j] = Shown(f, a, j)
  BY <1>1, FilledType
<1>4. Count(f, i) = Count(f, p) + 1 /\ Count(f, p) \in Nat /\ Len(a) \in Nat
  <2>1. Count(f, i) = Count(f, p) + 1
    BY <1>1, CountNext
  <2>2. Count(f, p) \in Nat
    BY <1>1, CountStep
  <2> QED
    BY <2>1, <2>2
<1>5. Shown(f, a, i) = x
  BY <1>4 DEF Shown, Put
<1>6. x \in Piece /\ w[i] = x
  BY <1>1, <1>3, <1>5
<1> HIDE DEF u, w, x
<1>7. w = Append(u, x)
  <2>1. /\ Append(u, x) \in Seq(Piece) /\ Len(Append(u, x)) = i
        /\ \A j \in 1..(i - 1) : Append(u, x)[j] = u[j]
        /\ Append(u, x)[i] = x
    BY <1>1, <1>3, <1>6, AppendProperties
  <2>2. \A j \in 1..i : w[j] = Append(u, x)[j]
    BY <1>1, <1>3, <1>6, <2>1
  <2> QED
    BY <1>3, <2>1, <2>2, SeqEqual
<1>8. Append(u, x) = u \o << x >>
  BY <1>3, <1>6, AppendIsConcat
<1> QED
  BY <1>2, <1>7, <1>8 DEF w, x

\* One more argument is put behind the output.
LEMMA OutputNext ==
  ASSUME NEW f \in Seq(Token), NEW a \in Seq(Argument), NEW k \in 0..(Len(a) - 1),
         Count(f, Len(f)) <= k
  PROVE  Output(f, a, k + 1) = Append(Output(f, a, k), a[k + 1])
<1> DEFINE c == Count(f, Len(f))
           u == Filled(f, a, Len(f))
           v == SubSeq(a, c + 1, k)
           x == a[k + 1]
<1>0. Len(f) \in Nat /\ Len(a) \in Nat /\ Len(f) \in 0..Len(f) /\ k \in Nat
      /\ k + 1 \in 1..Len(a)
  OBVIOUS
<1>1. c \in Nat /\ Len(f) \in Nat /\ Len(a) \in Nat /\ Len(f) \in 0..Len(f) /\ k \in Nat
      /\ k + 1 \in 1..Len(a) /\ c <= k
  BY <1>0, CountStep
<1>2. u \in Seq(Piece)
  BY <1>1, FilledType
<1>3. x \in Argument /\ x \in Piece
  BY <1>1 DEF Piece
<1>4. v \in Seq(Argument) /\ v \in Seq(Piece)
  <2>1. \A j \in (c + 1)..k : a[j] \in Argument
    BY <1>1
  <2>2. v \in Seq(Argument)
    BY <1>1, <2>1, SubSeqProperties
  <2>3. Argument \subseteq Piece
    BY DEF Piece
  <2> QED
    BY <2>2, <2>3, SeqMonotonic
<1>5. SubSeq(a, c + 1, k + 1) = v \o << x >>
  <2>1. c + 1 \in 1..Len(a) /\ k + 1 \in (c + 1)..Len(a) /\ (k + 1) - 1 = k
    BY <1>1
  <2>2. SubSeq(a, c + 1, k + 1) = SubSeq(a, c + 1, (k + 1) - 1) \o << a[k + 1] >>
    BY <2>1, SubSeqRecursiveSecond
  <2> QED
    BY <2>1, <2>2
<1>6. Output(f, a, k) = u \o v /\ Output(f, a, k + 1) = u \o (v \o << x >>)
  BY <1>5, Zenon DEF Output
<1> HIDE DEF u, v, x, c
<1>7. << x >> \in Seq(Piece)
  BY <1>3
<1>8. (u \o v) \o << x >> = u \o (v \o << x >>) /\ u \o v \in Seq(Piece)
  BY <1>2, <1>4, <1>7, ConcatAssociative, ConcatProperties
<1>9. Append(u \o v, x) = (u \o v) \o << x >>
  BY <1>3, <1>8, AppendIsConcat
<1> QED
  BY <1>6, <1>8, <1>9 DEF x

-----------------------------------------------------------------------------
(* The steps of formatMessage.                                              *)

LEMMA LogInvInit ==
  ASSUME L!LogFormatAssumption, L!Init
  PROVE  LogInv
<1>1. ASSUME NEW S, NEW n \in Nat, NEW s \in L!BoundedSeq(S, n)
      PROVE  s \in Seq(S)
  <2>1. PICK m \in 0..n : s \in [1..m -> S]
    BY DEF L!BoundedSeq, L!SeqOf
  <2> QED
    BY <2>1
<1>2. format \in Seq(Token) /\ arg_strings \in Seq(Argument)
  BY <1>1 DEF L!Init, L!LogFormatAssumption, Token
<1>3. arg_index = 0 /\ pos = 1 /\ oss = << >> /\ at = "loop"
  BY DEF L!Init
<1>4. Filled(format, arg_strings, 0) = << >>
  <2>1. 0 \in 0..Len(format)
    BY <1>2
  <2> QED
    BY <1>2, <2>1, FilledType, EmptySeq
<1>5. Count(format, 0) = 0
  BY CountStep
<1> QED
  BY <1>2, <1>3, <1>4, <1>5 DEF LogInv, Smaller

\* The next placeholder, when find sees one.
LEMMA NextPlace ==
  ASSUME LogInv, at = "loop", L!Ahead # {}
  PROVE  LET i == L!Min(L!Ahead) IN
         /\ i \in pos..Len(format) /\ format[i] = Placeholder
         /\ \A j \in pos..(i - 1) : format[j] # Placeholder
<1> DEFINE i == L!Min(L!Ahead)
<1>1. pos \in Nat /\ Len(format) \in Nat
  BY DEF LogInv
<1>2. L!Ahead \in SUBSET Nat
  BY <1>1 DEF L!Ahead
<1>3. i \in L!Ahead /\ \A j \in L!Ahead : i <= j
  BY <1>2, LeastOf
<1> HIDE DEF i
<1>4. i \in pos..Len(format) /\ format[i] = Placeholder
  BY <1>3 DEF L!Ahead
<1>5. ASSUME NEW j \in pos..(i - 1) PROVE format[j] # Placeholder
  <2>1. j \in pos..Len(format) /\ ~(i <= j)
    BY <1>1, <1>4
  <2> QED
    BY <1>3, <2>1 DEF L!Ahead
<1> QED
  BY <1>4, <1>5 DEF i

LEMMA SmallerNext ==
  ASSUME NEW q \in Nat, NEW n \in Nat, NEW k \in 0..n, k = Smaller(q, n)
  PROVE  /\ (IF k < n THEN k + 1 ELSE k) = Smaller(q + 1, n)
         /\ (IF k < n THEN k + 1 ELSE k) \in 0..n
BY DEF Smaller

\* A turn of the loop fills in the format up to the next placeholder.
LEMMA LoopStep ==
  ASSUME LogInv, at = "loop", L!Ahead # {}, NEW i, i = L!Min(L!Ahead),
         oss' = oss \o L!Before(i) \o << Put(format, arg_strings, pos - 1) >>,
         pos' = i + 1, UNCHANGED <<format, arg_strings, at>>,
         arg_index' = IF arg_index < Len(arg_strings) THEN arg_index + 1 ELSE arg_index
  PROVE  LogInv'
<1> DEFINE p == pos - 1
           n == Len(arg_strings)
<1>1. /\ format \in Seq(Token) /\ arg_strings \in Seq(Argument)
      /\ arg_index \in 0..n /\ pos \in 1..(Len(format) + 1)
      /\ oss = Filled(format, arg_strings, p)
      /\ arg_index = Smaller(Count(format, p), n)
  BY DEF LogInv
<1>2. i \in pos..Len(format) /\ format[i] = Placeholder
      /\ \A j \in pos..(i - 1) : format[j] # Placeholder
  BY NextPlace
<1>3. /\ p \in Nat /\ p + 1 = pos /\ p \in 0..Len(format) /\ i \in (p + 1)..Len(format)
      /\ p < i /\ i \in Nat /\ n \in Nat
      /\ (i + 1) - 1 = i /\ i + 1 \in 1..(Len(format) + 1)
  BY <1>1, <1>2
<1> HIDE DEF p, n
<1>4. Filled(format, arg_strings, i) =
        Filled(format, arg_strings, p) \o SubSeq(format, p + 1, i - 1)
          \o << Put(format, arg_strings, p) >>
  BY <1>1, <1>2, <1>3, FilledPut
<1>5. L!Before(i) = SubSeq(format, p + 1, i - 1)
  BY <1>3, Zenon DEF L!Before
<1>6. oss' = Filled(format, arg_strings, i)
  BY <1>1, <1>4, <1>5 DEF p
<1>7. Count(format, i) = Count(format, p) + 1
  BY <1>2, <1>3, CountNext
<1>8. Count(format, p) \in Nat
  BY <1>3, CountStep
<1>9. arg_index' = Smaller(Count(format, i), n) /\ arg_index' \in 0..n
  <2>1. arg_index' = IF arg_index < n THEN arg_index + 1 ELSE arg_index
    BY DEF n
  <2>2. /\ (IF arg_index < n THEN arg_index + 1 ELSE arg_index) = Smaller(Count(format, p) + 1, n)
        /\ (IF arg_index < n THEN arg_index + 1 ELSE arg_index) \in 0..n
    BY <1>1, <1>3, <1>8, SmallerNext
  <2> QED
    BY <1>7, <2>1, <2>2, Zenon
<1>10. /\ oss' = Filled(format', arg_strings', pos' - 1)
       /\ arg_index' = Smaller(Count(format', pos' - 1), Len(arg_strings'))
  BY <1>3, <1>6, <1>9, Zenon DEF n
<1>11. pos' \in 1..(Len(format') + 1) /\ arg_index' \in 0..Len(arg_strings')
  BY <1>3, <1>9 DEF n
<1> QED
  BY <1>1, <1>10, <1>11 DEF LogInv

LEMMA ReplaceStep ==
  ASSUME LogInv, L!Replace
  PROVE  LogInv'
<1> DEFINE i == L!Min(L!Ahead)
           p == pos - 1
<1>1. /\ at = "loop" /\ L!Ahead # {} /\ arg_index < Len(arg_strings)
      /\ oss' = oss \o L!Before(i) \o << arg_strings[arg_index + 1] >>
      /\ pos' = i + 1 /\ arg_index' = arg_index + 1
      /\ UNCHANGED <<format, arg_strings, at>>
  BY DEF L!Replace, L!ArgLeft, L!Behind
<1>2. arg_index = Smaller(Count(format, p), Len(arg_strings)) /\ p \in Nat
      /\ Len(arg_strings) \in Nat
  BY <1>1 DEF LogInv
<1> HIDE DEF i, p
<1>3. Count(format, p) \in Nat
  BY <1>2, CountStep
<1>4. arg_index = Count(format, p) /\ Count(format, p) < Len(arg_strings)
  BY <1>1, <1>2, <1>3 DEF Smaller
<1>5. arg_strings[arg_index + 1] = Put(format, arg_strings, p)
  BY <1>4, Zenon DEF Put
<1> QED
  BY <1>1, <1>5, LoopStep DEF i, p

LEMMA KeepStep ==
  ASSUME LogInv, L!Keep
  PROVE  LogInv'
<1> DEFINE i == L!Min(L!Ahead)
           p == pos - 1
<1>1. /\ at = "loop" /\ L!Ahead # {} /\ ~(arg_index < Len(arg_strings))
      /\ oss' = oss \o L!Before(i) \o << Placeholder >>
      /\ pos' = i + 1 /\ arg_index' = arg_index
      /\ UNCHANGED <<format, arg_strings, at>>
  BY DEF L!Keep, L!ArgLeft, L!Behind
<1>2. arg_index = Smaller(Count(format, p), Len(arg_strings)) /\ p \in Nat
      /\ Len(arg_strings) \in Nat
  BY <1>1 DEF LogInv
<1> HIDE DEF i, p
<1>3. Count(format, p) \in Nat
  BY <1>2, CountStep
<1>4. ~(Count(format, p) < Len(arg_strings))
  BY <1>1, <1>2, <1>3 DEF Smaller
<1>5. Placeholder = Put(format, arg_strings, p)
  BY <1>4, Zenon DEF Put
<1> QED
  BY <1>1, <1>5, LoopStep DEF i, p

\* Behind the last placeholder the rest of the format is the rest of the output.
LEMMA CopyRestStep ==
  ASSUME LogInv, L!CopyRest
  PROVE  LogInv'
<1> DEFINE p == pos - 1
           n == Len(format)
           c == Count(format, n)
<1>1. /\ at = "loop" /\ L!Ahead = {} /\ at' = "args"
      /\ oss' = oss \o SubSeq(format, pos, Len(format))
      /\ UNCHANGED <<format, arg_strings, arg_index, pos>>
  BY DEF L!CopyRest
<1>2. /\ format \in Seq(Token) /\ arg_strings \in Seq(Argument)
      /\ arg_index \in 0..Len(arg_strings) /\ pos \in 1..(n + 1)
      /\ oss = Filled(format, arg_strings, p)
      /\ arg_index = Smaller(Count(format, p), Len(arg_strings))
  BY <1>1 DEF LogInv
<1>3. /\ p \in Nat /\ n \in Nat /\ p + 1 = pos /\ p \in 0..n /\ n \in p..n /\ p <= n
      /\ n \in 0..n
  BY <1>2
<1>4. \A j \in (p + 1)..n : format[j] # Placeholder
  BY <1>1, <1>3 DEF L!Ahead
<1>5. oss' = Filled(format, arg_strings, n)
  BY <1>1, <1>2, <1>3, <1>4, FilledText
<1>6. c = Count(format, p)
  BY <1>3, <1>4, CountSame
<1>7. c \in Nat
  BY <1>3, CountStep
<1>8. Filled(format, arg_strings, n) \in Seq(Piece)
  BY <1>2, <1>3, FilledType
<1>a. arg_index \in Nat /\ Len(arg_strings) \in Nat
  BY <1>2
<1> HIDE DEF p, n, c
<1>9. arg_index \in Int /\ c + 1 \in Int /\ arg_index < c + 1
  BY <1>2, <1>6, <1>7, <1>a DEF Smaller
<1>10. SubSeq(arg_strings, c + 1, arg_index) = << >>
  BY <1>9, SubSeqEmpty
<1>11. oss' = Output(format, arg_strings, arg_index)
  <2>1. Filled(format, arg_strings, n) \o << >> = Filled(format, arg_strings, n)
    BY <1>8, ConcatEmptySeq
  <2> QED
    BY <1>5, <1>10, <2>1, Zenon DEF Output, n, c
<1>12. arg_index >= Smaller(c, Len(arg_strings))
  BY <1>2, <1>6, <1>7, <1>a DEF Smaller
<1>13. oss' = Output(format', arg_strings', arg_index')
  BY <1>1, <1>11, Zenon
<1> QED
  BY <1>1, <1>2, <1>12, <1>13 DEF LogInv, c, n

LEMMA AppendArgStep ==
  ASSUME LogInv, L!AppendArg
  PROVE  LogInv'
<1> DEFINE n == Len(arg_strings)
           c == Count(format, Len(format))
<1>1. /\ at = "args" /\ arg_index < n
      /\ oss' = Append(oss, arg_strings[arg_index + 1])
      /\ arg_index' = arg_index + 1
      /\ UNCHANGED <<format, arg_strings, pos, at>>
  BY DEF L!AppendArg, L!ArgLeft
<1>2. /\ format \in Seq(Token) /\ arg_strings \in Seq(Argument)
      /\ arg_index \in 0..n /\ n \in Nat /\ Len(format) \in Nat
      /\ oss = Output(format, arg_strings, arg_index)
      /\ arg_index >= Smaller(c, n)
  BY <1>1 DEF LogInv
<1>3. c \in Nat
  BY <1>2, CountStep
<1> HIDE DEF c, n
<1>4. c <= arg_index /\ arg_index \in 0..(n - 1) /\ arg_index + 1 \in 0..n
      /\ arg_index + 1 >= Smaller(c, n)
  BY <1>1, <1>2, <1>3 DEF Smaller
<1>5. Output(format, arg_strings, arg_index + 1) =
        Append(Output(format, arg_strings, arg_index), arg_strings[arg_index + 1])
  BY <1>2, <1>4, OutputNext DEF c, n
<1>6. oss' = Output(format', arg_strings', arg_index')
  BY <1>1, <1>2, <1>5, Zenon
<1> QED
  BY <1>1, <1>2, <1>4, <1>6 DEF LogInv, c, n

LEMMA ReturnStep ==
  ASSUME LogInv, L!Return
  PROVE  LogInv'
<1>1. /\ at = "args" /\ ~(arg_index < Len(arg_strings)) /\ at' = "done"
      /\ UNCHANGED <<format, arg_strings, arg_index, pos, oss>>
  BY DEF L!Return, L!ArgLeft
<1>2. /\ arg_index \in 0..Len(arg_strings) /\ arg_strings \in Seq(Argument)
      /\ oss = Output(format, arg_strings, arg_index)
  BY <1>1 DEF LogInv
<1>3. arg_index = Len(arg_strings)
  BY <1>1, <1>2
<1>4. oss' = Output(format', arg_strings', Len(arg_strings'))
  BY <1>1, <1>2, <1>3, Zenon
<1> QED
  BY <1>1, <1>2, <1>4 DEF LogInv

LEMMA LogInvStep ==
  ASSUME LogInv, [L!Next]_(L!vars)
  PROVE  LogInv'
<1>1. CASE UNCHANGED L!vars
  <2>1. /\ format' = format /\ arg_strings' = arg_strings /\ arg_index' = arg_index
        /\ pos' = pos /\ oss' = oss /\ at' = at
    BY <1>1 DEF L!vars
  <2> QED
    BY <2>1 DEF LogInv
<1> QED
  BY <1>1, ReplaceStep, KeepStep, CopyRestStep, AppendArgStep, ReturnStep DEF L!Next

\* A format that has been filled in is what the call should print.
LEMMA LogInvSafe == LogInv => L!PrintsExpected
<1> SUFFICES ASSUME LogInv, at = "done" PROVE oss = L!Expected
  BY DEF L!PrintsExpected
<1>1. oss = Output(format, arg_strings, Len(arg_strings))
  BY DEF LogInv
<1>2. \A i : L!Nth(i) = Count(format, i)
  <2>1. \A S : L!Cardinality(S) = Cardinality(S)
    BY Zenon DEF L!Cardinality, Cardinality
  <2> QED
    BY <2>1, Zenon DEF L!Nth, Count, Places
<1>3. L!Placeholders = Count(format, Len(format))
  BY <1>2, Zenon DEF L!Placeholders
<1>4. L!Expected = Output(format, arg_strings, Len(arg_strings))
  BY <1>2, <1>3, Zenon DEF L!Expected, Output, Filled, Shown
<1> QED
  BY <1>1, <1>4

\* Whatever the format and the arguments are, and however many of each,
\* formatMessage prints the format with its placeholders replaced in turn, those
\* without an argument kept, and the arguments left over behind it; an argument
\* that looks like a placeholder is printed as it is (log.h:120, 124).
THEOREM PrintsExpectedAlways == Spec => []PrintsExpected
<1>1. Init => LogInv
  <2> SUFFICES ASSUME Init PROVE LogInv
    OBVIOUS
  <2>1. CASE L!Init
    BY <2>1, ProgramsAssumption, LogInvInit DEF ProgramsAssumption
  <2>2. CASE NoFormat
    <3>1. Filled(<< >>, << >>, 0) = << >> /\ Count(<< >>, 0) = 0
      BY CountStep DEF Filled
    <3> QED
      BY <2>2, <3>1 DEF NoFormat, LogInv, Smaller
  <2> QED
    BY <2>1, <2>2 DEF Init
<1>2. LogInv /\ [Next]_vars => LogInv'
  BY StepsOfOne, LogInvStep
<1>3. LogInv => PrintsExpected
  BY LogInvSafe DEF PrintsExpected
<1> QED
  BY <1>1, <1>2, <1>3, PTL DEF Spec

-----------------------------------------------------------------------------
(***************************************************************************)
(* Logger.                                                                  *)
(***************************************************************************)

\* msg holds a line exactly between the pop and the write.
MsgInv == /\ worker # "write" => msg = << >>
          /\ worker = "write" => \E x \in G!Line : msg = <<x>>

\* The worker exits after the flag was set, with nothing left to pop.
ExitInv == worker = "exited" => is_shutdown_ /\ queue_ = << >>

\* The flag is the destructor's, and the file is closed last.
DtorInv == /\ is_shutdown_ <=> dtor # "none"
           /\ dtor \in {"close", "done"} => worker = "exited"
           /\ ~is_open <=> dtor = "done"

LoggerInv == G!TypeOK /\ MsgInv /\ ExitInv /\ DtorInv /\ G!NoSleepOnLines /\ G!WrittenInLogOrder

-----------------------------------------------------------------------------
(* Facts about sequences. *)

\* Writing what was popped keeps the order of everything.
LEMMA MoveLine ==
  ASSUME NEW S, NEW f \in Seq(S), NEW q \in Seq(S), q # << >>
  PROVE  /\ Head(q) \in S
         /\ Tail(q) \in Seq(S)
         /\ <<Head(q)>> \in Seq(S)
         /\ f \o << >> \o q = f \o <<Head(q)>> \o Tail(q)
  OBVIOUS

\* Concatenation of three sequences, either way.
LEMMA Concat3 ==
  ASSUME NEW S, NEW f \in Seq(S), NEW m \in Seq(S), NEW q \in Seq(S)
  PROVE  /\ f \o m \in Seq(S)
         /\ f \o m \o q = f \o (m \o q)
         /\ (f \o m) \o << >> \o q = f \o m \o q
         /\ f \o << >> \o << >> = f
  OBVIOUS

\* A push at the end of two sequences.
LEMMA PushLine ==
  ASSUME NEW S, NEW m \in Seq(S), NEW q \in Seq(S), NEW x \in S
  PROVE  /\ Append(q, x) \in Seq(S)
         /\ m \o Append(q, x) = Append(m \o q, x)
<1>1. Append(q, x) \in Seq(S)
  OBVIOUS
<1>2. m \o Append(q, x) = Append(m \o q, x)
  OBVIOUS
<1> QED
  BY <1>1, <1>2

-----------------------------------------------------------------------------
(* The invariant of the logger. *)

\* The initial states.
LEMMA LoggerInvInit == G!Init => LoggerInv
<1> SUFFICES ASSUME G!Init PROVE LoggerInv
  OBVIOUS
<1>1. << >> \in Seq(G!Line) /\ << >> \o << >> \o << >> = << >>
  BY Concat3
<1>2. G!TypeOK
  BY <1>1 DEF G!Init, G!TypeOK
<1>3. G!WrittenInLogOrder
  BY <1>1 DEF G!Init, G!WrittenInLogOrder
<1> QED
  BY <1>2, <1>3 DEF G!Init, LoggerInv, MsgInv, ExitInv, DtorInv, G!NoSleepOnLines

\* A line a thread may still log is one of Line.
LEMMA LineType ==
  ASSUME LoggerInv, NEW t \in Thread, G!Count(t) < MaxLogs, G!Count(t) \in Nat
  PROVE  [thread |-> t, k |-> G!Count(t) + 1] \in G!Line
  BY ProgramsAssumption DEF ProgramsAssumption, G!LoggerAssumption, G!Line

\* A push leaves every line where it was and appends its own to both sides.
LEMMA LogOrder ==
  ASSUME NEW x \in G!Line, G!TypeOK, G!WrittenInLogOrder,
         queue_' = Append(queue_, x), logged' = Append(logged, x),
         msg' = msg, log_file_' = log_file_
  PROVE  /\ queue_' \in Seq(G!Line) /\ logged' \in Seq(G!Line)
         /\ G!WrittenInLogOrder'
<1>1. /\ queue_ \in Seq(G!Line) /\ logged \in Seq(G!Line)
      /\ msg \in Seq(G!Line) /\ log_file_ \in Seq(G!Line)
  BY DEF G!TypeOK
<1>2. log_file_ \o msg \in Seq(G!Line)
  BY <1>1
<1>3. (log_file_ \o msg) \o Append(queue_, x) = Append((log_file_ \o msg) \o queue_, x)
  BY <1>1, <1>2
<1>4. Append(queue_, x) \in Seq(G!Line) /\ Append(logged, x) \in Seq(G!Line)
  BY <1>1
<1> QED
  BY <1>3, <1>4 DEF G!WrittenInLogOrder

\* push keeps the invariant: the flag is not set, so the worker has not exited.
LEMMA LogStep ==
  ASSUME LoggerInv, NEW t \in Thread, G!Log(t), G!Count(t) \in Nat
  PROVE  LoggerInv'
<1>1. PICK x \in G!Line : queue_' = Append(queue_, x) /\ logged' = Append(logged, x)
  BY LineType DEF G!Log
<1>2. /\ worker' = IF worker = "waiting" THEN "pop" ELSE worker
      /\ worker # "exited" /\ dtor = "none"
      /\ UNCHANGED <<is_shutdown_, msg, log_file_, is_open, dtor>>
  BY DEF G!Log, G!Notified, LoggerInv, ExitInv, DtorInv
<1>3. /\ queue_' \in Seq(G!Line) /\ logged' \in Seq(G!Line)
      /\ G!WrittenInLogOrder'
  BY <1>1, <1>2, LogOrder DEF LoggerInv
<1>4. G!TypeOK'
  BY <1>2, <1>3 DEF LoggerInv, G!TypeOK
<1> QED
  BY <1>2, <1>3, <1>4 DEF LoggerInv, MsgInv, ExitInv, DtorInv, G!NoSleepOnLines

\* The worker's steps that move no line keep it; it exits only at the end of the
\* queue.
LEMMA WorkerQuietStep ==
  ASSUME LoggerInv, G!PopWaits \/ G!PopEnds \/ G!SpuriousWakeup
  PROVE  LoggerInv'
<1>1. UNCHANGED <<queue_, is_shutdown_, msg, log_file_, is_open, dtor, logged>>
  BY DEF G!PopWaits, G!PopEnds, G!SpuriousWakeup
<1>2. worker # "write" /\ worker' \in {"pop", "waiting", "exited"} /\ msg = << >>
  BY DEF G!PopWaits, G!PopEnds, G!SpuriousWakeup, LoggerInv, MsgInv
<1>3. worker' = "exited" => is_shutdown_ /\ queue_ = << >>
  BY DEF G!PopWaits, G!PopEnds, G!SpuriousWakeup, G!EndOfQueue
<1>4. worker' = "waiting" => queue_ = << >> /\ ~is_shutdown_
  BY DEF G!PopWaits, G!PopEnds, G!SpuriousWakeup, G!Ready
<1>5. worker # "exited"
  BY DEF G!PopWaits, G!PopEnds, G!SpuriousWakeup
<1>6. G!TypeOK' /\ MsgInv'
  BY <1>1, <1>2 DEF LoggerInv, G!TypeOK, MsgInv
<1>7. ExitInv' /\ G!NoSleepOnLines' /\ G!WrittenInLogOrder'
  BY <1>1, <1>3, <1>4 DEF LoggerInv, ExitInv, G!NoSleepOnLines, G!WrittenInLogOrder
<1>8. DtorInv'
  BY <1>1, <1>5 DEF LoggerInv, DtorInv
<1> QED
  BY <1>6, <1>7, <1>8 DEF LoggerInv

\* A pop moves the first line from the queue into the worker's hand.
LEMMA PopTakesStep ==
  ASSUME LoggerInv, G!PopTakes
  PROVE  LoggerInv'
<1>1. queue_ # << >> /\ msg = << >> /\ worker = "pop"
  BY DEF LoggerInv, MsgInv, G!PopTakes, G!Ready, G!EndOfQueue
<1>2. queue_ \in Seq(G!Line) /\ log_file_ \in Seq(G!Line)
  BY DEF LoggerInv, G!TypeOK
<1>3. /\ Head(queue_) \in G!Line
      /\ <<Head(queue_)>> \in Seq(G!Line) /\ Tail(queue_) \in Seq(G!Line)
      /\ log_file_ \o << >> \o queue_ = log_file_ \o <<Head(queue_)>> \o Tail(queue_)
  BY <1>1, <1>2, MoveLine
<1>4. /\ msg' = <<Head(queue_)>> /\ queue_' = Tail(queue_) /\ worker' = "write"
      /\ UNCHANGED <<is_shutdown_, log_file_, is_open, dtor, logged>>
  BY DEF G!PopTakes
<1>5. G!WrittenInLogOrder'
  BY <1>1, <1>3, <1>4 DEF LoggerInv, G!WrittenInLogOrder
<1>6. is_open
  BY <1>1 DEF LoggerInv, G!TypeOK, DtorInv
<1>7. G!TypeOK'
  BY <1>3, <1>4, <1>6 DEF LoggerInv, G!TypeOK
<1>8. MsgInv' /\ ExitInv' /\ G!NoSleepOnLines'
  BY <1>3, <1>4 DEF MsgInv, ExitInv, G!NoSleepOnLines
<1>9. DtorInv'
  BY <1>1, <1>4 DEF LoggerInv, DtorInv
<1> QED
  BY <1>5, <1>7, <1>8, <1>9 DEF LoggerInv

\* A write moves the line from the worker's hand to the file.
LEMMA WriteStep ==
  ASSUME LoggerInv, G!Write
  PROVE  LoggerInv'
<1>1. queue_ \in Seq(G!Line) /\ log_file_ \in Seq(G!Line) /\ msg \in Seq(G!Line)
  BY DEF LoggerInv, G!TypeOK
<1>2. /\ log_file_ \o msg \in Seq(G!Line) /\ << >> \in Seq(G!Line)
      /\ (log_file_ \o msg) \o << >> \o queue_ = log_file_ \o msg \o queue_
  BY <1>1, Concat3
<1>3. /\ log_file_' = log_file_ \o msg /\ msg' = << >> /\ worker = "write" /\ worker' = "pop"
      /\ UNCHANGED <<queue_, is_shutdown_, is_open, dtor, logged>>
  BY DEF G!Write
<1>4. G!WrittenInLogOrder'
  BY <1>2, <1>3 DEF LoggerInv, G!WrittenInLogOrder
<1>5. G!TypeOK'
  BY <1>2, <1>3 DEF LoggerInv, G!TypeOK
<1>6. MsgInv' /\ ExitInv' /\ G!NoSleepOnLines'
  BY <1>3 DEF MsgInv, ExitInv, G!NoSleepOnLines
<1>7. DtorInv'
  BY <1>3 DEF LoggerInv, DtorInv
<1> QED
  BY <1>4, <1>5, <1>6, <1>7 DEF LoggerInv

\* The destructor keeps it: it wakes the worker before it waits for it.
LEMMA DestructorStep ==
  ASSUME LoggerInv, G!Shutdown \/ G!Destructor
  PROVE  LoggerInv'
  BY DEF LoggerInv, G!TypeOK, MsgInv, ExitInv, DtorInv, G!NoSleepOnLines, G!WrittenInLogOrder,
         G!Shutdown, G!Destructor, G!Join, G!CloseFile, G!Notified

\* How often a thread has logged is a number.
LEMMA LoggedNat ==
  ASSUME LoggerInv, NEW t \in Thread
  PROVE  G!Count(t) \in Nat
  BY DEF LoggerInv, G!TypeOK, G!Count

LEMMA LoggerInvStep ==
  ASSUME LoggerInv, [G!Next]_(G!vars)
  PROVE  LoggerInv'
<1>1. ASSUME NEW t \in Thread, G!Log(t) PROVE LoggerInv'
  BY <1>1, LogStep, LoggedNat
<1>2. CASE G!Worker \/ G!SpuriousWakeup
  BY <1>2, WorkerQuietStep, PopTakesStep, WriteStep DEF G!Worker
<1>3. CASE G!Shutdown \/ G!Destructor
  BY <1>3, DestructorStep
<1>4. CASE UNCHANGED G!vars
  BY <1>4 DEF G!vars, LoggerInv, G!TypeOK, MsgInv, ExitInv, DtorInv, G!NoSleepOnLines,
              G!WrittenInLogOrder
<1> QED
  BY <1>1, <1>2, <1>3, <1>4 DEF G!Next

\* At every moment of log, pop, the worker and ~Logger: what the worker holds,
\* why it has exited, how far the destructor is, and where each line is.
THEOREM LoggerInductiveInvariant == Spec => []LoggerInv
<1>1. Init => LoggerInv
  BY LoggerInvInit DEF Init
<1>2. LoggerInv /\ [Next]_vars => LoggerInv'
  BY StepsOfOne, LoggerInvStep
<1> QED
  BY <1>1, <1>2, PTL DEF Spec

-----------------------------------------------------------------------------
(* What follows from it for the logger. *)

\* The types; and the worker writes to an open file only.
THEOREM LoggerTypeCorrect == Spec => []G!TypeOK
<1>1. LoggerInv => G!TypeOK
  BY DEF LoggerInv
<1> QED
  BY <1>1, LoggerInductiveInvariant, PTL

\* Lines are written once each, in the order of the pushes.
THEOREM LoggerInLogOrder == Spec => []G!WrittenInLogOrder
<1>1. LoggerInv => G!WrittenInLogOrder
  BY DEF LoggerInv
<1> QED
  BY <1>1, LoggerInductiveInvariant, PTL

\* The worker sleeps neither on a line nor on a shut-down queue.
THEOREM LoggerNoLostWakeup == Spec => []G!NoSleepOnLines
<1>1. LoggerInv => G!NoSleepOnLines
  BY DEF LoggerInv
<1> QED
  BY <1>1, LoggerInductiveInvariant, PTL

\* The file the destructor has closed holds everything that was logged.
THEOREM LoggerNothingLost == Spec => []G!ClosedComplete
<1>1. LoggerInv => G!ClosedComplete
  <2> SUFFICES ASSUME LoggerInv, ~is_open PROVE log_file_ = logged
    BY DEF G!ClosedComplete
  <2>1. msg = << >> /\ queue_ = << >>
    BY DEF LoggerInv, G!TypeOK, DtorInv, ExitInv, MsgInv
  <2>2. log_file_ \o << >> \o << >> = log_file_
    BY Concat3 DEF LoggerInv, G!TypeOK
  <2> QED
    BY <2>1, <2>2 DEF LoggerInv, G!WrittenInLogOrder
<1> QED
  BY <1>1, LoggerInductiveInvariant, PTL

-----------------------------------------------------------------------------
(* The logger implements the mailbox (its safety part). *)

\* What a take does to the concatenation of the hand and the queue.
LEMMA TakeLine ==
  ASSUME NEW S, NEW f \in Seq(S), NEW q \in Seq(S), NEW x \in S
  PROVE  /\ <<x>> \o q # << >>
         /\ Head(<<x>> \o q) = x
         /\ Tail(<<x>> \o q) = q
         /\ f \o <<x>> = Append(f, x)
         /\ << >> \o q = q
<1>1. f \o <<x>> = Append(f, x) /\ << >> \o q = q
  OBVIOUS
<1>2. <<x>> \o q # << >> /\ Head(<<x>> \o q) = x
  OBVIOUS
<1>3. Tail(<<x>> \o q) = q
  OBVIOUS
<1> QED
  BY <1>1, <1>2, <1>3

\* A push puts its line.
LEMMA LogPuts ==
  ASSUME LoggerInv, NEW t \in Thread, G!Log(t)
  PROVE  \E m \in G!Line : G!Box!Put(m)
<1> DEFINE line == [thread |-> t, k |-> G!Count(t) + 1]
<1>1. line \in G!Line
  BY LoggedNat, LineType DEF G!Log
<1>2. queue_' = Append(queue_, line) /\ UNCHANGED <<msg, log_file_, dtor>> /\ dtor = "none"
  BY DEF G!Log
<1> HIDE DEF line
<1>3. msg \o Append(queue_, line) = Append(msg \o queue_, line)
  BY <1>1, PushLine DEF LoggerInv, G!TypeOK
<1>4. G!Box!Put(line)
  BY <1>2, <1>3 DEF G!Box!Put
<1> QED
  BY <1>1, <1>4

\* A write takes the line in the worker's hand.
LEMMA WriteTakes ==
  ASSUME LoggerInv, G!Write
  PROVE  G!Box!Take
<1>1. PICK x \in G!Line : msg = <<x>>
  BY DEF G!Write, LoggerInv, MsgInv
<1>2. queue_ \in Seq(G!Line) /\ log_file_ \in Seq(G!Line)
  BY DEF LoggerInv, G!TypeOK
<1>3. log_file_' = log_file_ \o <<x>> /\ msg' = << >> /\ UNCHANGED <<queue_, dtor>>
  BY <1>1 DEF G!Write
<1>4. /\ <<x>> \o queue_ # << >>
      /\ Head(<<x>> \o queue_) = x
      /\ Tail(<<x>> \o queue_) = queue_
      /\ log_file_ \o <<x>> = Append(log_file_, x)
      /\ << >> \o queue_ = queue_
  BY <1>2, TakeLine
<1> QED
  BY <1>1, <1>3, <1>4 DEF G!Box!Take

\* A pop moves the line within what the mailbox sees as pending.
LEMMA PopTakesNothing ==
  ASSUME LoggerInv, G!PopTakes
  PROVE  UNCHANGED G!Box!vars
<1>1. queue_ # << >> /\ msg = << >> /\ queue_ \in Seq(G!Line)
  BY DEF G!PopTakes, G!Ready, G!EndOfQueue, LoggerInv, MsgInv, G!TypeOK
<1>2. <<Head(queue_)>> \o Tail(queue_) = << >> \o queue_
  BY <1>1
<1>3. msg' = <<Head(queue_)>> /\ queue_' = Tail(queue_) /\ UNCHANGED <<log_file_, dtor>>
  BY DEF G!PopTakes
<1> QED
  BY <1>1, <1>2, <1>3 DEF G!Box!vars

\* A step of the mailbox, or none.
LEMMA LoggerStepSimulation ==
  ASSUME LoggerInv, [G!Next]_(G!vars)
  PROVE  [G!Box!Next]_(G!Box!vars)
<1>1. ASSUME NEW t \in Thread, G!Log(t) PROVE G!Box!Next
  BY <1>1, LogPuts DEF G!Box!Next
<1>2. CASE G!Write
  BY <1>2, WriteTakes DEF G!Box!Next
<1>3. CASE G!PopTakes
  BY <1>3, PopTakesNothing
<1>4. CASE G!Shutdown
  BY <1>4 DEF G!Shutdown, G!Box!Next, G!Box!Close
<1>5. CASE G!PopWaits \/ G!PopEnds \/ G!SpuriousWakeup
  BY <1>5 DEF G!PopWaits, G!PopEnds, G!SpuriousWakeup, G!Box!vars
<1>6. CASE G!Destructor
  BY <1>6 DEF G!Destructor, G!Join, G!CloseFile, G!Box!vars
<1>7. CASE UNCHANGED G!vars
  BY <1>7 DEF G!vars, G!Box!vars
<1> QED
  BY <1>1, <1>2, <1>3, <1>4, <1>5, <1>6, <1>7 DEF G!Next, G!Worker

\* Every behaviour of the logger is one of the mailbox, its fairness aside.
THEOREM LoggerImplementsMailbox == Spec => G!Box!Init /\ [][G!Box!Next]_(G!Box!vars)
<1>1. Init => G!Box!Init
  <2>1. << >> \o << >> = << >>
    OBVIOUS
  <2> QED
    BY <2>1 DEF Init, G!Init, G!Box!Init
<1>2. LoggerInv /\ [Next]_vars => [G!Box!Next]_(G!Box!vars)
  BY StepsOfOne, LoggerStepSimulation
<1> QED
  BY <1>1, <1>2, LoggerInductiveInvariant, PTL DEF Spec

\* The safety the runs check, for every number of threads and lines: the file, the
\* line in hand and the queue are what was logged, and the closed file has it all.
THEOREM LoggerSafeAlways == Spec => []LoggerSafe
<1>1. G!TypeOK /\ G!WrittenInLogOrder /\ G!ClosedComplete /\ G!NoSleepOnLines => LoggerSafe
  BY DEF LoggerSafe, G!Safe
<1> QED
  BY <1>1, LoggerTypeCorrect, LoggerInLogOrder, LoggerNothingLost, LoggerNoLostWakeup, PTL

-----------------------------------------------------------------------------
(***************************************************************************)
(* Perceptron.  First the sums over finite sets that feed_forward is.       *)
(***************************************************************************)

\* Induction over the numbers, for a set.
LEMMA SetInduction ==
  ASSUME NEW S, 0 \in S, \A n \in Nat : n \in S => n + 1 \in S
  PROVE  Nat \subseteq S
<1> SUFFICES ASSUME Nat \ S # {} PROVE FALSE
  OBVIOUS
<1> DEFINE R == OpToRel(<, Nat)
           U == Nat \ S
<1>1. IsWellFoundedOn(R, Nat)
  BY NatLessThanWellFounded
<1>2. U \subseteq Nat /\ U # {}
  OBVIOUS
<1>3. \A y \in Nat, x \in Nat : y < x => <<y, x>> \in R
  BY DEF OpToRel
<1> HIDE DEF R, U
<1>4. PICK x \in U : \A y \in U : ~(<<y, x>> \in R)
  BY <1>1, <1>2, WFMin
<1>5. x \in Nat /\ x # 0
  BY <1>2 DEF U
<1>6. x - 1 \in Nat /\ x - 1 < x
  BY <1>5
<1>7. x - 1 \notin U
  BY <1>3, <1>4, <1>5, <1>6
<1>8. (x - 1) + 1 \in S
  BY <1>6, <1>7 DEF U
<1> QED
  BY <1>5, <1>8 DEF U

\* g is the function by which the library folds v over S, one element at a time.
Pick(s) == CHOOSE x \in s : TRUE
Folds(g, v, s) == g[s] = IF s = {} THEN 0 ELSE v[Pick(s)] + g[s \ {Pick(s)}]
IsFold(g, v, S) == /\ g = [s \in SUBSET S |-> g[s]]
                   /\ \A s \in SUBSET S : Folds(g, v, s)

\* The sets up to a size, and what one element takes off it.
UpTo(S, n) == {s \in SUBSET S : Cardinality(s) <= n}

LEMMA PickIn ==
  ASSUME NEW s, s # {}
  PROVE  Pick(s) \in s
BY DEF Pick

LEMMA OneLess ==
  ASSUME NEW s, IsFiniteSet(s), NEW x \in s
  PROVE  /\ IsFiniteSet(s \ {x}) /\ Cardinality(s \ {x}) \in Nat
         /\ Cardinality(s) \in Nat /\ Cardinality(s) = Cardinality(s \ {x}) + 1
<1>1. IsFiniteSet(s \ {x}) /\ Cardinality(s \ {x}) = Cardinality(s) - 1
  BY FS_RemoveElement
<1>2. Cardinality(s) \in Nat /\ Cardinality(s \ {x}) \in Nat
  BY <1>1, FS_CardinalityType
<1> QED
  BY <1>1, <1>2

LEMMA FoldExists ==
  ASSUME NEW S, IsFiniteSet(S), NEW v
  PROVE  \E g : IsFold(g, v, S)
<1> DEFINE E == {n \in Nat : \E g : \A s \in UpTo(S, n) : Folds(g, v, s)}
<1>1. \A s \in SUBSET S : IsFiniteSet(s) /\ Cardinality(s) \in Nat /\ Cardinality(s) <= Cardinality(S)
  BY FS_Subset, FS_CardinalityType
<1>2. 0 \in E
  <2> DEFINE g == [s \in {{}} |-> 0]
  <2>1. \A s \in UpTo(S, 0) : s = {}
    BY <1>1, FS_EmptySet DEF UpTo
  <2>2. g[{}] = 0
    OBVIOUS
  <2> HIDE DEF g
  <2>3. \A s \in UpTo(S, 0) : Folds(g, v, s)
    BY <2>1, <2>2 DEF Folds
  <2> QED
    BY <2>3
<1>3. ASSUME NEW n \in Nat, n \in E PROVE n + 1 \in E
  <2>1. PICK g : \A s \in UpTo(S, n) : Folds(g, v, s)
    BY <1>3
  <2> DEFINE h == [s \in UpTo(S, n + 1) |->
                     IF s = {} THEN 0 ELSE v[Pick(s)] + g[s \ {Pick(s)}]]
  <2>2. \A s \in UpTo(S, n) : s \in UpTo(S, n + 1)
    BY <1>1 DEF UpTo
  <2>3. \A s \in UpTo(S, n) : h[s] = g[s]
    BY <2>1, <2>2 DEF Folds
  <2>4. ASSUME NEW s \in UpTo(S, n + 1), s # {} PROVE s \ {Pick(s)} \in UpTo(S, n)
    <3>1. Pick(s) \in s /\ IsFiniteSet(s) /\ s \in SUBSET S /\ Cardinality(s) <= n + 1
      BY <1>1, <2>4, PickIn DEF UpTo
    <3>2. Cardinality(s \ {Pick(s)}) \in Nat /\ Cardinality(s) = Cardinality(s \ {Pick(s)}) + 1
      BY <3>1, OneLess
    <3>3. s \ {Pick(s)} \in SUBSET S
      BY <3>1
    <3>4. Cardinality(s \ {Pick(s)}) <= n
      BY <3>1, <3>2
    <3> QED
      BY <3>3, <3>4 DEF UpTo
  <2>5. \A s \in UpTo(S, n + 1) : h[s] = IF s = {} THEN 0 ELSE v[Pick(s)] + g[s \ {Pick(s)}]
    OBVIOUS
  <2> HIDE DEF h
  <2>6. ASSUME NEW s \in UpTo(S, n + 1) PROVE Folds(h, v, s)
    <3>1. CASE s = {}
      BY <2>5, <3>1 DEF Folds
    <3>2. CASE s # {}
      <4>1. h[s] = v[Pick(s)] + g[s \ {Pick(s)}]
        BY <2>5, <3>2
      <4>2. h[s \ {Pick(s)}] = g[s \ {Pick(s)}]
        BY <2>3, <2>4, <3>2
      <4> QED
        BY <3>2, <4>1, <4>2 DEF Folds
    <3> QED
      BY <3>1, <3>2
  <2> QED
    BY <2>6
<1> HIDE DEF E
<1>4. Nat \subseteq E
  BY <1>2, <1>3, SetInduction
<1>5. Cardinality(S) \in E
  BY <1>4, FS_CardinalityType
<1>6. PICK g : \A s \in UpTo(S, Cardinality(S)) : Folds(g, v, s)
  BY <1>5 DEF E
<1>7. \A s \in SUBSET S : s \in UpTo(S, Cardinality(S)) /\ s \ {Pick(s)} \in SUBSET S
  BY <1>1 DEF UpTo
<1> DEFINE h == [s \in SUBSET S |-> g[s]]
<1>8. \A s \in SUBSET S : h[s] = g[s]
  OBVIOUS
<1>a. h = [s \in SUBSET S |-> h[s]]
  OBVIOUS
<1> HIDE DEF h
<1>9. \A s \in SUBSET S : Folds(h, v, s)
  BY <1>6, <1>7, <1>8 DEF Folds
<1> QED
  BY <1>9, <1>a DEF IsFold

\* A sum is the same whatever larger set it is folded within.
LEMMA FoldUnique ==
  ASSUME NEW S, IsFiniteSet(S), NEW U, NEW v, NEW w, NEW g, NEW h,
         IsFold(g, v, S), IsFold(h, w, U)
  PROVE  \A s \in SUBSET (S \cap U) : (\A x \in s : v[x] = w[x]) => g[s] = h[s]
<1> DEFINE E == {n \in Nat : \A s \in SUBSET (S \cap U) :
                               Cardinality(s) = n /\ (\A x \in s : v[x] = w[x]) => g[s] = h[s]}
<1>1. \A s \in SUBSET (S \cap U) : s \in SUBSET S /\ s \in SUBSET U /\ IsFiniteSet(s)
                                   /\ Cardinality(s) \in Nat
  BY FS_Subset, FS_CardinalityType
<1>2. 0 \in E
  <2>1. \A s \in SUBSET (S \cap U) : Cardinality(s) = 0 => s = {}
    BY <1>1, FS_EmptySet
  <2> QED
    BY <1>1, <2>1 DEF IsFold, Folds
<1>3. ASSUME NEW n \in Nat, n \in E PROVE n + 1 \in E
  <2> SUFFICES ASSUME NEW s \in SUBSET (S \cap U), Cardinality(s) = n + 1,
                      \A x \in s : v[x] = w[x]
               PROVE  g[s] = h[s]
    OBVIOUS
  <2>1. s # {}
    BY <1>1, FS_EmptySet
  <2>2. Pick(s) \in s
    BY <2>1, PickIn
  <2>3. /\ s \ {Pick(s)} \in SUBSET (S \cap U) /\ Cardinality(s \ {Pick(s)}) = n
        /\ \A x \in s \ {Pick(s)} : v[x] = w[x]
    <3>1. Cardinality(s \ {Pick(s)}) \in Nat /\ Cardinality(s) = Cardinality(s \ {Pick(s)}) + 1
      BY <1>1, <2>2, OneLess
    <3> QED
      BY <3>1
  <2>4. g[s \ {Pick(s)}] = h[s \ {Pick(s)}]
    BY <1>3, <2>3
  <2>5. g[s] = v[Pick(s)] + g[s \ {Pick(s)}] /\ h[s] = w[Pick(s)] + h[s \ {Pick(s)}]
    BY <1>1, <2>1 DEF IsFold, Folds
  <2> QED
    BY <2>2, <2>4, <2>5
<1> HIDE DEF E
<1>4. Nat \subseteq E
  BY <1>2, <1>3, SetInduction
<1>5. ASSUME NEW s \in SUBSET (S \cap U), \A x \in s : v[x] = w[x] PROVE g[s] = h[s]
  <2>1. Cardinality(s) \in E
    BY <1>1, <1>4
  <2> QED
    BY <1>5, <2>1 DEF E
<1> QED
  BY <1>5

\* The sum of v over S.
Total(v, S) == (CHOOSE g : IsFold(g, v, S))[S]

LEMMA TotalOf ==
  ASSUME NEW S, IsFiniteSet(S), NEW v, NEW g, IsFold(g, v, S)
  PROVE  g[S] = Total(v, S)
<1> DEFINE h == CHOOSE f : IsFold(f, v, S)
<1>1. IsFold(h, v, S)
  OBVIOUS
<1> HIDE DEF h
<1>2. g[S] = h[S]
  BY <1>1, FoldUnique
<1> QED
  BY <1>2 DEF Total, h

LEMMA TotalEqual ==
  ASSUME NEW S, IsFiniteSet(S), NEW v, NEW w, \A x \in S : v[x] = w[x]
  PROVE  Total(v, S) = Total(w, S)
<1> DEFINE g == CHOOSE f : IsFold(f, v, S)
           h == CHOOSE f : IsFold(f, w, S)
<1>1. IsFold(g, v, S) /\ IsFold(h, w, S)
  BY FoldExists
<1> HIDE DEF g, h
<1>2. g[S] = h[S]
  BY <1>1, FoldUnique
<1> QED
  BY <1>2 DEF Total, g, h

LEMMA TotalEmpty ==
  ASSUME NEW v
  PROVE  Total(v, {}) = 0
<1> DEFINE g == CHOOSE f : IsFold(f, v, {})
<1>1. IsFold(g, v, {})
  BY FoldExists, FS_EmptySet
<1> HIDE DEF g
<1>2. g[{}] = 0
  BY <1>1 DEF IsFold, Folds
<1> QED
  BY <1>2 DEF Total, g

\* The element that the fold chooses.
LEMMA TotalPick ==
  ASSUME NEW S, IsFiniteSet(S), S # {}, NEW v
  PROVE  Total(v, S) = v[Pick(S)] + Total(v, S \ {Pick(S)})
<1> DEFINE rest == S \ {Pick(S)}
           g == CHOOSE f : IsFold(f, v, S)
           h == CHOOSE f : IsFold(f, v, rest)
<1>1. IsFiniteSet(rest) /\ rest \subseteq S
  BY PickIn, OneLess
<1>2. IsFold(g, v, S) /\ IsFold(h, v, rest)
  BY <1>1, FoldExists
<1>3. g[S] = v[Pick(S)] + g[rest]
  BY <1>2 DEF IsFold, Folds
<1> HIDE DEF g, h, rest
<1>4. g[rest] = h[rest]
  BY <1>1, <1>2, FoldUnique
<1> QED
  BY <1>3, <1>4 DEF Total, g, h, rest

\* Any element may be taken off a sum of integers.
LEMMA TotalRemove ==
  ASSUME NEW S, IsFiniteSet(S), NEW v, \A x \in S : v[x] \in Int
  PROVE  /\ Total(v, S) \in Int
         /\ \A x \in S : Total(v, S) = v[x] + Total(v, S \ {x})
<1> DEFINE Splits(s) == /\ Total(v, s) \in Int
                        /\ \A x \in s : Total(v, s) = v[x] + Total(v, s \ {x})
           E == {n \in Nat : \A s \in SUBSET S : Cardinality(s) <= n => Splits(s)}
<1>1. \A s \in SUBSET S : IsFiniteSet(s) /\ Cardinality(s) \in Nat
  BY FS_Subset, FS_CardinalityType
<1>2. 0 \in E
  <2>1. \A s \in SUBSET S : Cardinality(s) <= 0 => s = {}
    BY <1>1, FS_EmptySet
  <2>2. Splits({})
    BY TotalEmpty
  <2> HIDE DEF Splits
  <2> QED
    BY <2>1, <2>2
<1>3. ASSUME NEW n \in Nat, n \in E PROVE n + 1 \in E
  <2> SUFFICES ASSUME NEW s \in SUBSET S, Cardinality(s) <= n + 1, s # {}
               PROVE  Splits(s)
    BY TotalEmpty
  <2> DEFINE p == Pick(s)
             Less(x) == s \ {x}
  <2>1. s # {} /\ p \in s
    BY <1>1, FS_EmptySet, PickIn
  <2>2. \A t \in SUBSET S : Cardinality(t) <= n => Splits(t)
    BY <1>3
  <2>3. ASSUME NEW x \in s PROVE Less(x) \in SUBSET S /\ Cardinality(Less(x)) <= n /\ v[x] \in Int
    <3>1. Cardinality(Less(x)) \in Nat /\ Cardinality(s) = Cardinality(Less(x)) + 1
      BY <1>1, OneLess
    <3> QED
      BY <3>1
  <2>4. Total(v, s) = v[p] + Total(v, Less(p))
    BY <1>1, <2>1, TotalPick
  <2>5. Total(v, s) \in Int
    BY <2>1, <2>2, <2>3, <2>4
  <2>6. ASSUME NEW x \in s, x # p PROVE Total(v, s) = v[x] + Total(v, Less(x))
    <3> DEFINE both == s \ {x, p}
    <3>1. /\ Less(p) \ {x} = both /\ Less(x) \ {p} = both /\ x \in Less(p) /\ p \in Less(x)
          /\ both \in SUBSET S /\ Cardinality(both) <= n
      <4>1. Less(p) \ {x} = both /\ Less(x) \ {p} = both /\ x \in Less(p) /\ p \in Less(x)
        BY <2>1, <2>6
      <4>2. Cardinality(Less(p)) = Cardinality(both) + 1 /\ Cardinality(both) \in Nat
        BY <1>1, <2>1, <2>3, <4>1, OneLess
      <4> QED
        BY <2>1, <2>3, <4>1, <4>2
    <3>2. Total(v, both) \in Int /\ v[x] \in Int /\ v[p] \in Int
      BY <2>1, <2>2, <2>3, <3>1
    <3>3. /\ Total(v, Less(p)) = v[x] + Total(v, both)
          /\ Total(v, Less(x)) = v[p] + Total(v, both)
      BY <2>1, <2>2, <2>3, <3>1
    <3> QED
      BY <2>1, <2>3, <2>4, <3>2, <3>3
  <2> QED
    BY <2>4, <2>5, <2>6
<1> HIDE DEF E
<1>4. Nat \subseteq E
  BY <1>2, <1>3, SetInduction
<1>5. Cardinality(S) \in E
  BY <1>4, FS_CardinalityType
<1> QED
  BY <1>5 DEF E

\* A sum of zeros.
LEMMA TotalZero ==
  ASSUME NEW S, IsFiniteSet(S), NEW v, \A x \in S : v[x] = 0
  PROVE  Total(v, S) = 0
<1> DEFINE E == {n \in Nat : \A s \in SUBSET S : Cardinality(s) = n => Total(v, s) = 0}
<1>1. \A s \in SUBSET S : IsFiniteSet(s) /\ Cardinality(s) \in Nat
  BY FS_Subset, FS_CardinalityType
<1>2. 0 \in E
  <2>1. \A s \in SUBSET S : Cardinality(s) = 0 => s = {}
    BY <1>1, FS_EmptySet
  <2> QED
    BY <2>1, TotalEmpty
<1>3. ASSUME NEW n \in Nat, n \in E PROVE n + 1 \in E
  <2> SUFFICES ASSUME NEW s \in SUBSET S, Cardinality(s) = n + 1
               PROVE  Total(v, s) = 0
    OBVIOUS
  <2>1. s # {}
    BY <1>1, FS_EmptySet
  <2> DEFINE p == Pick(s)
             t == s \ {p}
  <2>2. p \in s
    BY <2>1, PickIn
  <2>3. Cardinality(t) \in Nat /\ Cardinality(s) = Cardinality(t) + 1
    BY <1>1, <2>2, OneLess
  <2>4. Total(v, t) = 0
    BY <1>3, <2>3
  <2>5. Total(v, s) = v[p] + Total(v, t)
    BY <1>1, <2>1, TotalPick
  <2> QED
    BY <2>2, <2>4, <2>5
<1> HIDE DEF E
<1>4. Nat \subseteq E
  BY <1>2, <1>3, SetInduction
<1>5. Cardinality(S) \in E
  BY <1>4, FS_CardinalityType
<1> QED
  BY <1>5 DEF E

-----------------------------------------------------------------------------
(* The score and the square of the weights are such sums. *)

LEMMA FeedForwardIs ==
  ASSUME NEW inputs, IsFiniteSet(inputs)
  PROVE  P!feed_forward(inputs) = Total(weights, inputs)
<1> DEFINE Body(g) == [s \in SUBSET inputs |->
                         IF s = {} THEN 0
                         ELSE weights[CHOOSE x \in s : TRUE] + g[s \ {CHOOSE x \in s : TRUE}]]
           h == CHOOSE g : g = Body(g)
<1>1. P!feed_forward(inputs) = h[inputs]
  BY Zenon DEF P!feed_forward, P!MapThenSumSet, P!MapThenFoldSet
<1>2. \A g : IsFold(g, weights, inputs) <=> g = Body(g)
  <2> TAKE g
  <2>1. ASSUME IsFold(g, weights, inputs) PROVE g = Body(g)
    <3>1. \A s \in SUBSET inputs : g[s] = Body(g)[s]
      BY <2>1 DEF IsFold, Folds, Pick
    <3> HIDE DEF Body
    <3>2. g = [s \in SUBSET inputs |-> g[s]]
      BY <2>1 DEF IsFold
    <3>3. Body(g) = [s \in SUBSET inputs |-> Body(g)[s]]
      BY DEF Body
    <3> QED
      BY <3>1, <3>2, <3>3
  <2>2. ASSUME g = Body(g) PROVE IsFold(g, weights, inputs)
    BY <2>2 DEF IsFold, Folds, Pick
  <2> QED
    BY <2>1, <2>2
<1> HIDE DEF Body
<1>3. IsFold(h, weights, inputs)
  BY <1>2, FoldExists
<1> HIDE DEF h
<1> QED
  BY <1>1, <1>3, TotalOf

Squares == [c \in P!Cells |-> weights[c] * weights[c]]

LEMMA NormIs ==
  ASSUME IsFiniteSet(P!Cells)
  PROVE  P!Norm = Total(Squares, P!Cells)
<1> DEFINE Body(g) == [s \in SUBSET P!Cells |->
                         IF s = {} THEN 0
                         ELSE (weights[CHOOSE x \in s : TRUE] * weights[CHOOSE x \in s : TRUE])
                                + g[s \ {CHOOSE x \in s : TRUE}]]
           h == CHOOSE g : g = Body(g)
<1>1. P!Norm = h[P!Cells]
  BY Zenon DEF P!Norm, P!MapThenSumSet, P!MapThenFoldSet
<1>2. \A g : IsFold(g, Squares, P!Cells) <=> g = Body(g)
  <2> TAKE g
  <2>0. \A s \in SUBSET P!Cells : s # {} => Squares[Pick(s)] = weights[Pick(s)] * weights[Pick(s)]
    BY PickIn DEF Squares
  <2>1. ASSUME IsFold(g, Squares, P!Cells) PROVE g = Body(g)
    <3>1. \A s \in SUBSET P!Cells : g[s] = Body(g)[s]
      BY <2>0, <2>1 DEF IsFold, Folds, Pick
    <3> HIDE DEF Body
    <3>2. g = [s \in SUBSET P!Cells |-> g[s]]
      BY <2>1 DEF IsFold
    <3>3. Body(g) = [s \in SUBSET P!Cells |-> Body(g)[s]]
      BY DEF Body
    <3> QED
      BY <3>1, <3>2, <3>3
  <2>2. ASSUME g = Body(g) PROVE IsFold(g, Squares, P!Cells)
    BY <2>0, <2>2 DEF IsFold, Folds, Pick
  <2> QED
    BY <2>1, <2>2
<1> HIDE DEF Body
<1>3. IsFold(h, Squares, P!Cells)
  BY <1>2, FoldExists
<1> HIDE DEF h
<1> QED
  BY <1>1, <1>3, TotalOf

-----------------------------------------------------------------------------
\* One weight.
LEMMA Square ==
  ASSUME NEW a \in Int, NEW by \in {1, -1}
  PROVE  (a + by) * (a + by) = a * a + 2 * by * a + 1
<1>1. CASE by = 1
  <2>1. (a + 1) * (a + 1) = a * a + 2 * a + 1
    OBVIOUS
  <2> QED
    BY <1>1, <2>1
<1>2. CASE by = -1
  <2>1. (a - 1) * (a - 1) = a * a - 2 * a + 1
    OBVIOUS
  <2>2. a + by = a - 1 /\ 2 * by * a = -2 * a
    BY <1>2
  <2> QED
    BY <2>1, <2>2
<1> QED
  BY <1>1, <1>2

LEMMA Regroup ==
  ASSUME NEW a \in Int, NEW b \in Int, NEW k \in Int, NEW u \in Int, NEW v \in Int,
         NEW p \in Int, NEW by \in {1, -1}, v = u + 2 * by * b + k
  PROVE  p + 2 * by * a + 1 + v = (p + u) + 2 * by * (a + b) + (k + 1)
<1>1. CASE by = 1
  BY <1>1
<1>2. CASE by = -1
  <2>1. \A z \in Int : 2 * by * z = -2 * z
    BY <1>2
  <2>2. a + b \in Int
    OBVIOUS
  <2> QED
    BY <2>1, <2>2
<1> QED
  BY <1>1, <1>2

\* The squares of weights before and after a correction of the cells of a sample.
Corrected(C, I, by, w, q, r) ==
  /\ \A c \in C : w[c] \in Int /\ q[c] = w[c] * w[c]
  /\ \A c \in C : r[c] = IF c \in I THEN (w[c] + by) * (w[c] + by) ELSE w[c] * w[c]

\* How a correction of the cells of a sample by 1 or -1 changes the squares: by
\* twice its score, with that sign, and its area.
LEMMA SquaresGrow ==
  ASSUME NEW C, IsFiniteSet(C), NEW I \in SUBSET C, NEW by \in {1, -1},
         NEW w, NEW q, NEW r, Corrected(C, I, by, w, q, r)
  PROVE  /\ Total(w, I) \in Int /\ Total(q, C) \in Int /\ Cardinality(I) \in Nat
         /\ Total(r, C) = Total(q, C) + 2 * by * Total(w, I) + Cardinality(I)
<1> DEFINE Grows(s) == Total(r, s) = Total(q, s) + 2 * by * Total(w, s \cap I) + Cardinality(s \cap I)
           E == {n \in Nat : \A s \in SUBSET C : Cardinality(s) = n => Grows(s)}
<1>1. \A s \in SUBSET C : IsFiniteSet(s) /\ Cardinality(s) \in Nat
  BY FS_Subset, FS_CardinalityType
<1>2. \A c \in C : w[c] \in Int /\ q[c] \in Int /\ r[c] \in Int
  <2>1. \A a \in Int : a * a \in Int /\ (a + by) * (a + by) \in Int
    OBVIOUS
  <2> QED
    BY <2>1 DEF Corrected
<1>3. ASSUME NEW s \in SUBSET C
      PROVE  /\ Total(q, s) \in Int /\ Total(r, s) \in Int
             /\ Total(w, s \cap I) \in Int /\ Cardinality(s \cap I) \in Nat
             /\ \A x \in s : Total(q, s) = q[x] + Total(q, s \ {x})
             /\ \A x \in s : Total(r, s) = r[x] + Total(r, s \ {x})
             /\ \A x \in s \cap I : Total(w, s \cap I) = w[x] + Total(w, (s \cap I) \ {x})
  <2>1. s \cap I \in SUBSET C
    OBVIOUS
  <2>2. IsFiniteSet(s) /\ IsFiniteSet(s \cap I) /\ Cardinality(s \cap I) \in Nat
    BY <1>1, <2>1
  <2>3. Total(q, s) \in Int /\ \A x \in s : Total(q, s) = q[x] + Total(q, s \ {x})
    BY <1>2, <2>2, TotalRemove
  <2>4. Total(r, s) \in Int /\ \A x \in s : Total(r, s) = r[x] + Total(r, s \ {x})
    BY <1>2, <2>2, TotalRemove
  <2> DEFINE m == s \cap I
  <2>5. Total(w, m) \in Int /\ \A x \in m : Total(w, m) = w[x] + Total(w, m \ {x})
    <3>1. IsFiniteSet(m) /\ \A x \in m : w[x] \in Int
      BY <1>2, <2>1, <2>2
    <3> HIDE DEF m
    <3> QED
      BY <3>1, TotalRemove
  <2> QED
    BY <2>2, <2>3, <2>4, <2>5
<1>4. 0 \in E
  <2>1. \A s \in SUBSET C : Cardinality(s) = 0 => s = {}
    BY <1>1, FS_EmptySet
  <2>2. {} \cap I = {} /\ Cardinality({}) = 0
    BY FS_EmptySet
  <2>3. Grows({})
    BY <2>2, TotalEmpty
  <2> HIDE DEF Grows
  <2> QED
    BY <2>1, <2>3
<1>5. ASSUME NEW n \in Nat, n \in E PROVE n + 1 \in E
  <2> SUFFICES ASSUME NEW s \in SUBSET C, Cardinality(s) = n + 1
               PROVE  Grows(s)
    OBVIOUS
  <2>1. s # {}
    BY <1>1, FS_EmptySet
  <2>2. PICK x \in s : TRUE
    BY <2>1
  <2> DEFINE t == s \ {x}
  <2>3. t \in SUBSET C /\ Cardinality(t) = n
    <3>1. Cardinality(t) \in Nat /\ Cardinality(s) = Cardinality(t) + 1
      BY <1>1, OneLess
    <3> QED
      BY <3>1
  <2>4. Grows(t)
    BY <1>5, <2>3
  <2>5. /\ Total(q, s) = q[x] + Total(q, t) /\ Total(r, s) = r[x] + Total(r, t)
        /\ Total(q, t) \in Int /\ Total(r, t) \in Int
        /\ Total(w, t \cap I) \in Int /\ Cardinality(t \cap I) \in Nat
        /\ w[x] \in Int /\ q[x] = w[x] * w[x]
    BY <1>3, <2>3 DEF Corrected
  <2>6. CASE x \notin I
    <3>1. s \cap I = t \cap I /\ r[x] = q[x]
      BY <2>5, <2>6 DEF Corrected
    <3> DEFINE b == Total(w, t \cap I)
               k == Cardinality(t \cap I)
               u == Total(q, t)
               v == Total(r, t)
    <3>2. b \in Int /\ k \in Int /\ u \in Int /\ v \in Int /\ q[x] \in Int /\ 2 * by * b \in Int
      BY <1>2, <2>5
    <3>3. v = u + 2 * by * b + k
      BY <2>4
    <3>4. Total(q, s) = q[x] + u /\ Total(r, s) = q[x] + v
      BY <2>5, <3>1
    <3>5. Grows(s) <=> Total(r, s) = Total(q, s) + 2 * by * b + k
      BY <3>1
    <3> HIDE DEF b, k, u, v, Grows
    <3>6. q[x] + v = (q[x] + u) + 2 * by * b + k
      BY <3>2, <3>3
    <3> QED
      BY <3>4, <3>5, <3>6
  <2>7. CASE x \in I
    <3>1. (s \cap I) \ {x} = t \cap I /\ x \in s \cap I
      BY <2>7
    <3>2. Total(w, s \cap I) = w[x] + Total(w, t \cap I)
      <4>1. \A y \in s \cap I : Total(w, s \cap I) = w[y] + Total(w, (s \cap I) \ {y})
        BY <1>3
      <4> QED
        BY <3>1, <4>1, Zenon
    <3>3. Cardinality(s \cap I) = Cardinality(t \cap I) + 1
      <4>1. IsFiniteSet(s \cap I)
        BY <1>1
      <4> QED
        BY <3>1, <4>1, OneLess
    <3>4. r[x] = (w[x] + by) * (w[x] + by)
      BY <2>7 DEF Corrected
    <3> DEFINE a == w[x]
               b == Total(w, t \cap I)
               k == Cardinality(t \cap I)
               u == Total(q, t)
               v == Total(r, t)
    <3>5. /\ a \in Int /\ b \in Int /\ k \in Int /\ u \in Int /\ v \in Int
          /\ v = u + 2 * by * b + k
      BY <2>4, <2>5
    <3>6. (a + by) * (a + by) = a * a + 2 * by * a + 1
      BY <3>5, Square
    <3>7. Total(q, s) = a * a + u /\ Total(r, s) = a * a + 2 * by * a + 1 + v
      BY <2>5, <3>4, <3>6
    <3>8. Total(w, s \cap I) = a + b /\ Cardinality(s \cap I) = k + 1
      BY <3>2, <3>3
    <3>9. \E p \in Int : p = a * a
      BY <3>5
    <3> HIDE DEF a, b, k, u, v
    <3>10. PICK p \in Int : p = a * a
      BY <3>9
    <3>11. p + 2 * by * a + 1 + v = (p + u) + 2 * by * (a + b) + (k + 1)
      BY <3>5, Regroup
    <3> QED
      BY <3>7, <3>8, <3>10, <3>11
  <2> QED
    BY <2>6, <2>7
<1> HIDE DEF E, Grows
<1>6. Nat \subseteq E
  BY <1>4, <1>5, SetInduction
<1>7. Cardinality(C) \in E
  BY <1>6, FS_CardinalityType
<1>8. Grows(C)
  BY <1>7 DEF E
<1>9. C \cap I = I
  OBVIOUS
<1> QED
  BY <1>3, <1>8, <1>9 DEF Grows

-----------------------------------------------------------------------------
(* The samples. *)

\* Perceptron's instance of Cardinality.
LEMMA SizeIs ==
  ASSUME NEW s
  PROVE  P!Cardinality(s) = Cardinality(s)
BY Zenon DEF P!Cardinality, Cardinality

\* The least of the distances of a centre to the four sides.
LEMMA LeastOfFour ==
  ASSUME NEW a \in Int, NEW b \in Int, NEW c \in Int, NEW d \in Int
  PROVE  /\ P!Min({a, b, c, d}) \in Int
         /\ P!Min({a, b, c, d}) <= a /\ P!Min({a, b, c, d}) <= b
         /\ P!Min({a, b, c, d}) <= c /\ P!Min({a, b, c, d}) <= d
<1> DEFINE S == {a, b, c, d}
<1>1. P!Min(S) = CHOOSE m \in S : \A y \in S : m <= y
  BY Zenon DEF P!Min
<1>2. \E m \in S : \A y \in S : m <= y
  <2> DEFINE e == IF a <= b THEN a ELSE b
             f == IF c <= d THEN c ELSE d
             m == IF e <= f THEN e ELSE f
  <2>1. m \in S /\ m <= a /\ m <= b /\ m <= c /\ m <= d
    OBVIOUS
  <2> QED
    BY <2>1
<1>3. P!Min(S) \in S /\ \A y \in S : P!Min(S) <= y
  BY <1>1, <1>2, Zenon
<1> QED
  BY <1>3

LEMMA CellsFinite ==
  ASSUME P!PerceptronAssumption
  PROVE  IsFiniteSet(P!Cells)
<1>1. IsFiniteSet(0..WIDTH - 1) /\ IsFiniteSet(0..HEIGHT - 1)
  BY FS_Interval DEF P!PerceptronAssumption
<1> QED
  BY <1>1, FS_Product DEF P!Cells

LEMMA CellIs ==
  ASSUME NEW c \in P!Cells
  PROVE  c[1] \in 0..WIDTH - 1 /\ c[2] \in 0..HEIGHT - 1
BY DEF P!Cells

\* A rectangle that is drawn lies inside the layer.
LEMMA RectIs ==
  ASSUME P!PerceptronAssumption, NEW q \in P!Rects
  PROVE  /\ P!layer_fill_rect(q[1][1], q[1][2], q[2], q[3]) \in SUBSET P!Cells
         /\ P!Cardinality(P!layer_fill_rect(q[1][1], q[1][2], q[2], q[3])) = q[2] * q[3]
<1> DEFINE x == q[1][1]
           y == q[1][2]
           w == q[2]
           h == q[3]
<1>1. /\ q \in P!Cells \X (1..WIDTH) \X (1..HEIGHT)
      /\ w \in 1..P!AtLeastTwo(WIDTH - x) - 1 /\ h \in 1..P!AtLeastTwo(HEIGHT - y) - 1
  BY DEF P!Rects, P!rand_range
<1>2. /\ x \in 0..WIDTH - 1 /\ y \in 0..HEIGHT - 1 /\ w \in Nat /\ h \in Nat /\ w >= 1 /\ h >= 1
      /\ WIDTH \in Nat /\ HEIGHT \in Nat
  <2>1. q[1] \in P!Cells /\ w \in 1..WIDTH /\ h \in 1..HEIGHT
    BY <1>1
  <2> QED
    BY <2>1, CellIs DEF P!PerceptronAssumption
<1>3. x + w - 1 <= WIDTH - 1 /\ y + h - 1 <= HEIGHT - 1
  BY <1>1, <1>2 DEF P!AtLeastTwo
<1> HIDE DEF x, y, w, h
<1>4. P!layer_fill_rect(x, y, w, h) = (x..x + w - 1) \X (y..y + h - 1)
  <2>1. /\ P!clampi(x, 0, WIDTH - 1) = x /\ P!clampi(y, 0, HEIGHT - 1) = y
        /\ P!clampi(x + w - 1, 0, WIDTH - 1) = x + w - 1
        /\ P!clampi(y + h - 1, 0, HEIGHT - 1) = y + h - 1
    BY <1>2, <1>3 DEF P!clampi
  <2> QED
    BY <2>1 DEF P!layer_fill_rect
<1>5. P!layer_fill_rect(x, y, w, h) \in SUBSET P!Cells
  BY <1>2, <1>3, <1>4 DEF P!Cells
<1>6. Cardinality((x..x + w - 1) \X (y..y + h - 1)) = w * h
  <2>1. /\ IsFiniteSet(x..x + w - 1) /\ Cardinality(x..x + w - 1) = w
        /\ IsFiniteSet(y..y + h - 1) /\ Cardinality(y..y + h - 1) = h
    <3>1. /\ x \in Int /\ x + w - 1 \in Int /\ y \in Int /\ y + h - 1 \in Int
          /\ ~(x > x + w - 1) /\ (x + w - 1) - x + 1 = w
          /\ ~(y > y + h - 1) /\ (y + h - 1) - y + 1 = h
      BY <1>2
    <3>2. IsFiniteSet(x..x + w - 1) /\ Cardinality(x..x + w - 1) = (x + w - 1) - x + 1
      BY <3>1, FS_Interval
    <3>3. IsFiniteSet(y..y + h - 1) /\ Cardinality(y..y + h - 1) = (y + h - 1) - y + 1
      BY <3>1, FS_Interval
    <3> QED
      BY <3>1, <3>2, <3>3
  <2> DEFINE S == x..x + w - 1
             U == y..y + h - 1
  <2>2. IsFiniteSet(S) /\ IsFiniteSet(U) /\ Cardinality(S) = w /\ Cardinality(U) = h
    BY <2>1
  <2> HIDE DEF S, U
  <2>3. Cardinality(S \X U) = Cardinality(S) * Cardinality(U)
    BY <2>2, FS_Product
  <2>4. Cardinality(S \X U) = w * h
    BY <2>2, <2>3, Zenon
  <2> QED
    BY <2>4 DEF S, U
<1> QED
  BY <1>4, <1>5, <1>6, SizeIs DEF x, y, w, h

\* A circle that is drawn is clipped to the layer, and whole from radius two on.
LEMMA CircleIs ==
  ASSUME P!PerceptronAssumption, NEW q \in P!Circles
  PROVE  /\ P!layer_fill_circle(q[1][1], q[1][2], q[2]) \in SUBSET P!Cells
         /\ q[1] \in P!Cells
         /\ q[2] > 1 => /\ q[1][1] - q[2] >= 0 /\ q[1][1] + q[2] < WIDTH
                        /\ q[1][2] - q[2] >= 0 /\ q[1][2] + q[2] < HEIGHT
<1> DEFINE x == q[1][1]
           y == q[1][2]
           r == q[2]
           k == P!Min({x, y, WIDTH - x, HEIGHT - y})
<1>1. /\ q[1] \in P!Cells /\ r \in 1..WIDTH /\ r \in 1..P!AtLeastTwo(k) - 1
  BY DEF P!Circles, P!rand_range
<1>2. x \in 0..WIDTH - 1 /\ y \in 0..HEIGHT - 1 /\ WIDTH \in Nat /\ HEIGHT \in Nat /\ r \in Nat
  BY <1>1, CellIs DEF P!PerceptronAssumption
<1> HIDE DEF x, y, r
<1>3. k \in Int /\ k <= x /\ k <= y /\ k <= WIDTH - x /\ k <= HEIGHT - y
  <2>1. x \in Int /\ y \in Int /\ WIDTH - x \in Int /\ HEIGHT - y \in Int
    BY <1>2
  <2> QED
    BY <2>1, LeastOfFour
<1> HIDE DEF k
<1>4. r > 1 => x - r >= 0 /\ x + r < WIDTH /\ y - r >= 0 /\ y + r < HEIGHT
  BY <1>1, <1>2, <1>3 DEF P!AtLeastTwo
<1>5. P!layer_fill_circle(x, y, r) \in SUBSET P!Cells
  <2>1. \A a \in Int : /\ P!clampi(a, 0, WIDTH - 1) \in 0..WIDTH - 1
                       /\ P!clampi(a, 0, HEIGHT - 1) \in 0..HEIGHT - 1
    BY <1>2 DEF P!clampi, P!PerceptronAssumption
  <2>2. /\ (P!clampi(x - r, 0, WIDTH - 1)..P!clampi(x + r, 0, WIDTH - 1)) \subseteq 0..WIDTH - 1
        /\ (P!clampi(y - r, 0, HEIGHT - 1)..P!clampi(y + r, 0, HEIGHT - 1)) \subseteq 0..HEIGHT - 1
    <3>1. x - r \in Int /\ x + r \in Int /\ y - r \in Int /\ y + r \in Int
      BY <1>2
    <3> QED
      BY <1>2, <2>1, <3>1
  <2> QED
    BY <2>2 DEF P!layer_fill_circle, P!Cells
<1> QED
  BY <1>1, <1>4, <1>5 DEF x, y, r

\* Every cell is the corner of a rectangle and the centre of a circle.
LEMMA EveryCellDrawn ==
  ASSUME P!PerceptronAssumption
  PROVE  {q[1] : q \in P!Rects} = P!Cells /\ {q[1] : q \in P!Circles} = P!Cells
<1>1. {q[1] : q \in P!Rects} \subseteq P!Cells /\ {q[1] : q \in P!Circles} \subseteq P!Cells
  BY DEF P!Rects, P!Circles
<1>2. 1 \in 1..WIDTH /\ 1 \in 1..HEIGHT
  BY DEF P!PerceptronAssumption
<1>3. \A k \in Int : 1 \in 1..P!AtLeastTwo(k) - 1
  BY DEF P!AtLeastTwo
<1>4. ASSUME NEW c \in P!Cells
      PROVE  (\E q \in P!Rects : q[1] = c) /\ (\E q \in P!Circles : q[1] = c)
  <2>1. /\ c[1] \in Int /\ c[2] \in Int /\ WIDTH - c[1] \in Int /\ HEIGHT - c[2] \in Int
    BY CellIs DEF P!PerceptronAssumption
  <2>2. P!Min({c[1], c[2], WIDTH - c[1], HEIGHT - c[2]}) \in Int
    BY <2>1, LeastOfFour
  <2>3. <<c, 1, 1>> \in P!Rects
    BY <1>2, <1>3, <2>1 DEF P!Rects, P!rand_range
  <2>4. <<c, 1>> \in P!Circles
    BY <1>2, <1>3, <2>2 DEF P!Circles, P!rand_range
  <2> QED
    BY <2>3, <2>4
<1> QED
  BY <1>1, <1>4

LEMMA SamplesFitIs == P!PerceptronAssumption => P!SamplesFit
<1> SUFFICES ASSUME P!PerceptronAssumption PROVE P!SamplesFit
  OBVIOUS
<1>1. \A q \in P!Rects : P!Cardinality(P!layer_fill_rect(q[1][1], q[1][2], q[2], q[3])) = q[2] * q[3]
  BY RectIs
<1>2. \A q \in P!Circles : q[2] > 1 =>
       /\ q[1][1] - q[2] >= 0 /\ q[1][1] + q[2] < WIDTH
       /\ q[1][2] - q[2] >= 0 /\ q[1][2] + q[2] < HEIGHT
  BY CircleIs
<1> QED
  BY <1>1, <1>2, EveryCellDrawn, Zenon DEF P!SamplesFit

-----------------------------------------------------------------------------
(* The corrections. *)

\* What corrections do to the bound besides their area.
Gains(k) == 2 * (BIAS - 1) * k
Losses(k) == 2 * (BIAS + 1) * k

PerceptronInv == /\ weights \in [P!Cells -> Int]
                 /\ added \in Nat /\ subtracted \in Nat /\ area \in Nat
                 /\ P!Norm \in Int
                 /\ P!Norm <= area + Gains(added) - Losses(subtracted)

LEMMA GainsNext ==
  ASSUME P!PerceptronAssumption, NEW k \in Nat
  PROVE  /\ Gains(k) \in Int /\ Losses(k) \in Int
         /\ Gains(k + 1) = Gains(k) + 2 * (BIAS - 1)
         /\ Losses(k + 1) = Losses(k) + 2 * (BIAS + 1)
         /\ Gains(0) = 0 /\ Losses(0) = 0
<1>1. BIAS \in Nat
  BY DEF P!PerceptronAssumption
<1>2. \A b \in Int : /\ 2 * b * k \in Int /\ 2 * b * (k + 1) = 2 * b * k + 2 * b
                     /\ 2 * b * 0 = 0
  OBVIOUS
<1>3. BIAS - 1 \in Int /\ BIAS + 1 \in Int
  BY <1>1
<1> QED
  BY <1>2, <1>3, Zenon DEF Gains, Losses

LEMMA NormOf == P!Norm = Total(Squares, P!Cells)
BY NormIs, CellsFinite, ProgramsAssumption DEF ProgramsAssumption

LEMMA NormNext == P!Norm' = Total([c \in P!Cells |-> weights'[c] * weights'[c]], P!Cells)
<1>1. (P!Norm = Total(Squares, P!Cells))'
  BY NormOf, PTL
<1> QED
  BY <1>1, Zenon DEF Squares, Total, IsFold, Folds, Pick

LEMMA NormSame ==
  ASSUME weights' = weights
  PROVE  P!Norm' = P!Norm
<1>1. [c \in P!Cells |-> weights'[c] * weights'[c]] = Squares
  BY DEF Squares
<1> QED
  BY <1>1, NormOf, NormNext

\* What a correction does to the square of the weights.
LEMMA Correction ==
  ASSUME P!PerceptronAssumption, weights \in [P!Cells -> Int],
         NEW I \in SUBSET P!Cells, NEW by \in {1, -1}, weights' = P!Adjusted(I, by)
  PROVE  /\ weights' \in [P!Cells -> Int]
         /\ P!feed_forward(I) \in Int /\ P!Cardinality(I) \in Nat
         /\ P!Norm \in Int
         /\ P!Norm' = P!Norm + 2 * by * P!feed_forward(I) + P!Cardinality(I)
<1> DEFINE r == [c \in P!Cells |-> weights'[c] * weights'[c]]
<1>1. IsFiniteSet(P!Cells) /\ IsFiniteSet(I)
  BY CellsFinite, FS_Subset
<1>2. P!Norm = Total(Squares, P!Cells)
  BY NormOf
<1>3. P!Norm' = Total(r, P!Cells)
  BY NormNext
<1>4. P!feed_forward(I) = Total(weights, I)
  BY <1>1, FeedForwardIs
<1>5. /\ weights' \in [P!Cells -> Int]
      /\ \A c \in P!Cells : weights'[c] = IF c \in I THEN weights[c] + by ELSE weights[c]
  BY DEF P!Adjusted
<1>6. Corrected(P!Cells, I, by, weights, Squares, r)
  <2>1. \A c \in P!Cells : weights[c] \in Int /\ Squares[c] = weights[c] * weights[c]
    BY DEF Squares
  <2>2. \A c \in P!Cells : r[c] = weights'[c] * weights'[c]
    OBVIOUS
  <2> HIDE DEF r
  <2>3. \A c \in P!Cells : r[c] = IF c \in I THEN (weights[c] + by) * (weights[c] + by)
                                  ELSE weights[c] * weights[c]
    BY <1>5, <2>2
  <2> QED
    BY <2>1, <2>3, Zenon DEF Corrected
<1> HIDE DEF r
<1>7. /\ Total(weights, I) \in Int /\ Total(Squares, P!Cells) \in Int /\ Cardinality(I) \in Nat
      /\ Total(r, P!Cells) = Total(Squares, P!Cells) + 2 * by * Total(weights, I) + Cardinality(I)
  <2> DEFINE C == P!Cells
             q == Squares
             w == weights
  <2>1. IsFiniteSet(C) /\ I \in SUBSET C /\ Corrected(C, I, by, w, q, r)
    BY <1>1, <1>6
  <2> HIDE DEF C, q, w
  <2>2. /\ Total(w, I) \in Int /\ Total(q, C) \in Int /\ Cardinality(I) \in Nat
        /\ Total(r, C) = Total(q, C) + 2 * by * Total(w, I) + Cardinality(I)
    BY <2>1, SquaresGrow
  <2> QED
    BY <2>2 DEF C, q, w
<1>8. P!Cardinality(I) = Cardinality(I)
  BY SizeIs
<1>9. /\ P!feed_forward(I) \in Int /\ P!Cardinality(I) \in Nat /\ P!Norm \in Int
  BY <1>2, <1>4, <1>7, <1>8
<1>10. P!Norm' = P!Norm + 2 * by * P!feed_forward(I) + P!Cardinality(I)
  BY <1>2, <1>3, <1>4, <1>7, <1>8, Zenon
<1> QED
  BY <1>5, <1>9, <1>10, Zenon

LEMMA PerceptronInvInit == P!PerceptronAssumption /\ P!Init => PerceptronInv
<1> SUFFICES ASSUME P!PerceptronAssumption, P!Init PROVE PerceptronInv
  OBVIOUS
<1>1. weights = [c \in P!Cells |-> 0] /\ added = 0 /\ subtracted = 0 /\ area = 0
  BY DEF P!Init
<1>2. P!Norm = 0
  <2>1. \A c \in P!Cells : Squares[c] = 0
    BY <1>1 DEF Squares
  <2> QED
    BY <2>1, CellsFinite, NormOf, TotalZero
<1>3. Gains(0) = 0 /\ Losses(0) = 0
  BY GainsNext
<1> QED
  BY <1>1, <1>2, <1>3 DEF PerceptronInv

LEMMA TrainRectStep ==
  ASSUME P!PerceptronAssumption, PerceptronInv, NEW q \in P!Rects, P!TrainRect(q)
  PROVE  PerceptronInv'
<1> DEFINE I == P!layer_fill_rect(q[1][1], q[1][2], q[2], q[3])
<1>1. I \in SUBSET P!Cells
  BY RectIs
<1>2. CASE P!feed_forward(I) > BIAS
  <2>1. /\ weights' = P!Adjusted(I, -1) /\ area' = area + P!Cardinality(I)
        /\ subtracted' = subtracted + 1 /\ added' = added
    BY <1>2 DEF P!TrainRect, P!sub_inputs_from_weights
  <2> HIDE DEF I
  <2> DEFINE a == P!Cardinality(I)
             f == P!feed_forward(I)
             n == P!Norm
             g == Gains(added)
             d == Losses(subtracted)
  <2>2. weights \in [P!Cells -> Int]
    BY DEF PerceptronInv
  <2>3. /\ weights' \in [P!Cells -> Int]
        /\ f \in Int /\ a \in Nat /\ n \in Int
        /\ P!Norm' = n + 2 * (-1) * f + a
    BY <1>1, <2>1, <2>2, Correction
  <2>4. /\ g \in Int /\ d \in Int /\ Losses(subtracted + 1) = d + 2 * (BIAS + 1)
        /\ Gains(added)' = g
    BY <2>1, GainsNext DEF PerceptronInv, Gains
  <2>5. /\ added \in Nat /\ subtracted \in Nat /\ area \in Nat /\ n <= area + g - d
    BY DEF PerceptronInv
  <2>6. BIAS \in Nat /\ f > BIAS
    BY <1>2 DEF P!PerceptronAssumption
  <2>7. Losses(subtracted)' = d + 2 * (BIAS + 1)
    BY <2>1, <2>4 DEF Losses
  <2> HIDE DEF a, f, n, g, d
  <2>8. n + 2 * (-1) * f + a \in Int
    BY <2>3
  <2>9. n + 2 * (-1) * f + a <= (area + a) + g - (d + 2 * (BIAS + 1))
    BY <2>3, <2>4, <2>5, <2>6
  <2>10. area' = area + a
    BY <2>1 DEF a
  <2>11. P!Norm' \in Int /\ P!Norm' <= area' + Gains(added)' - Losses(subtracted)'
    BY <2>3, <2>4, <2>7, <2>8, <2>9, <2>10
  <2>12. added' \in Nat /\ subtracted' \in Nat /\ area' \in Nat
    BY <2>1, <2>3, <2>5, <2>10
  <2> QED
    BY <2>3, <2>11, <2>12 DEF PerceptronInv
<1>3. CASE ~(P!feed_forward(I) > BIAS)
  <2>1. UNCHANGED <<weights, added, subtracted, area>>
    BY <1>3 DEF P!TrainRect
  <2>2. P!Norm' = P!Norm
    BY <2>1, NormSame
  <2> QED
    BY <2>1, <2>2 DEF PerceptronInv, Gains, Losses
<1> QED
  BY <1>2, <1>3

LEMMA TrainCircleStep ==
  ASSUME P!PerceptronAssumption, PerceptronInv, NEW q \in P!Circles, P!TrainCircle(q)
  PROVE  PerceptronInv'
<1> DEFINE I == P!layer_fill_circle(q[1][1], q[1][2], q[2])
<1>1. I \in SUBSET P!Cells
  BY CircleIs
<1>2. CASE P!feed_forward(I) < BIAS
  <2>1. /\ weights' = P!Adjusted(I, 1) /\ area' = area + P!Cardinality(I)
        /\ added' = added + 1 /\ subtracted' = subtracted
    BY <1>2 DEF P!TrainCircle, P!add_inputs_to_weights
  <2> HIDE DEF I
  <2> DEFINE a == P!Cardinality(I)
             f == P!feed_forward(I)
             n == P!Norm
             g == Gains(added)
             d == Losses(subtracted)
  <2>2. weights \in [P!Cells -> Int]
    BY DEF PerceptronInv
  <2>3. /\ weights' \in [P!Cells -> Int]
        /\ f \in Int /\ a \in Nat /\ n \in Int
        /\ P!Norm' = n + 2 * 1 * f + a
    BY <1>1, <2>1, <2>2, Correction
  <2>4. /\ g \in Int /\ d \in Int /\ Gains(added + 1) = g + 2 * (BIAS - 1)
        /\ Losses(subtracted)' = d
    BY <2>1, GainsNext DEF PerceptronInv, Losses
  <2>5. /\ added \in Nat /\ subtracted \in Nat /\ area \in Nat /\ n <= area + g - d
    BY DEF PerceptronInv
  <2>6. BIAS \in Nat /\ f < BIAS
    BY <1>2 DEF P!PerceptronAssumption
  <2>7. Gains(added)' = g + 2 * (BIAS - 1)
    BY <2>1, <2>4 DEF Gains
  <2> HIDE DEF a, f, n, g, d
  <2>8. n + 2 * 1 * f + a \in Int
    BY <2>3
  <2>9. n + 2 * 1 * f + a <= (area + a) + (g + 2 * (BIAS - 1)) - d
    BY <2>3, <2>4, <2>5, <2>6
  <2>10. area' = area + a
    BY <2>1 DEF a
  <2>11. P!Norm' \in Int /\ P!Norm' <= area' + Gains(added)' - Losses(subtracted)'
    BY <2>3, <2>4, <2>7, <2>8, <2>9, <2>10
  <2>12. added' \in Nat /\ subtracted' \in Nat /\ area' \in Nat
    BY <2>1, <2>3, <2>5, <2>10
  <2> QED
    BY <2>3, <2>11, <2>12 DEF PerceptronInv
<1>3. CASE ~(P!feed_forward(I) < BIAS)
  <2>1. UNCHANGED <<weights, added, subtracted, area>>
    BY <1>3 DEF P!TrainCircle
  <2>2. P!Norm' = P!Norm
    BY <2>1, NormSame
  <2> QED
    BY <2>1, <2>2 DEF PerceptronInv, Gains, Losses
<1> QED
  BY <1>2, <1>3

LEMMA PerceptronInvStep == PerceptronInv /\ [P!Next]_(P!vars) => PerceptronInv'
<1> SUFFICES ASSUME PerceptronInv, [P!Next]_(P!vars) PROVE PerceptronInv'
  OBVIOUS
<1>1. P!PerceptronAssumption
  BY ProgramsAssumption DEF ProgramsAssumption
<1>2. CASE UNCHANGED P!vars
  <2>1. UNCHANGED <<weights, added, subtracted, area>>
    BY <1>2 DEF P!vars
  <2>2. P!Norm' = P!Norm
    BY <2>1, NormSame
  <2> QED
    BY <2>1, <2>2 DEF PerceptronInv, Gains, Losses
<1> QED
  BY <1>1, <1>2, TrainRectStep, TrainCircleStep DEF P!Next

\* What is drawn fits the layer, and however long the perceptron is trained the
\* square of its weights stays below what the corrections made allow
\* (neural_network.cpp:159, 209, 216).
THEOREM PerceptronSafeAlways == Spec => []PerceptronSafe
<1>1. P!PerceptronAssumption
  BY ProgramsAssumption DEF ProgramsAssumption
<1>2. Init => PerceptronInv
  BY <1>1, PerceptronInvInit DEF Init
<1>3. PerceptronInv /\ [Next]_vars => PerceptronInv'
  BY PerceptronInvStep, StepsOfOne
<1>4. PerceptronInv => PerceptronSafe
  BY <1>1, SamplesFitIs DEF PerceptronInv, PerceptronSafe, P!Safe, Gains, Losses
<1> QED
  BY <1>2, <1>3, <1>4, PTL DEF Spec

-----------------------------------------------------------------------------
(***************************************************************************)
(* NeuralNet.  Between two layers, the errors sent down times derivatives   *)
(* of the lower layer are twice the errors times the derivatives these      *)
(* cause above: a double sum over the weights either way.  From the layer   *)
(* of a parameter, where only its neuron has a derivative, this reaches the *)
(* output, where the errors are those of the cost.                          *)
(*                                                                          *)
(* First, sums over rows.                                                   *)
(***************************************************************************)

\* One more number, no number, and the type of a sum.
LEMMA TotalNext ==
  ASSUME NEW a \in Nat, NEW v, \A x \in 1..a + 1 : v[x] \in Int
  PROVE  /\ Total(v, 1..a) \in Int /\ Total(v, 1..a + 1) \in Int
         /\ Total(v, 1..a + 1) = v[a + 1] + Total(v, 1..a)
<1>1. IsFiniteSet(1..a) /\ IsFiniteSet(1..a + 1)
  BY FS_Interval
<1>2. (1..a + 1) \ {a + 1} = 1..a /\ a + 1 \in 1..a + 1 /\ \A x \in 1..a : x \in 1..a + 1
  OBVIOUS
<1>3. Total(v, 1..a + 1) \in Int /\ Total(v, 1..a + 1) = v[a + 1] + Total(v, (1..a + 1) \ {a + 1})
  BY <1>1, <1>2, TotalRemove
<1>4. Total(v, 1..a) \in Int
  BY <1>1, <1>2, TotalRemove
<1> QED
  BY <1>2, <1>3, <1>4

LEMMA TotalNone ==
  ASSUME NEW v
  PROVE  Total(v, 1..0) = 0
<1>1. 1..0 = {}
  OBVIOUS
<1> QED
  BY <1>1, TotalEmpty

LEMMA TotalIsInt ==
  ASSUME NEW a \in Nat, NEW v, \A x \in 1..a : v[x] \in Int
  PROVE  Total(v, 1..a) \in Int
<1>1. IsFiniteSet(1..a)
  BY FS_Interval
<1> QED
  BY <1>1, TotalRemove

LEMMA Distributes ==
  ASSUME NEW c \in Int, NEW x \in Int, NEW y \in Int
  PROVE  c * (x + y) = c * x + c * y /\ c * x \in Int /\ c * y \in Int
OBVIOUS

\* A sum of multiples plus others.
Linear(x, c, v, w, a) ==
  \A j \in 1..a : v[j] \in Int /\ w[j] \in Int /\ x[j] = c * v[j] + w[j]

LEMMA TotalLinear ==
  ASSUME NEW a \in Nat, NEW c \in Int, NEW v, NEW w, NEW x, Linear(x, c, v, w, a)
  PROVE  Total(x, 1..a) = c * Total(v, 1..a) + Total(w, 1..a)
<1> DEFINE Good(m) == Total(x, 1..m) = c * Total(v, 1..m) + Total(w, 1..m)
           E == {m \in Nat : m <= a => Good(m)}
<1>1. 0 \in E
  <2>1. Total(x, 1..0) = 0 /\ Total(v, 1..0) = 0 /\ Total(w, 1..0) = 0
    BY TotalNone
  <2> QED
    BY <2>1
<1>2. ASSUME NEW m \in Nat, m \in E PROVE m + 1 \in E
  <2> SUFFICES ASSUME m + 1 <= a PROVE Good(m + 1)
    OBVIOUS
  <2>1. \A j \in 1..m + 1 : v[j] \in Int /\ w[j] \in Int /\ x[j] = c * v[j] + w[j]
    BY DEF Linear
  <2>2. \A j \in 1..m + 1 : x[j] \in Int
    BY <2>1
  <2>3. Good(m)
    BY <1>2
  <2> DEFINE tv == Total(v, 1..m)
             tw == Total(w, 1..m)
             p == v[m + 1]
             q == w[m + 1]
  <2>4. tv \in Int /\ Total(v, 1..m + 1) = p + tv
    BY <2>1, TotalNext
  <2>5. tw \in Int /\ Total(w, 1..m + 1) = q + tw
    BY <2>1, TotalNext
  <2>6. Total(x, 1..m + 1) = x[m + 1] + Total(x, 1..m)
    BY <2>2, TotalNext
  <2>7. p \in Int /\ q \in Int /\ x[m + 1] = c * p + q
    BY <2>1
  <2>8. Total(x, 1..m + 1) = (c * p + q) + (c * tv + tw)
    BY <2>3, <2>6, <2>7
  <2> HIDE DEF tv, tw, p, q
  <2>9. (c * p + q) + (c * tv + tw) = c * (p + tv) + (q + tw)
    BY <2>4, <2>5, <2>7, Distributes
  <2> QED
    BY <2>4, <2>5, <2>8, <2>9
<1> HIDE DEF E
<1>3. Nat \subseteq E
  BY <1>1, <1>2, SetInduction
<1> QED
  BY <1>3 DEF E

\* Multiples.
Scaled(x, c, v, a) == \A j \in 1..a : v[j] \in Int /\ x[j] = c * v[j]

LEMMA TotalTimes ==
  ASSUME NEW a \in Nat, NEW c \in Int, NEW v, NEW x, Scaled(x, c, v, a)
  PROVE  Total(x, 1..a) = c * Total(v, 1..a)
<1> DEFINE w == [j \in 1..a |-> 0]
<1>1. \A j \in 1..a : w[j] = 0 /\ w[j] \in Int
  OBVIOUS
<1> HIDE DEF w
<1>2. Linear(x, c, v, w, a)
  BY <1>1 DEF Linear, Scaled
<1>3. Total(x, 1..a) = c * Total(v, 1..a) + Total(w, 1..a)
  BY <1>2, TotalLinear
<1>4. IsFiniteSet(1..a)
  BY FS_Interval
<1>5. Total(w, 1..a) = 0
  BY <1>1, <1>4, TotalZero
<1>6. Total(v, 1..a) \in Int
  BY TotalIsInt DEF Scaled
<1> DEFINE s == c * Total(v, 1..a)
<1>7. s \in Int
  BY <1>6, Distributes
<1>8. Total(x, 1..a) = s + 0
  BY <1>3, <1>5, Zenon
<1> HIDE DEF s
<1>9. s + 0 = s
  BY <1>7
<1>10. Total(x, 1..a) = s
  BY <1>8, <1>9, Zenon
<1> QED
  BY <1>10, Zenon DEF s

\* A sum of one number and zeros.
LEMMA TotalOnly ==
  ASSUME NEW a \in Nat, NEW q \in 1..a, NEW v, v[q] \in Int,
         \A j \in 1..a : j # q => v[j] = 0
  PROVE  Total(v, 1..a) = v[q]
<1>1. IsFiniteSet(1..a) /\ IsFiniteSet((1..a) \ {q})
  <2>1. IsFiniteSet(1..a) /\ (1..a) \ {q} \in SUBSET (1..a)
    BY FS_Interval
  <2> QED
    BY <2>1, FS_Subset
<1>2. \A j \in 1..a : v[j] \in Int
  OBVIOUS
<1>3. Total(v, 1..a) = v[q] + Total(v, (1..a) \ {q})
  BY <1>1, <1>2, TotalRemove
<1>4. Total(v, (1..a) \ {q}) = 0
  BY <1>1, TotalZero
<1> QED
  BY <1>3, <1>4

\* Vectors d and u and a matrix W of a rows and b columns, and the products of
\* one row with u and of one column with d.
Arrays(a, b, d, u, W) == /\ \A k \in 1..a : d[k] \in Int
                         /\ \A j \in 1..b : u[j] \in Int
                         /\ \A k \in 1..a : \A j \in 1..b : W[k][j] \in Int
RowSum(u, W, k, b) == Total([j \in 1..b |-> u[j] * W[k][j]], 1..b)
ColSum(d, W, j, a) == Total([k \in 1..a |-> d[k] * W[k][j]], 1..a)

\* A double sum either way.
LEMMA Exchange ==
  ASSUME NEW a \in Nat, NEW b \in Nat, NEW d, NEW u, NEW W, Arrays(a, b, d, u, W)
  PROVE  Total([k \in 1..a |-> d[k] * RowSum(u, W, k, b)], 1..a)
           = Total([j \in 1..b |-> u[j] * ColSum(d, W, j, a)], 1..b)
<1> DEFINE row == [k \in 1..a |-> RowSum(u, W, k, b)]
           col == [j \in 1..b |-> ColSum(d, W, j, a)]
           dr == [k \in 1..a |-> d[k] * RowSum(u, W, k, b)]
           uc == [j \in 1..b |-> u[j] * ColSum(d, W, j, a)]
           dW(j) == [k \in 1..a |-> d[k] * W[k][j]]
           uW(k) == [j \in 1..b |-> u[j] * W[k][j]]
           part(m) == [j \in 1..b |-> u[j] * Total(dW(j), 1..m)]
           Good(m) == Total(dr, 1..m) = Total(part(m), 1..b)
           E == {m \in Nat : m <= a => Good(m)}
<1>3. \A k \in 1..a : d[k] \in Int /\ dr[k] = d[k] * row[k]
  BY DEF Arrays
<1>4. \A j \in 1..b : u[j] \in Int /\ uc[j] = u[j] * col[j]
  BY DEF Arrays
<1>5. \A k \in 1..a : \A j \in 1..b : W[k][j] \in Int
  BY DEF Arrays
<1>1. /\ \A k \in 1..a : \A j \in 1..b : dW(j)[k] = d[k] * W[k][j] /\ dW(j)[k] \in Int
      /\ \A k \in 1..a : \A j \in 1..b : uW(k)[j] = u[j] * W[k][j] /\ uW(k)[j] \in Int
      /\ \A m : \A j \in 1..b : part(m)[j] = u[j] * Total(dW(j), 1..m)
  BY <1>3, <1>4, <1>5
<1>2. /\ \A k \in 1..a : row[k] = Total(uW(k), 1..b)
      /\ \A j \in 1..b : col[j] = Total(dW(j), 1..a)
  BY DEF RowSum, ColSum
<1> HIDE DEF dW, uW, part, row, col, dr, uc
<1>6. 0 \in E
  <2>1. Total(dr, 1..0) = 0
    BY TotalNone
  <2>2. \A j \in 1..b : part(0)[j] = 0
    BY <1>1, <1>4, TotalNone
  <2>3. IsFiniteSet(1..b)
    BY FS_Interval
  <2>4. Total(part(0), 1..b) = 0
    BY <2>2, <2>3, TotalZero
  <2> QED
    BY <2>1, <2>4
<1>7. ASSUME NEW m \in Nat, m \in E PROVE m + 1 \in E
  <2> SUFFICES ASSUME m + 1 <= a PROVE Good(m + 1)
    OBVIOUS
  <2> DEFINE h == m + 1
  <2>1. h \in 1..a /\ h \in Nat /\ (\A k \in 1..m : k \in 1..a) /\ \A k \in 1..h : k \in 1..a
    OBVIOUS
  <2>2. Good(m)
    BY <1>7
  <2>3. \A j \in 1..b : /\ Total(dW(j), 1..m) \in Int
                        /\ Total(dW(j), 1..h) = d[h] * W[h][j] + Total(dW(j), 1..m)
    <3> TAKE j \in 1..b
    <3>1. \A k \in 1..m + 1 : dW(j)[k] \in Int
      BY <1>1, <2>1
    <3>2. /\ Total(dW(j), 1..m) \in Int
          /\ Total(dW(j), 1..m + 1) = dW(j)[m + 1] + Total(dW(j), 1..m)
      BY <3>1, TotalNext
    <3> QED
      BY <1>1, <2>1, <3>2
  <2>4. row[h] \in Int /\ row[h] = Total(uW(h), 1..b) /\ d[h] \in Int
    BY <1>1, <1>2, <1>3, <2>1, TotalIsInt
  <2>5. \A j \in 1..b : part(m)[j] \in Int /\ uW(h)[j] \in Int
    <3>1. \A j \in 1..b : uW(h)[j] \in Int
      BY <1>1, <2>1
    <3>2. ASSUME NEW j \in 1..b PROVE part(m)[j] \in Int
      <4>1. u[j] \in Int /\ Total(dW(j), 1..m) \in Int
        BY <1>4, <2>3
      <4>2. u[j] * Total(dW(j), 1..m) \in Int
        BY <4>1, Distributes
      <4> QED
        BY <1>1, <4>2, Zenon
    <3> QED
      BY <3>1, <3>2
  <2>6. \A j \in 1..b : part(h)[j] = d[h] * uW(h)[j] + part(m)[j]
    <3> TAKE j \in 1..b
    <3> DEFINE t == Total(dW(j), 1..m)
               w == W[h][j]
               x == d[h]
               y == u[j]
    <3>1. t \in Int /\ Total(dW(j), 1..h) = x * w + t
      BY <2>3
    <3>2. w \in Int /\ x \in Int /\ y \in Int
      BY <1>4, <1>5, <2>1, <2>4
    <3>3. part(h)[j] = y * Total(dW(j), 1..h) /\ part(m)[j] = y * t
      BY <1>1
    <3>4. uW(h)[j] = y * w
      BY <1>1, <2>1
    <3> HIDE DEF t, w, x, y, h
    <3>5. x * w \in Int
      BY <3>2, Distributes
    <3>6. y * (x * w + t) = y * (x * w) + y * t
      BY <3>1, <3>2, <3>5, Distributes
    <3>7. y * (x * w) = x * (y * w)
      BY <3>2
    <3>8. part(h)[j] = x * (y * w) + y * t
      BY <3>1, <3>3, <3>6, <3>7, Zenon
    <3> QED
      BY <3>3, <3>4, <3>8, Zenon DEF x
  <2>7. Total(part(h), 1..b) = d[h] * Total(uW(h), 1..b) + Total(part(m), 1..b)
    <3> DEFINE x == part(h)
               v == uW(h)
               w == part(m)
               c == d[h]
    <3>1. c \in Int /\ Linear(x, c, v, w, b)
      BY <2>4, <2>5, <2>6 DEF Linear
    <3> HIDE DEF h, x, v, w, c
    <3>2. Total(x, 1..b) = c * Total(v, 1..b) + Total(w, 1..b)
      BY <3>1, TotalLinear
    <3> QED
      BY <3>2 DEF x, v, w, c
  <2>8. Total(dr, 1..h) = dr[h] + Total(dr, 1..m)
    <3>1. \A k \in 1..m + 1 : dr[k] \in Int
      <4> TAKE k \in 1..m + 1
      <4>1. k \in 1..a
        BY <2>1
      <4>2. row[k] \in Int /\ d[k] \in Int /\ dr[k] = d[k] * row[k]
        BY <1>1, <1>2, <1>3, <4>1, TotalIsInt
      <4> QED
        BY <4>2, Distributes
    <3> QED
      BY <3>1, TotalNext
  <2>9. dr[h] = d[h] * Total(uW(h), 1..b)
    BY <1>3, <2>1, <2>4
  <2> QED
    BY <2>2, <2>7, <2>8, <2>9, Zenon
<1> HIDE DEF E
<1>8. a \in E
  BY <1>6, <1>7, SetInduction
<1>9. Total(dr, 1..a) = Total(part(a), 1..b)
  BY <1>8 DEF E
<1>10. \A j \in 1..b : part(a)[j] = uc[j]
  BY <1>1, <1>2, <1>4
<1>11. IsFiniteSet(1..b)
  BY FS_Interval
<1>12. Total(part(a), 1..b) = Total(uc, 1..b)
  BY <1>10, <1>11, TotalEqual
<1> QED
  BY <1>9, <1>12 DEF dr, uc

\* The sum of the library.
LEMMA SumIs ==
  ASSUME NEW v, IsFiniteSet(DOMAIN v)
  PROVE  N!SumFunction(v) = Total(v, DOMAIN v)
<1> DEFINE S == DOMAIN v
           Body(g) == [s \in SUBSET S |->
                         IF s = {} THEN 0
                         ELSE v[CHOOSE x \in s : TRUE] + g[s \ {CHOOSE x \in s : TRUE}]]
           h == CHOOSE g : g = Body(g)
<1>1. N!SumFunction(v) = h[S]
  BY Zenon DEF N!SumFunction, N!SumFunctionOnSet, N!FoldFunctionOnSet, N!MapThenFoldSet
<1>2. \A g : IsFold(g, v, S) <=> g = Body(g)
  <2> TAKE g
  <2>1. ASSUME IsFold(g, v, S) PROVE g = Body(g)
    <3>1. \A s \in SUBSET S : g[s] = Body(g)[s]
      BY <2>1 DEF IsFold, Folds, Pick
    <3> HIDE DEF Body
    <3>2. g = [s \in SUBSET S |-> g[s]]
      BY <2>1 DEF IsFold
    <3>3. Body(g) = [s \in SUBSET S |-> Body(g)[s]]
      BY DEF Body
    <3> QED
      BY <3>1, <3>2, <3>3
  <2>2. ASSUME g = Body(g) PROVE IsFold(g, v, S)
    BY <2>2 DEF IsFold, Folds, Pick
  <2> QED
    BY <2>1, <2>2
<1> HIDE DEF Body
<1>3. IsFold(h, v, S)
  BY <1>2, FoldExists
<1> HIDE DEF h
<1> QED
  BY <1>1, <1>3, TotalOf

\* The same, of a row of a numbers.
LEMMA SumRow ==
  ASSUME NEW a \in Nat, NEW v, DOMAIN v = 1..a
  PROVE  N!SumFunction(v) = Total(v, 1..a)
<1>1. IsFiniteSet(DOMAIN v)
  BY FS_Interval
<1> QED
  BY <1>1, SumIs

-----------------------------------------------------------------------------
(* Recursive functions over numbers and over layers. *)

\* Recursion from a: value i is of the set R[i], by F from value i - 1.
Recursion(f, c, R, a, F) == /\ f = [i \in 0..c |-> f[i]]
                            /\ f[0] = a
                            /\ \A i \in 0..c : f[i] \in R[i]
                            /\ \A i \in 1..c : f[i] = F[i][f[i - 1]]

LEMMA RecursionExists ==
  ASSUME NEW c \in Nat, NEW R, NEW a \in R[0], NEW F,
         \A i \in 1..c : \A v \in R[i - 1] : F[i][v] \in R[i]
  PROVE  \E f : Recursion(f, c, R, a, F)
<1> DEFINE E == {m \in Nat : m <= c => \E f : Recursion(f, m, R, a, F)}
<1>1. 0 \in E
  <2> DEFINE f == [i \in 0..0 |-> a]
  <2>1. Recursion(f, 0, R, a, F)
    BY DEF Recursion
  <2> HIDE DEF f
  <2> QED
    BY <2>1
<1>2. ASSUME NEW m \in Nat, m \in E PROVE m + 1 \in E
  <2> SUFFICES ASSUME m + 1 <= c PROVE \E f : Recursion(f, m + 1, R, a, F)
    OBVIOUS
  <2>1. PICK f : Recursion(f, m, R, a, F)
    BY <1>2
  <2>2. /\ f = [i \in 0..m |-> f[i]] /\ f[0] = a
        /\ \A i \in 0..m : f[i] \in R[i]
        /\ \A i \in 1..m : f[i] = F[i][f[i - 1]]
    BY <2>1 DEF Recursion
  <2> DEFINE g == [i \in 0..m + 1 |-> IF i <= m THEN f[i] ELSE F[m + 1][f[m]]]
  <2>3. /\ g = [i \in 0..m + 1 |-> g[i]]
        /\ (\A i \in 0..m : g[i] = f[i]) /\ g[m + 1] = F[m + 1][f[m]]
    <3>1. m + 1 \in 0..m + 1 /\ ~(m + 1 <= m) /\ \A i \in 0..m : i \in 0..m + 1 /\ i <= m
      OBVIOUS
    <3>2. (\A i \in 0..m : g[i] = f[i]) /\ g[m + 1] = F[m + 1][f[m]]
      BY <3>1, Zenon
    <3>3. g = [i \in 0..m + 1 |-> g[i]]
      OBVIOUS
    <3> QED
      BY <3>2, <3>3
  <2> HIDE DEF g
  <2>4. m \in 0..m /\ m + 1 \in 1..c /\ (m + 1) - 1 = m /\ 0 \in 0..m
    OBVIOUS
  <2>5. g[0] = a
    BY <2>2, <2>3, <2>4
  <2>6. g[m + 1] \in R[m + 1]
    <3>1. f[m] \in R[m]
      BY <2>2, <2>4
    <3>2. \A v \in R[(m + 1) - 1] : F[m + 1][v] \in R[m + 1]
      BY <2>4
    <3> QED
      BY <2>3, <2>4, <3>1, <3>2
  <2>7. \A i \in 0..m + 1 : g[i] \in R[i]
    <3> TAKE i \in 0..m + 1
    <3>1. i \in 0..m \/ i = m + 1
      OBVIOUS
    <3> QED
      BY <2>2, <2>3, <2>6, <3>1
  <2>8. \A i \in 1..m + 1 : g[i] = F[i][g[i - 1]]
    <3> TAKE i \in 1..m + 1
    <3>1. CASE i = m + 1
      BY <2>3, <2>4, <3>1
    <3>2. CASE i # m + 1
      <4>1. i \in 1..m /\ i \in 0..m /\ i - 1 \in 0..m
        BY <3>2
      <4> QED
        BY <2>2, <2>3, <4>1
    <3> QED
      BY <3>1, <3>2
  <2>9. Recursion(g, m + 1, R, a, F)
    BY <2>3, <2>5, <2>7, <2>8 DEF Recursion
  <2> QED
    BY <2>9
<1> HIDE DEF E
<1>3. Nat \subseteq E
  BY <1>1, <1>2, SetInduction
<1> QED
  BY <1>3 DEF E

\* Induction over the layers, from p up and from c down.
LEMMA UpFrom ==
  ASSUME NEW p \in Nat, NEW c \in Nat, NEW S, p \in S,
         \A l \in p..c - 1 : l \in S => l + 1 \in S
  PROVE  p..c \subseteq S
<1> DEFINE Good(i) == p + i <= c => p + i \in S
           E == {i \in Nat : Good(i)}
<1>1. Good(0)
  OBVIOUS
<1>2. ASSUME NEW i \in Nat, Good(i) PROVE Good(i + 1)
  <2> SUFFICES ASSUME p + (i + 1) <= c PROVE p + (i + 1) \in S
    OBVIOUS
  <2>1. p + i \in p..c - 1 /\ p + i <= c /\ (p + i) + 1 = p + (i + 1)
    OBVIOUS
  <2>2. p + i \in S
    BY <1>2, <2>1
  <2>3. (p + i) + 1 \in S
    BY <2>1, <2>2
  <2> QED
    BY <2>1, <2>3
<1> HIDE DEF Good
<1>3. 0 \in E /\ \A i \in Nat : i \in E => i + 1 \in E
  BY <1>1, <1>2
<1>4. \A i \in Nat : i \in E => Good(i)
  OBVIOUS
<1> HIDE DEF E
<1>5. Nat \subseteq E
  BY <1>3, SetInduction
<1> SUFFICES ASSUME NEW l \in p..c PROVE l \in S
  OBVIOUS
<1>6. l - p \in Nat /\ p + (l - p) = l /\ l <= c
  OBVIOUS
<1>7. Good(l - p)
  BY <1>4, <1>5, <1>6
<1> QED
  BY <1>6, <1>7 DEF Good

LEMMA DownFrom ==
  ASSUME NEW c \in Nat, NEW S, c \in S, \A l \in 0..c - 1 : l + 1 \in S => l \in S
  PROVE  0..c \subseteq S
<1> DEFINE D == {i \in 0..c : c - i \in S}
<1>1. 0 \in D
  OBVIOUS
<1>2. \A i \in 0..c - 1 : i \in D => i + 1 \in D
  <2> TAKE i \in 0..c - 1
  <2> SUFFICES ASSUME i \in D PROVE i + 1 \in D
    OBVIOUS
  <2>1. c - (i + 1) \in 0..c - 1 /\ (c - (i + 1)) + 1 = c - i /\ i + 1 \in 0..c
    OBVIOUS
  <2>2. (c - (i + 1)) + 1 \in S
    BY <2>1
  <2>3. c - (i + 1) \in S
    BY <2>1, <2>2
  <2> QED
    BY <2>1, <2>3
<1>3. \A i \in D : c - i \in S
  OBVIOUS
<1> HIDE DEF D
<1>4. 0..c \subseteq D
  BY <1>1, <1>2, UpFrom
<1> SUFFICES ASSUME NEW l \in 0..c PROVE l \in S
  OBVIOUS
<1>5. c - l \in 0..c /\ c - (c - l) = l
  OBVIOUS
<1>6. c - (c - l) \in S
  BY <1>3, <1>4, <1>5
<1> QED
  BY <1>5, <1>6

\* A value of R[l] for each layer from p to c, and from c down to 0.
Rises(f, p, c, a, F) == /\ f = [l \in p..c |-> f[l]] /\ f[p] = a
                        /\ \A l \in p + 1..c : f[l] = F[l][f[l - 1]]
Falls(f, c, a, F) == /\ f = [l \in 0..c |-> f[l]] /\ f[c] = a
                     /\ \A l \in 0..c - 1 : f[l] = F[l][f[l + 1]]

LEMMA Upward ==
  ASSUME NEW p \in Nat, NEW c \in Nat, p <= c, NEW R, NEW a \in R[p], NEW F,
         \A l \in p + 1..c : \A v \in R[l - 1] : F[l][v] \in R[l]
  PROVE  \E f : Rises(f, p, c, a, F)
<1> DEFINE d == c - p
           Q == [i \in 0..d |-> R[p + i]]
           H == [i \in 1..d |-> F[p + i]]
<1>1. d \in Nat /\ p + d = c
  OBVIOUS
<1>2. (\A i \in 0..d : Q[i] = R[p + i]) /\ \A i \in 1..d : H[i] = F[p + i]
  OBVIOUS
<1> HIDE DEF d, Q, H
<1>3. 0 \in 0..d /\ p + 0 = p
  BY <1>1
<1>4. a \in Q[0]
  BY <1>2, <1>3
<1>5. \A i \in 1..d : \A v \in Q[i - 1] : H[i][v] \in Q[i]
  <2> TAKE i \in 1..d
  <2>1. /\ i \in 0..d /\ i - 1 \in 0..d /\ p + i \in p + 1..c
        /\ p + (i - 1) = (p + i) - 1
    BY <1>1
  <2>2. Q[i] = R[p + i] /\ Q[i - 1] = R[(p + i) - 1] /\ H[i] = F[p + i]
    BY <1>2, <2>1
  <2>3. \A v \in R[(p + i) - 1] : F[p + i][v] \in R[p + i]
    BY <2>1
  <2> QED
    BY <2>2, <2>3
<1>6. PICK g : Recursion(g, d, Q, a, H)
  BY <1>1, <1>4, <1>5, RecursionExists
<1>7. g[0] = a /\ \A i \in 1..d : g[i] = H[i][g[i - 1]]
  BY <1>6 DEF Recursion
<1> DEFINE f == [l \in p..c |-> g[l - p]]
<1>8. f = [l \in p..c |-> f[l]]
  OBVIOUS
<1>9. \A l \in p..c : f[l] = g[l - p]
  OBVIOUS
<1> HIDE DEF f
<1>10. f[p] = a
  <2>1. p \in p..c /\ p - p = 0
    OBVIOUS
  <2> QED
    BY <1>7, <1>9, <2>1
<1>11. \A l \in p + 1..c : f[l] = F[l][f[l - 1]]
  <2> TAKE l \in p + 1..c
  <2>1. /\ l \in p..c /\ l - 1 \in p..c /\ l - p \in 1..d
        /\ (l - 1) - p = (l - p) - 1 /\ p + (l - p) = l
    BY <1>1
  <2>2. f[l] = g[l - p] /\ f[l - 1] = g[(l - p) - 1]
    BY <1>9, <2>1
  <2>3. g[l - p] = H[l - p][g[(l - p) - 1]] /\ H[l - p] = F[l]
    BY <1>2, <1>7, <2>1
  <2> QED
    BY <2>2, <2>3
<1> QED
  BY <1>8, <1>10, <1>11 DEF Rises

LEMMA Downward ==
  ASSUME NEW c \in Nat, NEW R, NEW a \in R[c], NEW F,
         \A l \in 0..c - 1 : \A v \in R[l + 1] : F[l][v] \in R[l]
  PROVE  \E f : Falls(f, c, a, F)
<1> DEFINE Q == [i \in 0..c |-> R[c - i]]
           H == [i \in 1..c |-> F[c - i]]
<1>2. (\A i \in 0..c : Q[i] = R[c - i]) /\ \A i \in 1..c : H[i] = F[c - i]
  OBVIOUS
<1> HIDE DEF Q, H
<1>3. 0 \in 0..c /\ c - 0 = c
  OBVIOUS
<1>4. a \in Q[0]
  BY <1>2, <1>3
<1>5. \A i \in 1..c : \A v \in Q[i - 1] : H[i][v] \in Q[i]
  <2> TAKE i \in 1..c
  <2>1. /\ i \in 0..c /\ i - 1 \in 0..c /\ c - i \in 0..c - 1
        /\ c - (i - 1) = (c - i) + 1
    OBVIOUS
  <2>2. Q[i] = R[c - i] /\ Q[i - 1] = R[(c - i) + 1] /\ H[i] = F[c - i]
    BY <1>2, <2>1
  <2>3. \A v \in R[(c - i) + 1] : F[c - i][v] \in R[c - i]
    BY <2>1
  <2> QED
    BY <2>2, <2>3
<1>6. PICK g : Recursion(g, c, Q, a, H)
  BY <1>4, <1>5, RecursionExists
<1>7. g[0] = a /\ \A i \in 1..c : g[i] = H[i][g[i - 1]]
  BY <1>6 DEF Recursion
<1> DEFINE f == [l \in 0..c |-> g[c - l]]
<1>8. f = [l \in 0..c |-> f[l]]
  OBVIOUS
<1>9. \A l \in 0..c : f[l] = g[c - l]
  OBVIOUS
<1> HIDE DEF f
<1>10. f[c] = a
  <2>1. c \in 0..c /\ c - c = 0
    OBVIOUS
  <2> QED
    BY <1>7, <1>9, <2>1
<1>11. \A l \in 0..c - 1 : f[l] = F[l][f[l + 1]]
  <2> TAKE l \in 0..c - 1
  <2>1. /\ l \in 0..c /\ l + 1 \in 0..c /\ c - l \in 1..c
        /\ c - (l + 1) = (c - l) - 1 /\ c - (c - l) = l
    OBVIOUS
  <2>2. f[l] = g[c - l] /\ f[l + 1] = g[(c - l) - 1]
    BY <1>9, <2>1
  <2>3. g[c - l] = H[c - l][g[(c - l) - 1]] /\ H[c - l] = F[l]
    BY <1>2, <1>7, <2>1
  <2> QED
    BY <2>2, <2>3
<1> QED
  BY <1>8, <1>10, <1>11 DEF Falls

-----------------------------------------------------------------------------
(* The network, its samples and its activations. *)

\* The activation of a number is a number.
ActivationIsNumber == \A x \in Int : sigmoidf(x) \in Int

\* The neurons of layer l, the input being layer 0, and the values it may have.
Neurons(l) == 1..arch[l + 1]
Row(l) == [Neurons(l) -> Int]

\* There is a layer above the input, and none is empty.
LEMMA ArchIs ==
  ASSUME N!NeuralNetAssumption
  PROVE  /\ N!count \in Nat /\ N!count >= 1 /\ N!Layers = 1..N!count
         /\ \A l \in 0..N!count : arch[l + 1] \in Nat /\ arch[l + 1] >= 1
<1>1. arch \in Seq(Nat \ {0}) /\ Len(arch) >= 2 /\ Len(arch) \in Nat
  BY DEF N!NeuralNetAssumption
<1>2. N!count \in Nat /\ N!count >= 1 /\ N!Layers = 1..N!count
  BY <1>1 DEF N!count, N!Layers
<1>3. \A l \in 0..N!count : arch[l + 1] \in Nat /\ arch[l + 1] >= 1
  <2> TAKE l \in 0..N!count
  <2>1. l + 1 \in 1..Len(arch)
    BY <1>1 DEF N!count
  <2>2. arch[l + 1] \in Nat \ {0}
    BY <1>1, <2>1
  <2> QED
    BY <2>2
<1> QED
  BY <1>2, <1>3

\* A sample is a row of the input and a row of the output.
LEMMA SampleIs ==
  ASSUME N!NeuralNetAssumption, NEW i \in 1..N!n
  PROVE  N!n \in Nat /\ N!ti[i] \in Row(0) /\ N!to[i] \in Row(N!count)
<1>1. N!n \in Nat /\ DOMAIN td = 1..N!n
  BY DEF N!NeuralNetAssumption, N!n
<1>2. /\ arch[1] \in Nat /\ arch[N!count + 1] \in Nat /\ Len(arch) = N!count + 1
      /\ arch[0 + 1] = arch[1] /\ Len(arch) \in Nat
  <2>1. N!count \in Nat /\ N!count >= 1
    BY ArchIs
  <2>2. 0 \in 0..N!count /\ N!count \in 0..N!count /\ 0 + 1 = 1
    BY <2>1
  <2>3. Len(arch) \in Nat
    BY DEF N!NeuralNetAssumption
  <2>4. Len(arch) = N!count + 1
    BY <2>3 DEF N!count
  <2>5. arch[0 + 1] \in Nat /\ arch[N!count + 1] \in Nat
    BY <2>2, ArchIs
  <2> QED
    BY <2>2, <2>3, <2>4, <2>5
<1> DEFINE r == td[i]
           a == arch[1]
           c == arch[N!count + 1]
<1>3. r \in Seq(Int) /\ Len(r) = a + c
  <2>1. arch[Len(arch)] = c
    BY <1>2
  <2>2. td \in Seq(Seq(Int)) /\ Len(td[i]) = arch[1] + arch[Len(arch)]
    BY <1>1 DEF N!NeuralNetAssumption
  <2> QED
    BY <1>1, <2>1, <2>2
<1>4. N!ti[i] = [j \in 1..a |-> td[i + 0][j + 0]]
  BY DEF N!ti, N!mat_sub
<1>5. N!to[i] = [j \in 1..c |-> td[i + 0][j + a]]
  BY DEF N!to, N!mat_sub
<1>6. i + 0 = i
  BY <1>1
<1>7. N!ti[i] = [j \in 1..a |-> r[j + 0]] /\ N!to[i] = [j \in 1..c |-> r[j + a]]
  BY <1>4, <1>5, <1>6
<1>8. a \in Nat /\ c \in Nat
  BY <1>2
<1> HIDE DEF r, a, c
<1>9. (\A j \in 1..a : r[j + 0] \in Int) /\ \A j \in 1..c : r[j + a] \in Int
  <2>1. \A k \in 1..a + c : r[k] \in Int
    BY <1>3, <1>8
  <2> QED
    BY <1>8, <2>1
<1>10. N!ti[i] \in [1..a -> Int] /\ N!to[i] \in [1..c -> Int]
  BY <1>7, <1>9
<1> QED
  BY <1>1, <1>2, <1>10 DEF Row, Neurons, a, c

\* The parameters of layer l.
Parameters(w, b, l) == /\ w[l] \in [Neurons(l - 1) -> [Neurons(l) -> Int]]
                       /\ b[l] \in Row(l)
Numbers(w, b) == \A l \in N!Layers : Parameters(w, b, l)

\* What create makes are the parameters of every layer.
LEMMA NetworkIs ==
  ASSUME N!NeuralNetAssumption, NEW S \in SUBSET Int,
         NEW w \in N!Weights(S), NEW b \in N!Biases(S)
  PROVE  Numbers(w, b)
<1> SUFFICES ASSUME NEW l \in N!Layers PROVE Parameters(w, b, l)
  BY DEF Numbers
<1>1. (l - 1) + 1 = l
  BY ArchIs
<1>2. w[l] \in [1..arch[l] -> [1..arch[l + 1] -> S]] /\ b[l] \in [1..arch[l + 1] -> S]
  BY DEF N!Weights, N!Biases, N!Matrices
<1>3. w[l] \in [1..arch[l] -> [1..arch[l + 1] -> Int]] /\ b[l] \in [1..arch[l + 1] -> Int]
  BY <1>2
<1> QED
  BY <1>1, <1>3 DEF Parameters, Row, Neurons

-----------------------------------------------------------------------------
(* What the recursions of forward, Deltas and Derivatives compute. *)

\* A layer from the one below: every product is defined.
LEMMA ProductIs ==
  ASSUME N!NeuralNetAssumption, ActivationIsNumber, NEW l \in 1..N!count, NEW w, NEW b,
         Parameters(w, b, l), NEW v \in Row(l - 1)
  PROVE  N!mat_sig(N!mat_sum(N!mat_product(v, w[l]), b[l])) \in Row(l)
<1> DEFINE m == w[l]
           p == N!mat_product(v, m)
           s == N!mat_sum(p, b[l])
<1>1. l - 1 \in 0..N!count /\ l \in 0..N!count
  BY ArchIs
<1>2. arch[(l - 1) + 1] \in Nat /\ arch[(l - 1) + 1] >= 1
  BY <1>1, ArchIs
<1>3. m \in [Neurons(l - 1) -> [Neurons(l) -> Int]] /\ b[l] \in Row(l)
  BY DEF Parameters
<1>4. 1 \in Neurons(l - 1)
  BY <1>2 DEF Neurons
<1>5. DOMAIN m[1] = Neurons(l) /\ DOMAIN m = Neurons(l - 1)
  BY <1>3, <1>4
<1> HIDE DEF m
<1>6. p = [j \in Neurons(l) |-> N!SumFunction([k \in Neurons(l - 1) |-> v[k] * m[k][j]])]
  BY <1>5 DEF N!mat_product
<1>7. \A j \in Neurons(l) : N!SumFunction([k \in Neurons(l - 1) |-> v[k] * m[k][j]]) \in Int
  <2> TAKE j \in Neurons(l)
  <2> DEFINE f == [k \in Neurons(l - 1) |-> v[k] * m[k][j]]
             a == arch[(l - 1) + 1]
  <2>1. \A k \in Neurons(l - 1) : v[k] \in Int /\ m[k][j] \in Int
    BY <1>3 DEF Row
  <2>2. \A k \in Neurons(l - 1) : f[k] \in Int
    BY <2>1
  <2>3. DOMAIN f = 1..a /\ a \in Nat /\ Neurons(l - 1) = 1..a
    BY <1>2 DEF Neurons
  <2> HIDE DEF f, a
  <2>4. N!SumFunction(f) = Total(f, 1..a)
    BY <2>3, SumRow
  <2>5. Total(f, 1..a) \in Int
    BY <2>2, <2>3, TotalIsInt
  <2>6. N!SumFunction(f) \in Int
    BY <2>4, <2>5
  <2> QED
    BY <2>6 DEF f
<1>8. p \in Row(l)
  BY <1>6, <1>7, Zenon DEF Row
<1> HIDE DEF p
<1>9. s = [j \in Neurons(l) |-> p[j] + b[l][j]]
  BY <1>8 DEF N!mat_sum, Row
<1>10. s \in Row(l)
  BY <1>3, <1>8, <1>9 DEF Row
<1> HIDE DEF s
<1>11. N!mat_sig(s) = [j \in Neurons(l) |-> sigmoidf(s[j])]
  BY <1>10 DEF N!mat_sig, Row
<1>12. \A j \in Neurons(l) : sigmoidf(s[j]) \in Int
  BY <1>10 DEF ActivationIsNumber, Row
<1>13. N!mat_sig(s) \in Row(l)
  BY <1>11, <1>12, Zenon DEF Row
<1> QED
  BY <1>13 DEF s, p, m

\* forward gives activations to every layer.
LEMMA ForwardIs ==
  ASSUME N!NeuralNetAssumption, ActivationIsNumber, NEW w, NEW b, Numbers(w, b), NEW x \in Row(0)
  PROVE  \A l \in 0..N!count : N!forward(w, b, x)[l] \in Row(l)
<1> DEFINE c == N!count
           R == [l \in 0..c |-> Row(l)]
           Up(v, l) == N!mat_sig(N!mat_sum(N!mat_product(v, w[l]), b[l]))
           F == [l \in 1..c |-> [v \in Row(l - 1) |-> Up(v, l)]]
           Body(as) == [l \in 0..c |-> IF l = 0 THEN x ELSE Up(as[l - 1], l)]
           as == N!forward(w, b, x)
<1>1. c \in Nat /\ N!Layers = 1..c
  BY ArchIs
<1>2. \A l \in 1..c : \A v \in Row(l - 1) : Up(v, l) \in Row(l)
  BY <1>1, ProductIs DEF Numbers
<1>3. as = CHOOSE f : f = Body(f)
  BY DEF N!forward
<1> HIDE DEF as, Up
<1>4. (\A l \in 0..c : R[l] = Row(l)) /\ x \in R[0]
  BY <1>1
<1>5. \A l \in 1..c : \A v \in Row(l - 1) : F[l][v] = Up(v, l)
  OBVIOUS
<1>6. \A l \in 1..c : l \in 0..c /\ l - 1 \in 0..c /\ l # 0
  BY <1>1
<1>7. \A l \in 1..c : \A v \in R[l - 1] : F[l][v] \in R[l]
  BY <1>2, <1>4, <1>5, <1>6
<1> HIDE DEF c, R, F
<1>8. PICK f : Recursion(f, c, R, x, F)
  BY <1>1, <1>4, <1>7, RecursionExists
<1>9. f = Body(f)
  <2>1. f = [l \in 0..c |-> f[l]] /\ f[0] = x
    BY <1>8 DEF Recursion
  <2>2. \A l \in 1..c : f[l] = Up(f[l - 1], l)
    BY <1>4, <1>5, <1>6, <1>8 DEF Recursion
  <2>3. \A l \in 0..c : l = 0 \/ l \in 1..c
    BY <1>1
  <2>4. \A l \in 0..c : f[l] = IF l = 0 THEN x ELSE Up(f[l - 1], l)
    BY <1>6, <2>1, <2>2, <2>3
  <2> QED
    BY <2>1, <2>4, Zenon
<1>10. as = Body(as)
  <2> HIDE DEF Body
  <2> QED
    BY <1>3, <1>9, Zenon
<1>11. \A l \in 0..c : as[l] = IF l = 0 THEN x ELSE Up(as[l - 1], l)
  BY <1>10, Zenon
<1> HIDE DEF Body
<1>12. 0 \in 0..c /\ as[0] = x
  <2>1. 0 \in 0..c
    BY <1>1
  <2> QED
    BY <1>11, <2>1, Zenon
<1> DEFINE Good(m) == m <= c => as[m] \in Row(m)
           E == {m \in Nat : Good(m)}
<1>13. Good(0)
  BY <1>4, <1>12
<1>14. ASSUME NEW m \in Nat, Good(m) PROVE Good(m + 1)
  <2> SUFFICES ASSUME m + 1 <= c PROVE as[m + 1] \in Row(m + 1)
    OBVIOUS
  <2>1. m + 1 \in 1..c /\ m + 1 \in 0..c /\ (m + 1) - 1 = m /\ m + 1 # 0 /\ m <= c
    BY <1>1
  <2>2. as[m] \in Row(m)
    BY <1>14, <2>1
  <2>3. as[m + 1] = Up(as[m], m + 1)
    <3>1. as[m + 1] = Up(as[(m + 1) - 1], m + 1)
      BY <1>11, <2>1, Zenon
    <3> QED
      BY <2>1, <3>1, Zenon
  <2> QED
    BY <1>2, <2>1, <2>2, <2>3
<1> HIDE DEF Good
<1>15. 0 \in E /\ \A m \in Nat : m \in E => m + 1 \in E
  BY <1>13, <1>14
<1>16. \A m \in Nat : m \in E => Good(m)
  OBVIOUS
<1> HIDE DEF E
<1>17. Nat \subseteq E
  BY <1>15, SetInduction
<1>18. \A l \in 0..c : as[l] \in Row(l)
  <2> TAKE l \in 0..c
  <2>1. l \in Nat /\ l <= c
    BY <1>1
  <2>2. Good(l)
    BY <1>16, <1>17, <2>1, Zenon
  <2> QED
    BY <2>1, <2>2, Zenon DEF Good
<1> QED
  BY <1>18, Zenon DEF as, c

\* Activations, what neuron j of layer l sends down for v, and what a neuron
\* of layer l gets.
Activations(as) == \A l \in 0..N!count : as[l] \in Row(l)
Sent(as, v, l, j) == 2 * v[j] * N!Slope(as, l, j)
Down(w, as, v, l) ==
  [k \in Neurons(l) |->
     Total([j \in Neurons(l + 1) |-> Sent(as, v, l + 1, j) * w[l + 1][k][j]], Neurons(l + 1))]

LEMMA SlopeIs ==
  ASSUME NEW as, Activations(as), NEW l \in 0..N!count, NEW j \in Neurons(l)
  PROVE  as[l][j] \in Int /\ N!Slope(as, l, j) \in Int
<1>1. as[l][j] \in Int
  BY DEF Activations, Row
<1> DEFINE x == as[l][j]
<1>2. N!Slope(as, l, j) = x * (1 - x)
  BY DEF N!Slope
<1> HIDE DEF x
<1>3. x \in Int => x * (1 - x) \in Int
  OBVIOUS
<1> QED
  BY <1>1, <1>2, <1>3 DEF x

LEMMA SentIs ==
  ASSUME NEW as, Activations(as), NEW l \in 0..N!count, NEW v \in Row(l), NEW j \in Neurons(l)
  PROVE  v[j] \in Int /\ Sent(as, v, l, j) \in Int
<1>1. v[j] \in Int /\ N!Slope(as, l, j) \in Int
  BY SlopeIs DEF Row
<1> DEFINE s == N!Slope(as, l, j)
           x == v[j]
<1>2. Sent(as, v, l, j) = 2 * x * s
  BY DEF Sent
<1>3. x \in Int /\ s \in Int
  BY <1>1
<1> HIDE DEF s, x
<1>4. 2 * x * s \in Int
  BY <1>3
<1> QED
  BY <1>1, <1>2, <1>4

LEMMA RowIs ==
  ASSUME N!NeuralNetAssumption, NEW l \in 0..N!count
  PROVE  /\ arch[l + 1] \in Nat /\ Neurons(l) = 1..arch[l + 1]
         /\ IsFiniteSet(Neurons(l))
<1>1. arch[l + 1] \in Nat /\ Neurons(l) = 1..arch[l + 1]
  BY ArchIs DEF Neurons
<1> QED
  BY <1>1, FS_Interval

LEMMA TotalOfRow ==
  ASSUME N!NeuralNetAssumption, NEW l \in 0..N!count, NEW f \in Row(l)
  PROVE  N!SumFunction(f) = Total(f, Neurons(l)) /\ Total(f, Neurons(l)) \in Int
<1>1. arch[l + 1] \in Nat /\ DOMAIN f = 1..arch[l + 1] /\ Neurons(l) = 1..arch[l + 1]
  BY RowIs DEF Row
<1>2. \A j \in 1..arch[l + 1] : f[j] \in Int
  BY <1>1 DEF Row
<1>3. N!SumFunction(f) = Total(f, 1..arch[l + 1])
  BY <1>1, SumRow
<1>4. Total(f, 1..arch[l + 1]) \in Int
  BY <1>1, <1>2, TotalIsInt
<1> QED
  BY <1>1, <1>3, <1>4

\* The weights between layer l and the one above.
LEMMA WeightsAbove ==
  ASSUME N!NeuralNetAssumption, NEW w, NEW b, Numbers(w, b), NEW l \in 0..N!count - 1
  PROVE  /\ l \in 0..N!count /\ l + 1 \in 0..N!count /\ l + 1 \in N!Layers
         /\ \A k \in Neurons(l) : \A j \in Neurons(l + 1) : w[l + 1][k][j] \in Int
<1>1. l \in 0..N!count /\ l + 1 \in 0..N!count /\ l + 1 \in N!Layers /\ (l + 1) - 1 = l
  BY ArchIs
<1>2. w[l + 1] \in [Neurons(l) -> [Neurons(l + 1) -> Int]]
  BY <1>1 DEF Numbers, Parameters
<1> QED
  BY <1>1, <1>2

\* One step of the recursion down.
LEMMA DownIs ==
  ASSUME N!NeuralNetAssumption, NEW w, NEW b, Numbers(w, b), NEW as, Activations(as),
         NEW l \in 0..N!count - 1, NEW v \in Row(l + 1)
  PROVE  /\ Down(w, as, v, l) \in Row(l)
         /\ [k \in 1..arch[l + 1] |-> N!SumFunction([j \in 1..arch[l + 2] |->
               2 * v[j] * N!Slope(as, l + 1, j) * w[l + 1][k][j]])] = Down(w, as, v, l)
<1>1. l \in 0..N!count /\ l + 1 \in 0..N!count
  BY WeightsAbove
<1>2. \A k \in Neurons(l) : \A j \in Neurons(l + 1) : w[l + 1][k][j] \in Int
  BY WeightsAbove
<1> DEFINE f(k) == [j \in Neurons(l + 1) |-> Sent(as, v, l + 1, j) * w[l + 1][k][j]]
<1>3. ASSUME NEW k \in Neurons(l) PROVE f(k) \in Row(l + 1)
  <2>1. \A j \in Neurons(l + 1) : Sent(as, v, l + 1, j) * w[l + 1][k][j] \in Int
    <3> TAKE j \in Neurons(l + 1)
    <3>1. Sent(as, v, l + 1, j) \in Int /\ w[l + 1][k][j] \in Int
      BY <1>1, <1>2, SentIs
    <3> QED
      BY <3>1, Distributes
  <2> QED
    BY <2>1, Zenon DEF Row
<1>4. [k \in 1..arch[l + 1] |-> N!SumFunction([j \in 1..arch[l + 2] |->
         2 * v[j] * N!Slope(as, l + 1, j) * w[l + 1][k][j]])]
        = [k \in Neurons(l) |-> N!SumFunction(f(k))]
  <2>1. l + 2 = (l + 1) + 1
    BY <1>1
  <2>2. 1..arch[l + 2] = Neurons(l + 1) /\ 1..arch[l + 1] = Neurons(l)
    BY <2>1, Zenon DEF Neurons
  <2> QED
    BY <2>2, Zenon DEF Sent
<1>5. Down(w, as, v, l) = [k \in Neurons(l) |-> Total(f(k), Neurons(l + 1))]
  BY DEF Down
<1> HIDE DEF f
<1>6. \A k \in Neurons(l) : /\ N!SumFunction(f(k)) = Total(f(k), Neurons(l + 1))
                            /\ Total(f(k), Neurons(l + 1)) \in Int
  BY <1>1, <1>3, TotalOfRow
<1>7. Down(w, as, v, l) \in Row(l)
  BY <1>5, <1>6, Zenon DEF Row
<1>8. [k \in Neurons(l) |-> N!SumFunction(f(k))] = Down(w, as, v, l)
  BY <1>5, <1>6, Zenon
<1> QED
  BY <1>4, <1>7, <1>8, Zenon

\* What the recursion of back_prop computes.
Back(w, as, y, das) ==
  /\ das[N!count] = [j \in Neurons(N!count) |-> as[N!count][j] - y[j]]
  /\ \A l \in 0..N!count : das[l] \in Row(l)
  /\ \A l \in 0..N!count - 1 : das[l] = Down(w, as, das[l + 1], l)

\* There is such a function, and the model's is one.
LEMMA DeltasIs ==
  ASSUME N!NeuralNetAssumption, NEW w, NEW b, Numbers(w, b), NEW as, Activations(as),
         NEW y \in Row(N!count)
  PROVE  Back(w, as, y, N!Deltas(w, as, y))
<1> DEFINE c == N!count
           top == [j \in 1..arch[c + 1] |-> as[c][j] - y[j]]
           Low(v, l) == [k \in 1..arch[l + 1] |-> N!SumFunction([j \in 1..arch[l + 2] |->
                           2 * v[j] * N!Slope(as, l + 1, j) * w[l + 1][k][j]])]
           R == [l \in 0..c |-> Row(l)]
           F == [l \in 0..c - 1 |-> [v \in Row(l + 1) |-> Low(v, l)]]
           One(das, l) == IF l = c THEN [j \in 1..arch[l + 1] |-> as[l][j] - y[j]]
                          ELSE Low(das[l + 1], l)
           Body(das) == [l \in 0..c |-> One(das, l)]
           d == N!Deltas(w, as, y)
<1>1. c \in Nat /\ c \in 0..c /\ \A l \in 0..c - 1 : l \in 0..c /\ l + 1 \in 0..c /\ l # c
  BY ArchIs
<1>2. \A l \in 0..c - 1 : \A v \in Row(l + 1) : Low(v, l) = Down(w, as, v, l) /\ Low(v, l) \in Row(l)
  <2> TAKE l \in 0..c - 1
  <2> TAKE v \in Row(l + 1)
  <2>1. Down(w, as, v, l) \in Row(l)
    BY DownIs
  <2>2. Low(v, l) = Down(w, as, v, l)
    BY DownIs, Zenon
  <2> QED
    BY <2>1, <2>2, Zenon
<1>3. top = [j \in Neurons(c) |-> as[c][j] - y[j]] /\ top \in Row(c)
  <2>1. top = [j \in Neurons(c) |-> as[c][j] - y[j]]
    BY DEF Neurons
  <2>2. as[c] \in Row(c) /\ y \in Row(c)
    BY <1>1 DEF Activations
  <2>3. \A j \in Neurons(c) : as[c][j] \in Int /\ y[j] \in Int
    BY <2>2, Zenon DEF Row
  <2>4. \A u, v : u \in Int /\ v \in Int => u - v \in Int
    OBVIOUS
  <2>5. \A j \in Neurons(c) : as[c][j] - y[j] \in Int
    BY <2>3, <2>4, Zenon
  <2> QED
    BY <2>1, <2>5, Zenon DEF Row
<1>4. d = CHOOSE f : f = Body(f)
  BY DEF N!Deltas
<1>5. \A f : One(f, c) = top /\ \A l \in 0..c - 1 : One(f, l) = Low(f[l + 1], l)
  BY <1>1, Zenon
<1> HIDE DEF Low, d, top, One
<1>6. /\ \A l \in 0..c : R[l] = Row(l)
      /\ \A l \in 0..c - 1 : \A v \in Row(l + 1) : F[l][v] = Low(v, l)
  BY Zenon
<1> HIDE DEF R, F, c
<1>7. top \in R[c] /\ \A l \in 0..c - 1 : \A v \in R[l + 1] : F[l][v] \in R[l]
  BY <1>1, <1>2, <1>3, <1>6
<1>8. PICK f : Falls(f, c, top, F)
  <2> HIDE DEF Body
  <2> QED
    BY <1>1, <1>7, Downward
<1>9. /\ f = [l \in 0..c |-> f[l]] /\ f[c] = top
      /\ \A l \in 0..c - 1 : f[l] = F[l][f[l + 1]]
  BY <1>8, Zenon DEF Falls
<1> DEFINE Typed(g) == {l \in 0..c : g[l] \in Row(l)}
<1>10. ASSUME NEW g, g[c] = top, NEW l \in 0..c - 1, l + 1 \in Typed(g),
             g[l] = F[l][g[l + 1]] \/ g[l] = Low(g[l + 1], l)
      PROVE  l \in Typed(g) /\ g[l] = Low(g[l + 1], l)
  <2>1. g[l + 1] \in Row(l + 1)
    BY <1>10
  <2>2. g[l] = Low(g[l + 1], l)
    BY <1>6, <1>10, <2>1, Zenon
  <2>3. Low(g[l + 1], l) \in Row(l)
    BY <1>2, <2>1
  <2> QED
    BY <1>1, <2>2, <2>3
<1>11. ASSUME NEW g, g[c] = top,
              \A l \in 0..c - 1 : g[l] = F[l][g[l + 1]] \/ g[l] = Low(g[l + 1], l)
       PROVE  0..c \subseteq Typed(g)
  <2>1. c \in Typed(g)
    BY <1>1, <1>3, <1>11
  <2>2. \A l \in 0..c - 1 : l + 1 \in Typed(g) => l \in Typed(g)
    BY <1>10, <1>11
  <2> HIDE DEF Typed
  <2> QED
    BY <1>1, <2>1, <2>2, DownFrom
<1>12. f = Body(f)
  <2>1. 0..c \subseteq Typed(f)
    BY <1>9, <1>11
  <2>2. \A l \in 0..c - 1 : f[l] = Low(f[l + 1], l)
    BY <1>1, <1>9, <1>10, <2>1
  <2>3. \A l \in 0..c : l = c \/ l \in 0..c - 1
    BY <1>1
  <2>4. \A l \in 0..c : f[l] = One(f, l)
    BY <1>5, <1>9, <2>2, <2>3
  <2> QED
    BY <1>9, <2>4, Zenon
<1>13. d = Body(d)
  <2> HIDE DEF Body
  <2> QED
    BY <1>4, <1>12, Zenon
<1>14. \A l \in 0..c : d[l] = One(d, l)
  BY <1>13, Zenon
<1> HIDE DEF Body
<1>15. d[c] = top /\ \A l \in 0..c - 1 : d[l] = Low(d[l + 1], l)
  BY <1>1, <1>5, <1>14
<1>16. 0..c \subseteq Typed(d)
  BY <1>11, <1>15
<1>17. \A l \in 0..c : d[l] \in Row(l)
  BY <1>16
<1>18. \A l \in 0..c - 1 : d[l] = Down(w, as, d[l + 1], l)
  BY <1>1, <1>2, <1>15, <1>17
<1>19. d[c] = [j \in Neurons(c) |-> as[c][j] - y[j]]
  BY <1>3, <1>15
<1> QED
  BY <1>17, <1>18, <1>19, Zenon DEF Back, d, c

\* Derivatives by a parameter of neuron q of layer p, of its activations and of
\* those of a layer above, from those of the layer below.
Factor(as, p, q, h, j) == IF j # q THEN 0 ELSE IF h = N!ByBias THEN 1 ELSE as[p - 1][h]
Seed(as, p, q, h) == [j \in Neurons(p) |-> N!Slope(as, p, j) * Factor(as, p, q, h, j)]
Up(w, as, v, l) ==
  [j \in Neurons(l) |->
     N!Slope(as, l, j) * Total([k \in Neurons(l - 1) |-> v[k] * w[l][k][j]], Neurons(l - 1))]

\* A parameter of neuron q of layer p.
IsParameter(p, q, h) == /\ p \in N!Layers /\ q \in Neurons(p)
                        /\ h = N!ByBias \/ h \in Neurons(p - 1)

LEMMA FactorIs ==
  ASSUME N!NeuralNetAssumption, NEW as, Activations(as), NEW p, NEW q, NEW h,
         IsParameter(p, q, h), NEW j
  PROVE  Factor(as, p, q, h, j) \in Int
<1>1. p - 1 \in 0..N!count
  BY ArchIs DEF IsParameter
<1>2. h \in Neurons(p - 1) => as[p - 1][h] \in Int
  BY <1>1 DEF Activations, Row
<1>3. h = N!ByBias \/ h \in Neurons(p - 1)
  BY DEF IsParameter
<1> DEFINE f == Factor(as, p, q, h, j)
<1>4. f = 0 \/ f = 1 \/ (h # N!ByBias /\ f = as[p - 1][h])
  <2>1. CASE j # q
    BY <2>1, Zenon DEF Factor
  <2>2. CASE j = q /\ h = N!ByBias
    BY <2>2, Zenon DEF Factor
  <2>3. CASE j = q /\ h # N!ByBias
    BY <2>3, Zenon DEF Factor
  <2> QED
    BY <2>1, <2>2, <2>3, Zenon
<1> HIDE DEF f
<1>5. 0 \in Int /\ 1 \in Int
  OBVIOUS
<1>6. f \in Int
  BY <1>2, <1>3, <1>4, <1>5, Zenon
<1> QED
  BY <1>6 DEF f

LEMMA SeedIs ==
  ASSUME N!NeuralNetAssumption, NEW as, Activations(as), NEW p, NEW q, NEW h, IsParameter(p, q, h)
  PROVE  Seed(as, p, q, h) \in Row(p)
<1>1. p \in 0..N!count
  BY ArchIs DEF IsParameter
<1>2. \A j \in Neurons(p) : N!Slope(as, p, j) * Factor(as, p, q, h, j) \in Int
  <2> TAKE j \in Neurons(p)
  <2>1. N!Slope(as, p, j) \in Int /\ Factor(as, p, q, h, j) \in Int
    BY <1>1, SlopeIs, FactorIs
  <2> QED
    BY <2>1, Distributes
<1> QED
  BY <1>2, Zenon DEF Seed, Row

\* One step of the recursion up.
LEMMA UpIs ==
  ASSUME N!NeuralNetAssumption, NEW w, NEW b, Numbers(w, b), NEW as, Activations(as),
         NEW l \in 1..N!count, NEW v \in Row(l - 1)
  PROVE  /\ Up(w, as, v, l) \in Row(l)
         /\ [j \in 1..arch[l + 1] |-> N!Slope(as, l, j) *
               N!SumFunction([k \in 1..arch[l] |-> v[k] * w[l][k][j]])] = Up(w, as, v, l)
<1>1. l - 1 \in 0..N!count - 1 /\ l - 1 \in 0..N!count /\ l \in 0..N!count /\ (l - 1) + 1 = l
  BY ArchIs
<1>2. \A k \in Neurons(l - 1) : \A j \in Neurons(l) : w[l][k][j] \in Int
  <2>1. \A k \in Neurons(l - 1) : \A j \in Neurons((l - 1) + 1) : w[(l - 1) + 1][k][j] \in Int
    BY <1>1, WeightsAbove
  <2> QED
    BY <1>1, <2>1
<1> DEFINE f(j) == [k \in Neurons(l - 1) |-> v[k] * w[l][k][j]]
<1>3. ASSUME NEW j \in Neurons(l) PROVE f(j) \in Row(l - 1)
  <2>1. \A k \in Neurons(l - 1) : v[k] * w[l][k][j] \in Int
    <3> TAKE k \in Neurons(l - 1)
    <3>1. v[k] \in Int /\ w[l][k][j] \in Int
      BY <1>2 DEF Row
    <3> QED
      BY <3>1, Distributes
  <2> QED
    BY <2>1, Zenon DEF Row
<1>4. [j \in 1..arch[l + 1] |-> N!Slope(as, l, j) *
         N!SumFunction([k \in 1..arch[l] |-> v[k] * w[l][k][j]])]
        = [j \in Neurons(l) |-> N!Slope(as, l, j) * N!SumFunction(f(j))]
  <2>1. 1..arch[l] = Neurons(l - 1) /\ 1..arch[l + 1] = Neurons(l)
    BY <1>1, Zenon DEF Neurons
  <2> QED
    BY <2>1, Zenon
<1>5. Up(w, as, v, l) = [j \in Neurons(l) |-> N!Slope(as, l, j) * Total(f(j), Neurons(l - 1))]
  BY DEF Up
<1> HIDE DEF f
<1>6. \A j \in Neurons(l) : /\ N!SumFunction(f(j)) = Total(f(j), Neurons(l - 1))
                            /\ Total(f(j), Neurons(l - 1)) \in Int
  BY <1>1, <1>3, TotalOfRow
<1>7. \A j \in Neurons(l) : N!Slope(as, l, j) * Total(f(j), Neurons(l - 1)) \in Int
  <2> TAKE j \in Neurons(l)
  <2>1. N!Slope(as, l, j) \in Int /\ Total(f(j), Neurons(l - 1)) \in Int
    BY <1>1, <1>6, SlopeIs
  <2> QED
    BY <2>1, Distributes
<1>8. Up(w, as, v, l) \in Row(l)
  BY <1>5, <1>7, Zenon DEF Row
<1>9. [j \in Neurons(l) |-> N!Slope(as, l, j) * N!SumFunction(f(j))] = Up(w, as, v, l)
  BY <1>5, <1>6, Zenon
<1> QED
  BY <1>4, <1>8, <1>9, Zenon

\* What the derivatives of the layers above p are.
Forth(w, as, p, q, h, ds) ==
  /\ ds[p] = Seed(as, p, q, h)
  /\ \A l \in p..N!count : ds[l] \in Row(l)
  /\ \A l \in p + 1..N!count : ds[l] = Up(w, as, ds[l - 1], l)

\* There is such a function, and the last of the model's is its last.
LEMMA DerivativesIs ==
  ASSUME N!NeuralNetAssumption, NEW w, NEW b, Numbers(w, b), NEW as, Activations(as),
         NEW p, NEW q, NEW h, IsParameter(p, q, h)
  PROVE  \E ds : Forth(w, as, p, q, h, ds) /\ N!Derivatives(w, as, p, q, h) = ds[N!count]
<1> DEFINE c == N!count
           seed == Seed(as, p, q, h)
           High(v, l) == [j \in 1..arch[l + 1] |-> N!Slope(as, l, j) *
                            N!SumFunction([k \in 1..arch[l] |-> v[k] * w[l][k][j]])]
           R == [l \in p..c |-> Row(l)]
           F == [l \in p + 1..c |-> [v \in Row(l - 1) |-> High(v, l)]]
           Got(ds, l, j) ==
             IF l = p THEN IF j # q THEN 0 ELSE IF h = N!ByBias THEN 1 ELSE as[l - 1][h]
             ELSE N!SumFunction([k \in 1..arch[l] |-> ds[l - 1][k] * w[l][k][j]])
           One(ds, l) == [j \in 1..arch[l + 1] |-> N!Slope(as, l, j) * Got(ds, l, j)]
           Body(ds) == [l \in p..c |-> One(ds, l)]
           d == CHOOSE f : f = Body(f)
<1>1. /\ c \in Nat /\ p \in Nat /\ p <= c /\ p \in p..c /\ c \in p..c
      /\ \A l \in p + 1..c : l \in p..c /\ l - 1 \in p..c /\ l # p /\ l \in 1..c
      /\ \A l \in p..c - 1 : l + 1 \in p + 1..c /\ (l + 1) - 1 = l /\ l + 1 \in p..c
  <2>1. c \in Nat /\ p \in 1..c
    BY ArchIs DEF IsParameter
  <2> HIDE DEF c
  <2> QED
    BY <2>1
<1>2. \A l \in p + 1..c : \A v \in Row(l - 1) : High(v, l) = Up(w, as, v, l) /\ High(v, l) \in Row(l)
  <2> TAKE l \in p + 1..c
  <2> TAKE v \in Row(l - 1)
  <2>0. l \in 1..c
    BY <1>1
  <2>1. Up(w, as, v, l) \in Row(l)
    BY <2>0, UpIs
  <2>2. High(v, l) = Up(w, as, v, l)
    BY <2>0, UpIs, Zenon
  <2> QED
    BY <2>1, <2>2, Zenon
<1>3. seed \in Row(p)
  BY SeedIs
<1>4. N!Derivatives(w, as, p, q, h) = d[c]
  BY Zenon DEF N!Derivatives
<1>5. \A f : One(f, p) = seed
  <2>1. \A f, j : Got(f, p, j) = Factor(as, p, q, h, j)
    BY Zenon DEF Factor
  <2> HIDE DEF Got
  <2> QED
    BY <2>1, Zenon DEF Seed, Neurons
<1>6. \A f : \A l \in p + 1..c : One(f, l) = High(f[l - 1], l)
  <2> TAKE f
  <2> TAKE l \in p + 1..c
  <2>1. \A j : Got(f, l, j) = N!SumFunction([k \in 1..arch[l] |-> f[l - 1][k] * w[l][k][j]])
    BY <1>1, Zenon
  <2> HIDE DEF Got
  <2> QED
    BY <2>1, Zenon
<1> HIDE DEF High, seed, One, Got
<1>7. /\ \A l \in p..c : R[l] = Row(l)
      /\ \A l \in p + 1..c : \A v \in Row(l - 1) : F[l][v] = High(v, l)
  BY Zenon
<1> HIDE DEF R, F, c
<1>8. seed \in R[p] /\ \A l \in p + 1..c : \A v \in R[l - 1] : F[l][v] \in R[l]
  <2>1. seed \in R[p]
    BY <1>1, <1>3, <1>7
  <2>2. ASSUME NEW l \in p + 1..c PROVE \A v \in R[l - 1] : F[l][v] \in R[l]
    <3>1. R[l - 1] = Row(l - 1) /\ R[l] = Row(l)
      BY <1>1, <1>7, Zenon
    <3> QED
      BY <1>2, <1>7, <3>1, Zenon
  <2> QED
    BY <2>1, <2>2
<1>9. PICK f : Rises(f, p, c, seed, F)
  <2> HIDE DEF Body
  <2> QED
    BY <1>1, <1>8, Upward
<1>10. /\ f = [l \in p..c |-> f[l]] /\ f[p] = seed
       /\ \A l \in p + 1..c : f[l] = F[l][f[l - 1]]
  BY <1>9, Zenon DEF Rises
<1> DEFINE Typed(g) == {l \in p..c : g[l] \in Row(l)}
<1>11. ASSUME NEW g, NEW l \in p + 1..c, l - 1 \in Typed(g),
              g[l] = F[l][g[l - 1]] \/ g[l] = High(g[l - 1], l)
       PROVE  l \in Typed(g) /\ g[l] = High(g[l - 1], l)
  <2>1. g[l - 1] \in Row(l - 1)
    BY <1>11
  <2>2. g[l] = High(g[l - 1], l)
    BY <1>7, <1>11, <2>1, Zenon
  <2>3. High(g[l - 1], l) \in Row(l)
    BY <1>2, <2>1
  <2> QED
    BY <1>1, <2>2, <2>3
<1>12. ASSUME NEW g, g[p] = seed,
              \A l \in p + 1..c : g[l] = F[l][g[l - 1]] \/ g[l] = High(g[l - 1], l)
       PROVE  p..c \subseteq Typed(g)
  <2>1. p \in Typed(g)
    BY <1>1, <1>3, <1>12
  <2>2. \A l \in p + 1..c : l - 1 \in Typed(g) => l \in Typed(g)
    BY <1>11, <1>12
  <2> HIDE DEF Typed
  <2>3. \A l \in p..c - 1 : l \in Typed(g) => l + 1 \in Typed(g)
    BY <1>1, <2>2
  <2> QED
    BY <1>1, <2>1, <2>3, UpFrom
<1>13. f = Body(f)
  <2>1. p..c \subseteq Typed(f)
    BY <1>10, <1>12
  <2>2. \A l \in p + 1..c : f[l] = High(f[l - 1], l)
    BY <1>1, <1>10, <1>11, <2>1
  <2>3. \A l \in p..c : l = p \/ l \in p + 1..c
    BY <1>1
  <2>4. \A l \in p..c : f[l] = One(f, l)
    BY <1>5, <1>6, <1>10, <2>2, <2>3
  <2> QED
    BY <1>10, <2>4, Zenon
<1>14. d = Body(d)
  <2> HIDE DEF Body
  <2> QED
    BY <1>13, Zenon
<1>15. \A l \in p..c : d[l] = One(d, l)
  BY <1>14, Zenon
<1> HIDE DEF Body, d
<1>16. d[p] = seed /\ \A l \in p + 1..c : d[l] = High(d[l - 1], l)
  BY <1>1, <1>5, <1>6, <1>15
<1>17. p..c \subseteq Typed(d)
  BY <1>12, <1>16
<1>18. \A l \in p..c : d[l] \in Row(l)
  BY <1>17
<1>19. \A l \in p + 1..c : d[l] = Up(w, as, d[l - 1], l)
  BY <1>1, <1>2, <1>16, <1>18
<1>20. Forth(w, as, p, q, h, d)
  BY <1>16, <1>18, <1>19, Zenon DEF Forth, seed, c
<1> QED
  BY <1>4, <1>20, Zenon DEF c

-----------------------------------------------------------------------------
(* Down and up a layer, and over all of them. *)

\* The product of two rows of layer m.
Pair(u, v, m) == Total([j \in Neurons(m) |-> u[j] * v[j]], Neurons(m))

LEMMA PairIs ==
  ASSUME N!NeuralNetAssumption, NEW m \in 0..N!count, NEW u \in Row(m), NEW v \in Row(m)
  PROVE  Pair(u, v, m) \in Int
<1> DEFINE f == [j \in Neurons(m) |-> u[j] * v[j]]
<1>1. \A j \in Neurons(m) : u[j] * v[j] \in Int
  <2> TAKE j \in Neurons(m)
  <2>1. u[j] \in Int /\ v[j] \in Int
    BY DEF Row
  <2> QED
    BY <2>1, Distributes
<1>2. f \in Row(m)
  BY <1>1, Zenon DEF Row
<1> HIDE DEF f
<1>3. Total(f, Neurons(m)) \in Int
  BY <1>2, TotalOfRow
<1> QED
  BY <1>3 DEF f, Pair

LEMMA Reorder ==
  ASSUME NEW x \in Int, NEW s \in Int, NEW t \in Int
  PROVE  (2 * x * s) * t = 2 * (x * (s * t)) /\ x * (s * t) \in Int
OBVIOUS

\* What the errors v of layer m + 1 send down, times derivatives x of layer m,
\* are twice v times the derivatives of their own layer.
LEMMA OneLayerDown ==
  ASSUME N!NeuralNetAssumption, NEW w, NEW b, Numbers(w, b), NEW as, Activations(as),
         NEW m \in 0..N!count - 1, NEW v \in Row(m + 1), NEW x \in Row(m)
  PROVE  Pair(Down(w, as, v, m), x, m) = 2 * Pair(v, Up(w, as, x, m + 1), m + 1)
<1> DEFINE h == m + 1
           A == arch[m + 1]
           B == arch[h + 1]
           W == w[h]
           u == [j \in 1..B |-> Sent(as, v, h, j)]
           dn == Down(w, as, v, m)
           up == Up(w, as, x, h)
<1>1. /\ m \in 0..N!count /\ h \in 0..N!count /\ h \in 1..N!count /\ h - 1 = m
      /\ \A k \in Neurons(m) : \A j \in Neurons(h) : W[k][j] \in Int
  <2>1. h \in 1..N!count /\ h - 1 = m
    BY ArchIs
  <2> QED
    BY <2>1, WeightsAbove
<1>2. A \in Nat /\ B \in Nat /\ Neurons(m) = 1..A /\ Neurons(h) = 1..B
  BY <1>1, RowIs
<1>3. \A j \in 1..B : /\ u[j] = Sent(as, v, h, j) /\ u[j] \in Int /\ v[j] \in Int
                      /\ N!Slope(as, h, j) \in Int
  BY <1>1, <1>2, SentIs, SlopeIs
<1>4. dn = [k \in 1..A |-> Total([j \in 1..B |-> Sent(as, v, h, j) * W[k][j]], 1..B)]
  BY <1>2, Zenon DEF Down
<1>5. up = [j \in 1..B |-> N!Slope(as, h, j) * Total([k \in 1..A |-> x[k] * W[k][j]], 1..A)]
  BY <1>1, <1>2, Zenon DEF Up
<1> HIDE DEF u, A, B, W, dn, up, h
<1>6. \A k \in 1..A : dn[k] = RowSum(u, W, k, B)
  <2> TAKE k \in 1..A
  <2>1. [j \in 1..B |-> Sent(as, v, h, j) * W[k][j]] = [j \in 1..B |-> u[j] * W[k][j]]
    BY <1>3, Zenon
  <2> QED
    BY <1>4, <2>1, Zenon DEF RowSum
<1>7. \A j \in 1..B : up[j] = N!Slope(as, h, j) * ColSum(x, W, j, A)
  BY <1>5, Zenon DEF ColSum
<1>8. \A k \in 1..A : x[k] \in Int
  BY <1>2 DEF Row
<1>9. Arrays(A, B, x, u, W)
  BY <1>1, <1>2, <1>3, <1>8 DEF Arrays
<1>10. /\ \A k \in 1..A : RowSum(u, W, k, B) \in Int
       /\ \A j \in 1..B : ColSum(x, W, j, A) \in Int
  <2>1. ASSUME NEW k \in 1..A PROVE RowSum(u, W, k, B) \in Int
    <3> DEFINE f == [j \in 1..B |-> u[j] * W[k][j]]
    <3>1. \A j \in 1..B : u[j] \in Int /\ W[k][j] \in Int
      BY <1>9 DEF Arrays
    <3>2. \A j \in 1..B : f[j] \in Int
      BY <3>1, Distributes
    <3> HIDE DEF f
    <3>3. Total(f, 1..B) \in Int
      BY <1>2, <3>2, TotalIsInt
    <3> QED
      BY <3>3 DEF f, RowSum
  <2>2. ASSUME NEW j \in 1..B PROVE ColSum(x, W, j, A) \in Int
    <3> DEFINE f == [k \in 1..A |-> x[k] * W[k][j]]
    <3>1. \A k \in 1..A : x[k] \in Int /\ W[k][j] \in Int
      BY <1>9 DEF Arrays
    <3>2. \A k \in 1..A : f[k] \in Int
      BY <3>1, Distributes
    <3> HIDE DEF f
    <3>3. Total(f, 1..A) \in Int
      BY <1>2, <3>2, TotalIsInt
    <3> QED
      BY <3>3 DEF f, ColSum
  <2> QED
    BY <2>1, <2>2
<1>11. Pair(dn, x, m) = Total([k \in 1..A |-> x[k] * RowSum(u, W, k, B)], 1..A)
  <2>1. \A k \in 1..A : dn[k] * x[k] = x[k] * RowSum(u, W, k, B)
    BY <1>6, <1>8, <1>10
  <2>2. [k \in 1..A |-> dn[k] * x[k]] = [k \in 1..A |-> x[k] * RowSum(u, W, k, B)]
    BY <2>1, Zenon
  <2> QED
    BY <1>2, <2>2, Zenon DEF Pair
<1>12. Total([k \in 1..A |-> x[k] * RowSum(u, W, k, B)], 1..A)
         = Total([j \in 1..B |-> u[j] * ColSum(x, W, j, A)], 1..B)
  BY <1>2, <1>9, Exchange
<1> DEFINE y == [j \in 1..B |-> u[j] * ColSum(x, W, j, A)]
           z == [j \in 1..B |-> v[j] * up[j]]
<1>13. \A j \in 1..B : z[j] \in Int /\ y[j] = 2 * z[j]
  <2> TAKE j \in 1..B
  <2> DEFINE s == N!Slope(as, h, j)
             t == ColSum(x, W, j, A)
             e == v[j]
  <2>1. y[j] = u[j] * t /\ z[j] = e * (s * t)
    BY <1>7, Zenon
  <2>2. u[j] = 2 * e * s
    BY <1>3, Zenon DEF Sent
  <2>3. e \in Int /\ s \in Int /\ t \in Int
    BY <1>3, <1>10
  <2> HIDE DEF s, t, e, y, z
  <2>4. y[j] = (2 * e * s) * t
    BY <2>1, <2>2, Zenon
  <2> QED
    BY <2>1, <2>3, <2>4, Reorder
<1> HIDE DEF y, z
<1>14. Scaled(y, 2, z, B)
  BY <1>13 DEF Scaled
<1>15. Total(y, 1..B) = 2 * Total(z, 1..B)
  BY <1>2, <1>14, TotalTimes
<1>16. Pair(v, up, h) = Total(z, 1..B)
  BY <1>2, Zenon DEF Pair, z
<1>17. Pair(dn, x, m) = 2 * Pair(v, up, h)
  BY <1>11, <1>12, <1>15, <1>16, Zenon DEF y
<1> QED
  BY <1>17, Zenon DEF dn, up, h

\* Powers of 2.
LEMMA PowerIs ==
  ASSUME N!NeuralNetAssumption
  PROVE  /\ N!Power[0] = 1 /\ \A i \in 0..N!count : N!Power[i] \in Int
         /\ \A i \in 0..N!count - 1 : N!Power[i + 1] = 2 * N!Power[i]
<1> DEFINE c == N!count
           One(f, i) == IF i = 0 THEN 1 ELSE 2 * f[i - 1]
           Body(f) == [i \in 0..c |-> One(f, i)]
           R == [i \in 0..c |-> Int]
           F == [i \in 1..c |-> [v \in Int |-> 2 * v]]
           h == N!Power
<1>1. c \in Nat /\ 0 \in 0..c /\ \A i \in 1..c : i \in 0..c /\ i # 0 /\ i - 1 \in 0..c
  BY ArchIs
<1>2. h = CHOOSE f : f = Body(f)
  BY DEF N!Power
<1>3. \A f : One(f, 0) = 1 /\ \A i \in 1..c : One(f, i) = 2 * f[i - 1]
  BY <1>1, Zenon
<1> HIDE DEF h, One
<1>4. (\A i \in 0..c : R[i] = Int) /\ \A i \in 1..c : \A v \in Int : F[i][v] = 2 * v
  OBVIOUS
<1> HIDE DEF R, F, c
<1>5. 1 \in R[0] /\ \A i \in 1..c : \A v \in R[i - 1] : F[i][v] \in R[i]
  BY <1>1, <1>4
<1>6. PICK f : Recursion(f, c, R, 1, F)
  <2> HIDE DEF Body
  <2> QED
    BY <1>1, <1>5, RecursionExists
<1>7. f = Body(f)
  <2>1. f = [i \in 0..c |-> f[i]] /\ f[0] = 1 /\ \A i \in 0..c : f[i] \in R[i]
    BY <1>6, Zenon DEF Recursion
  <2>2. \A i \in 1..c : f[i] = F[i][f[i - 1]]
    BY <1>6, Zenon DEF Recursion
  <2>3. \A i \in 1..c : f[i] = 2 * f[i - 1]
    BY <1>1, <1>4, <2>1, <2>2
  <2>4. \A i \in 0..c : i = 0 \/ i \in 1..c
    BY <1>1
  <2>5. \A i \in 0..c : f[i] = One(f, i)
    BY <1>3, <2>1, <2>3, <2>4
  <2> QED
    BY <2>1, <2>5, Zenon
<1>8. h = Body(h)
  <2> HIDE DEF Body
  <2> QED
    BY <1>2, <1>7, Zenon
<1>9. \A i \in 0..c : h[i] = One(h, i)
  BY <1>8, Zenon
<1> HIDE DEF Body
<1>10. h[0] = 1 /\ \A i \in 1..c : h[i] = 2 * h[i - 1]
  BY <1>1, <1>3, <1>9
<1>11. \A i \in 0..c - 1 : h[i + 1] = 2 * h[i]
  <2> TAKE i \in 0..c - 1
  <2>1. i + 1 \in 1..c /\ (i + 1) - 1 = i
    BY <1>1
  <2>2. h[i + 1] = 2 * h[(i + 1) - 1]
    BY <1>10, <2>1, Zenon
  <2> QED
    BY <2>1, <2>2, Zenon
<1> DEFINE E == {i \in 0..c : h[i] \in Int}
<1>12. 0 \in E
  BY <1>1, <1>10
<1>13. \A i \in 0..c - 1 : i \in E => i + 1 \in E
  <2> TAKE i \in 0..c - 1
  <2> SUFFICES ASSUME i \in E PROVE i + 1 \in E
    OBVIOUS
  <2>1. i + 1 \in 0..c /\ h[i] \in Int /\ h[i + 1] = 2 * h[i]
    BY <1>1, <1>11
  <2> QED
    BY <2>1
<1>14. \A i \in E : h[i] \in Int
  OBVIOUS
<1> HIDE DEF E
<1>15. 0..c \subseteq E
  BY <1>1, <1>12, <1>13, UpFrom
<1>16. \A i \in 0..c : h[i] \in Int
  BY <1>14, <1>15
<1> QED
  BY <1>10, <1>11, <1>16, Zenon DEF h, c

\* The errors and the derivatives of layer p together, and of the output.
Doubled(das, ds, p) ==
  Pair(das[p], ds[p], p) = N!Power[N!count - p] * Pair(das[N!count], ds[N!count], N!count)

\* From the output down to any layer with derivatives, a factor 2 a layer.
LEMMA DownToParameter ==
  ASSUME N!NeuralNetAssumption, NEW w, NEW b, Numbers(w, b), NEW as, Activations(as),
         NEW y, NEW das, Back(w, as, y, das),
         NEW p, NEW q, NEW h, IsParameter(p, q, h), NEW ds, Forth(w, as, p, q, h, ds)
  PROVE  Doubled(das, ds, p)
<1> DEFINE c == N!count
           e(m) == Pair(das[m], ds[m], m)
           Good(m) == p <= m => e(m) = N!Power[c - m] * e(c)
           E == {m \in 0..c : Good(m)}
<1>1. c \in Nat /\ p \in 1..c /\ c \in 0..c /\ p \in 0..c
  BY ArchIs DEF IsParameter
<1>2. \A m \in 0..c : das[m] \in Row(m) /\ (p <= m => ds[m] \in Row(m))
  <2> TAKE m \in 0..c
  <2>1. das[m] \in Row(m)
    BY DEF Back
  <2>2. p <= m => m \in p..N!count
    BY <1>1
  <2> QED
    BY <2>1, <2>2 DEF Forth
<1>3. e(c) \in Int
  <2>1. das[c] \in Row(c) /\ ds[c] \in Row(c)
    BY <1>1, <1>2
  <2> QED
    BY <1>1, <2>1, PairIs
<1>4. Good(c)
  <2>1. c - c = 0
    BY <1>1
  <2>2. N!Power[c - c] = 1
    BY <2>1, PowerIs, Zenon
  <2> HIDE DEF e
  <2>3. 1 * e(c) = e(c)
    BY <1>3
  <2> QED
    BY <2>2, <2>3, Zenon
<1>5. \A m \in 0..c - 1 : Good(m + 1) => Good(m)
  <2> TAKE m \in 0..c - 1
  <2> SUFFICES ASSUME Good(m + 1), p <= m PROVE e(m) = N!Power[c - m] * e(c)
    OBVIOUS
  <2>1. /\ m \in 0..c /\ m + 1 \in 0..c /\ p <= m + 1 /\ m + 1 \in p + 1..N!count
        /\ (m + 1) - 1 = m /\ c - (m + 1) \in 0..N!count - 1 /\ c - (m + 1) \in 0..N!count
        /\ (c - (m + 1)) + 1 = c - m
    BY <1>1
  <2>2. das[m + 1] \in Row(m + 1) /\ ds[m] \in Row(m)
    BY <1>2, <2>1
  <2>3. das[m] = Down(w, as, das[m + 1], m)
    BY DEF Back
  <2>4. ds[m + 1] = Up(w, as, ds[m], m + 1)
    <3>1. ds[m + 1] = Up(w, as, ds[(m + 1) - 1], m + 1)
      BY <2>1, Zenon DEF Forth
    <3> QED
      BY <2>1, <3>1, Zenon
  <2>5. e(m) = 2 * e(m + 1)
    <3>1. Pair(Down(w, as, das[m + 1], m), ds[m], m)
            = 2 * Pair(das[m + 1], Up(w, as, ds[m], m + 1), m + 1)
      BY <2>2, OneLayerDown
    <3> QED
      BY <2>3, <2>4, <3>1, Zenon
  <2> HIDE DEF e
  <2>6. e(m + 1) = N!Power[c - (m + 1)] * e(c)
    BY <2>1
  <2> DEFINE r == N!Power[c - (m + 1)]
  <2>7. r \in Int /\ N!Power[c - m] = 2 * r
    <3>1. N!Power[(c - (m + 1)) + 1] = 2 * r /\ r \in Int
      BY <2>1, PowerIs
    <3> QED
      BY <2>1, <3>1, Zenon
  <2> HIDE DEF r
  <2>8. 2 * (r * e(c)) = (2 * r) * e(c)
    BY <1>3, <2>7
  <2> QED
    BY <2>5, <2>6, <2>7, <2>8, Zenon DEF r
<1> HIDE DEF Good
<1>6. c \in E /\ \A m \in 0..c - 1 : m + 1 \in E => m \in E
  <2>1. \A m \in 0..c - 1 : m \in 0..c
    BY <1>1
  <2> QED
    BY <1>1, <1>4, <1>5, <2>1
<1>7. \A m \in E : Good(m)
  OBVIOUS
<1> HIDE DEF E
<1>8. 0..c \subseteq E
  <2> HIDE DEF c
  <2> QED
    BY <1>1, <1>6, DownFrom
<1>9. Good(p) /\ p <= p
  BY <1>1, <1>7, <1>8
<1> QED
  BY <1>9, Zenon DEF Good, Doubled

\* The derivative of the cost of a sample by a parameter.
CostSlope(w, as, y, p, q, h) ==
  N!SumFunction([j \in 1..arch[N!count + 1] |->
    2 * (as[N!count][j] - y[j]) * N!Derivatives(w, as, p, q, h)[j]])

\* What back_prop adds up for the parameter.
DoublesCost(w, as, y, p, q, h) ==
  Sent(as, N!Deltas(w, as, y)[p], p, q) * Factor(as, p, q, h, q)
    = N!Power[N!count - p] * CostSlope(w, as, y, p, q, h)

LEMMA SampleGradient ==
  ASSUME N!NeuralNetAssumption, NEW w, NEW b, Numbers(w, b), NEW as, Activations(as),
         NEW y \in Row(N!count), NEW p, NEW q, NEW h, IsParameter(p, q, h)
  PROVE  /\ CostSlope(w, as, y, p, q, h) \in Int
         /\ DoublesCost(w, as, y, p, q, h)
<1> DEFINE c == N!count
           das == N!Deltas(w, as, y)
           dc == N!Derivatives(w, as, p, q, h)
           f == [j \in 1..arch[c + 1] |-> 2 * (as[c][j] - y[j]) * dc[j]]
<1>1. PICK ds : Forth(w, as, p, q, h, ds) /\ dc = ds[c]
  BY DerivativesIs
<1>2. Back(w, as, y, das)
  BY DeltasIs
<1>3. c \in 0..c /\ p \in 0..c /\ c \in p..c /\ c - p \in 0..c
  BY ArchIs DEF IsParameter
<1> HIDE DEF das, dc
<1>4. das[p] \in Row(p) /\ das[c] \in Row(c) /\ dc \in Row(c) /\ as[c] \in Row(c)
  BY <1>1, <1>2, <1>3 DEF Back, Forth, Activations
<1>5. ds[p] = Seed(as, p, q, h)
  BY <1>1 DEF Forth
<1>6. das[c] = [j \in Neurons(c) |-> as[c][j] - y[j]]
  BY <1>2, Zenon DEF Back
<1> DEFINE z == [j \in Neurons(c) |-> das[c][j] * dc[j]]
           r == N!Power[c - p]
           e == Pair(das[c], dc, c)
<1>7. N!SumFunction(f) = 2 * e /\ e \in Int
  <2> DEFINE a == arch[c + 1]
  <2>1. a \in Nat /\ Neurons(c) = 1..a
    BY <1>3, RowIs
  <2>2. \A j \in 1..a : z[j] \in Int /\ f[j] = 2 * z[j]
    <3> TAKE j \in 1..a
    <3> DEFINE s == as[c][j]
               t == y[j]
               u == dc[j]
    <3>1. s \in Int /\ t \in Int /\ u \in Int
      BY <1>4, <2>1 DEF Row
    <3>2. das[c][j] = s - t
      BY <1>6, <2>1, Zenon
    <3>3. f[j] = 2 * (s - t) * u
      BY Zenon
    <3>4. z[j] = das[c][j] * u
      BY <2>1, Zenon
    <3> HIDE DEF f, z, s, t, u
    <3> DEFINE v == s - t
    <3>5. v \in Int
      BY <3>1
    <3> HIDE DEF v
    <3>6. v * u \in Int /\ 2 * v * u = 2 * (v * u)
      BY <3>1, <3>5
    <3> QED
      BY <3>2, <3>3, <3>4, <3>6, Zenon DEF v
  <2>3. DOMAIN f = 1..a
    OBVIOUS
  <2> HIDE DEF f, z, a
  <2>4. Scaled(f, 2, z, a)
    BY <2>2 DEF Scaled
  <2>5. N!SumFunction(f) = 2 * Total(z, 1..a)
    BY <2>1, <2>3, <2>4, SumRow, TotalTimes
  <2>6. e = Total(z, 1..a)
    BY <2>1, Zenon DEF Pair, z
  <2>7. e \in Int
    BY <1>3, <1>4, PairIs
  <2> QED
    BY <2>5, <2>6, <2>7, Zenon
<1>8. Pair(das[p], ds[p], p) = r * e
  <2>1. Doubled(das, ds, p)
    BY <1>1, <1>2, DownToParameter
  <2> QED
    BY <1>1, <2>1, Zenon DEF Doubled
<1>9. r \in Int
  BY <1>3, PowerIs
<1> DEFINE d == das[p][q]
           s == N!Slope(as, p, q)
           t == Factor(as, p, q, h, q)
<1>10. d \in Int /\ s \in Int /\ t \in Int /\ q \in Neurons(p)
  <2>1. q \in Neurons(p)
    BY DEF IsParameter
  <2>2. d \in Int /\ s \in Int
    BY <1>3, <1>4, <2>1, SlopeIs DEF Row
  <2>3. t \in Int
    BY FactorIs
  <2> QED
    BY <2>1, <2>2, <2>3
<1>11. Pair(das[p], ds[p], p) = d * (s * t)
  <2> DEFINE a == arch[p + 1]
             g == [j \in Neurons(p) |-> das[p][j] * ds[p][j]]
  <2>1. a \in Nat /\ Neurons(p) = 1..a
    BY <1>3, RowIs
  <2>2. \A j \in Neurons(p) : g[j] = das[p][j] * (N!Slope(as, p, j) * Factor(as, p, q, h, j))
    BY <1>5, Zenon DEF Seed
  <2>3. \A j \in Neurons(p) : j # q => g[j] = 0
    <3> TAKE j \in Neurons(p)
    <3> SUFFICES ASSUME j # q PROVE g[j] = 0
      OBVIOUS
    <3>1. Factor(as, p, q, h, j) = 0
      BY Zenon DEF Factor
    <3>2. das[p][j] \in Int /\ N!Slope(as, p, j) \in Int
      BY <1>3, <1>4, SlopeIs DEF Row
    <3>3. g[j] = das[p][j] * (N!Slope(as, p, j) * 0)
      BY <2>2, <3>1, Zenon
    <3> HIDE DEF g
    <3> QED
      <4>1. \A i, o \in Int : i * (o * 0) = 0
        OBVIOUS
      <4> QED
        BY <3>2, <3>3, <4>1, Zenon
  <2>4. g[q] = d * (s * t)
    BY <1>10, <2>2, Zenon
  <2> HIDE DEF g, a, d, s, t
  <2>5. g[q] \in Int
    BY <1>10, <2>4
  <2>6. Total(g, 1..a) = g[q]
    BY <1>10, <2>1, <2>3, <2>5, TotalOnly
  <2> QED
    BY <2>1, <2>4, <2>6, Zenon DEF Pair, g
<1>12. Sent(as, das[p], p, q) = 2 * d * s
  BY Zenon DEF Sent
<1> HIDE DEF f, r, e, d, s, t
<1>13. (2 * d * s) * t = 2 * (d * (s * t))
  BY <1>10, Reorder
<1>14. 2 * (r * e) = r * (2 * e) /\ 2 * e \in Int
  BY <1>7, <1>9
<1>15. Sent(as, das[p], p, q) * t = r * N!SumFunction(f)
  BY <1>7, <1>8, <1>11, <1>12, <1>13, <1>14, Zenon
<1>16. N!SumFunction(f) \in Int
  BY <1>7, <1>14, Zenon
<1> QED
  BY <1>15, <1>16, Zenon DEF f, das, dc, r, t, c, CostSlope, DoublesCost

-----------------------------------------------------------------------------
(* Over all samples. *)

\* The part of sample i in what back_prop adds up for a parameter, and in the
\* gradient.
Act(w, b, i) == N!forward(w, b, N!ti[i])
Delta(w, b, i) == N!Deltas(w, Act(w, b, i), N!to[i])
Share(w, b, p, q, h, i) ==
  Sent(Act(w, b, i), Delta(w, b, i)[p], p, q) * Factor(Act(w, b, i), p, q, h, q)
Sample(w, b, p, q, h, i) == CostSlope(w, Act(w, b, i), N!to[i], p, q, h)

\* forward of a sample.
LEMMA ActIs ==
  ASSUME N!NeuralNetAssumption, ActivationIsNumber, NEW w, NEW b, Numbers(w, b), NEW i \in 1..N!n
  PROVE  Activations(Act(w, b, i))
<1>1. N!ti[i] \in Row(0)
  BY SampleIs
<1>2. \A l \in 0..N!count : N!forward(w, b, N!ti[i])[l] \in Row(l)
  BY <1>1, ForwardIs
<1> QED
  BY <1>2, Zenon DEF Act, Activations

\* The one is the other, doubled on the way down.
LEMMA ShareIs ==
  ASSUME N!NeuralNetAssumption, ActivationIsNumber, NEW w, NEW b, Numbers(w, b),
         NEW p, NEW q, NEW h, IsParameter(p, q, h), NEW i \in 1..N!n
  PROVE  /\ Sample(w, b, p, q, h, i) \in Int
         /\ Share(w, b, p, q, h, i) = N!Power[N!count - p] * Sample(w, b, p, q, h, i)
<1> DEFINE as == Act(w, b, i)
           y == N!to[i]
<1>1. Activations(as) /\ y \in Row(N!count)
  BY ActIs, SampleIs
<1> HIDE DEF as, y
<1> DEFINE das == N!Deltas(w, as, y)
           sum == CostSlope(w, as, y, p, q, h)
<1>2. /\ sum \in Int
      /\ Sent(as, das[p], p, q) * Factor(as, p, q, h, q) = N!Power[N!count - p] * sum
  <2>1. CostSlope(w, as, y, p, q, h) \in Int /\ DoublesCost(w, as, y, p, q, h)
    BY <1>1, SampleGradient
  <2> QED
    BY <2>1, Zenon DEF DoublesCost
<1>3. sum = Sample(w, b, p, q, h, i) /\ das = Delta(w, b, i)
  BY Zenon DEF Sample, Delta, as, y
<1> HIDE DEF sum, das
<1> QED
  BY <1>2, <1>3, Zenon DEF Share, as

\* What back_prop adds up is the gradient, doubled on the way down.
LEMMA SumIsGradient ==
  ASSUME N!NeuralNetAssumption, ActivationIsNumber, NEW w, NEW b, Numbers(w, b),
         NEW p, NEW q, NEW h, IsParameter(p, q, h),
         NEW f, DOMAIN f = 1..N!n, \A i \in 1..N!n : f[i] = Share(w, b, p, q, h, i)
  PROVE  /\ N!SumFunction(f) = N!Power[N!count - p] * N!Gradient(w, b, p, q, h)
         /\ N!SumFunction(f) \in Int
<1> DEFINE g == [i \in 1..N!n |-> Sample(w, b, p, q, h, i)]
           r == N!Power[N!count - p]
           a == N!n
<1>1. a \in Nat
  BY DEF N!NeuralNetAssumption, N!n
<1>2. r \in Int
  <2>1. N!count - p \in 0..N!count
    BY ArchIs DEF IsParameter
  <2> QED
    BY <2>1, PowerIs
<1>3. N!Gradient(w, b, p, q, h) = N!SumFunction(g)
  BY Zenon DEF N!Gradient, Sample, CostSlope, Act
<1>4. \A i \in 1..a : g[i] \in Int /\ f[i] = r * g[i]
  BY ShareIs
<1>5. DOMAIN g = 1..a /\ DOMAIN f = 1..a
  OBVIOUS
<1> HIDE DEF g, r, a
<1>6. Scaled(f, r, g, a)
  BY <1>4 DEF Scaled
<1>7. N!SumFunction(f) = Total(f, 1..a) /\ N!SumFunction(g) = Total(g, 1..a)
  BY <1>1, <1>5, SumRow
<1>8. Total(f, 1..a) = r * Total(g, 1..a)
  BY <1>1, <1>2, <1>6, TotalTimes
<1>9. Total(g, 1..a) \in Int
  BY <1>1, <1>4, TotalIsInt
<1>10. r * Total(g, 1..a) \in Int
  BY <1>2, <1>9, Distributes
<1> QED
  BY <1>3, <1>7, <1>8, <1>10, Zenon DEF r

-----------------------------------------------------------------------------
(* The invariant. *)

GradedOf(w, b, gw, gb, l, j) ==
  /\ gb[l][j] = N!Power[N!count - l] * N!Gradient(w, b, l, j, N!ByBias)
  /\ \A k \in 1..arch[l] : gw[l][k][j] = N!Power[N!count - l] * N!Gradient(w, b, l, j, k)
Graded(w, b, gw, gb) == \A l \in N!Layers : \A j \in 1..arch[l + 1] : GradedOf(w, b, gw, gb, l, j)

NetInv == /\ Numbers(ws, bs) /\ Numbers(gws, gbs)
          /\ graded => Graded(ws, bs, gws, gbs)
NInv == IF runs = "net" THEN NetInv ELSE graded = FALSE

LEMMA GradedIs == N!GradientDoubledDown <=> (graded => Graded(ws, bs, gws, gbs))
BY Zenon DEF N!GradientDoubledDown, Graded, GradedOf

\* Init has numbers only; back_prop makes the gradient and learn spends it.
LEMMA NetInvInit == N!NeuralNetAssumption /\ N!Init => NetInv
<1> SUFFICES ASSUME N!NeuralNetAssumption, N!Init PROVE NetInv
  OBVIOUS
<1>1. /\ ws \in N!Weights(Random) /\ bs \in N!Biases(Random)
      /\ gws \in N!Weights({0}) /\ gbs \in N!Biases({0}) /\ graded = FALSE
  BY DEF N!Init
<1>2. Random \in SUBSET Int /\ {0} \in SUBSET Int
  BY DEF N!NeuralNetAssumption
<1>3. Numbers(ws, bs)
  BY <1>1, <1>2, NetworkIs
<1>4. Numbers(gws, gbs)
  BY <1>1, <1>2, NetworkIs
<1> QED
  BY <1>1, <1>3, <1>4 DEF NetInv

LEMMA BackPropStep ==
  ASSUME N!NeuralNetAssumption, ActivationIsNumber, NetInv, N!back_prop
  PROVE  NetInv'
<1> DEFINE w == ws
           b == bs
           as == [i \in 1..N!n |-> N!forward(ws, bs, N!ti[i])]
           das == [i \in 1..N!n |-> N!Deltas(ws, as[i], N!to[i])]
           fb(l, j) == [i \in 1..N!n |-> 2 * das[i][l][j] * N!Slope(as[i], l, j)]
           fw(l, k, j) == [i \in 1..N!n |->
                             2 * das[i][l][j] * N!Slope(as[i], l, j) * as[i][l - 1][k]]
<1>1. /\ gbs' = [l \in N!Layers |-> [j \in 1..arch[l + 1] |-> N!SumFunction(fb(l, j))]]
      /\ gws' = [l \in N!Layers |-> [k \in 1..arch[l] |-> [j \in 1..arch[l + 1] |->
                   N!SumFunction(fw(l, k, j))]]]
      /\ UNCHANGED <<ws, bs>>
  BY DEF N!back_prop
<1>2. \A i \in 1..N!n : as[i] = Act(ws, bs, i) /\ das[i] = Delta(ws, bs, i)
  BY Zenon DEF Act, Delta
<1>3. Numbers(ws, bs)
  BY DEF NetInv
<1>4. \A l \in N!Layers : (l - 1) + 1 = l /\ l - 1 \in 0..N!count /\ l \in 0..N!count
  BY ArchIs
<1>5. ASSUME NEW l \in N!Layers, NEW j \in Neurons(l), NEW k \in Neurons(l - 1)
      PROVE  IsParameter(l, j, N!ByBias) /\ IsParameter(l, j, k) /\ k # N!ByBias
  BY <1>4 DEF IsParameter, Neurons, N!ByBias
<1>6. ASSUME NEW l \in N!Layers, NEW j \in Neurons(l)
      PROVE  /\ N!SumFunction(fb(l, j)) = N!Power[N!count - l] * N!Gradient(ws, bs, l, j, N!ByBias)
             /\ N!SumFunction(fb(l, j)) \in Int
  <2>1. IsParameter(l, j, N!ByBias)
    BY DEF IsParameter
  <2>2. DOMAIN fb(l, j) = 1..N!n
    OBVIOUS
  <2>3. ASSUME NEW i \in 1..N!n PROVE fb(l, j)[i] = Share(ws, bs, l, j, N!ByBias, i)
    <3> DEFINE s == Sent(Act(ws, bs, i), Delta(ws, bs, i)[l], l, j)
    <3>1. fb(l, j)[i] = s
      BY <1>2, Zenon DEF Sent
    <3>2. Factor(Act(ws, bs, i), l, j, N!ByBias, j) = 1
      BY Zenon DEF Factor
    <3>3. Share(ws, bs, l, j, N!ByBias, i) = s * 1
      BY <3>2, Zenon DEF Share
    <3>4. Activations(Act(ws, bs, i)) /\ N!to[i] \in Row(N!count)
      BY <1>3, ActIs, SampleIs
    <3>5. Back(ws, Act(ws, bs, i), N!to[i], Delta(ws, bs, i))
      BY <1>3, <3>4, DeltasIs DEF Delta
    <3>6. Delta(ws, bs, i)[l] \in Row(l) /\ l \in 0..N!count
      BY <1>4, <3>5 DEF Back
    <3>7. s \in Int
      BY <3>4, <3>6, SentIs
    <3> HIDE DEF s, fb
    <3>8. s * 1 = s
      BY <3>7
    <3> QED
      BY <3>1, <3>3, <3>8, Zenon
  <2> HIDE DEF fb
  <2> QED
    BY <1>3, <2>1, <2>2, <2>3, SumIsGradient
<1>7. ASSUME NEW l \in N!Layers, NEW j \in Neurons(l), NEW k \in Neurons(l - 1)
      PROVE  /\ N!SumFunction(fw(l, k, j)) = N!Power[N!count - l] * N!Gradient(ws, bs, l, j, k)
             /\ N!SumFunction(fw(l, k, j)) \in Int
  <2>1. IsParameter(l, j, k) /\ k # N!ByBias
    BY <1>5
  <2>2. DOMAIN fw(l, k, j) = 1..N!n
    OBVIOUS
  <2>3. ASSUME NEW i \in 1..N!n PROVE fw(l, k, j)[i] = Share(ws, bs, l, j, k, i)
    <3>1. fw(l, k, j)[i] = Sent(Act(ws, bs, i), Delta(ws, bs, i)[l], l, j) * Act(ws, bs, i)[l - 1][k]
      BY <1>2, Zenon DEF Sent
    <3>2. Factor(Act(ws, bs, i), l, j, k, j) = Act(ws, bs, i)[l - 1][k]
      BY <2>1, Zenon DEF Factor
    <3> HIDE DEF fw
    <3> QED
      BY <3>1, <3>2, Zenon DEF Share
  <2> HIDE DEF fw
  <2> QED
    BY <1>3, <2>1, <2>2, <2>3, SumIsGradient
<1> HIDE DEF fb, fw, as, das
<1>8. ASSUME NEW l \in N!Layers, NEW j \in 1..arch[l + 1]
      PROVE  GradedOf(ws, bs, gws', gbs', l, j)
  <2>1. j \in Neurons(l)
    BY DEF Neurons
  <2>2. gbs'[l][j] = N!SumFunction(fb(l, j))
    BY <1>1, Zenon
  <2>3. ASSUME NEW k \in 1..arch[l]
        PROVE  gws'[l][k][j] = N!Power[N!count - l] * N!Gradient(ws, bs, l, j, k)
    <3>1. k \in Neurons(l - 1)
      BY <1>4 DEF Neurons
    <3>2. gws'[l][k][j] = N!SumFunction(fw(l, k, j))
      BY <1>1, Zenon
    <3> QED
      BY <1>7, <2>1, <3>1, <3>2, Zenon
  <2> QED
    BY <1>6, <2>1, <2>2, <2>3, Zenon DEF GradedOf
<1>9. Graded(ws, bs, gws', gbs')
  BY <1>8 DEF Graded
<1>10. Numbers(gws', gbs')
  <2> SUFFICES ASSUME NEW l \in N!Layers PROVE Parameters(gws', gbs', l)
    BY DEF Numbers
  <2>1. 1..arch[l] = Neurons(l - 1) /\ 1..arch[l + 1] = Neurons(l)
    BY <1>4, Zenon DEF Neurons
  <2>2. gbs'[l] = [j \in Neurons(l) |-> N!SumFunction(fb(l, j))]
    BY <1>1, <2>1, Zenon
  <2>3. gws'[l] = [k \in Neurons(l - 1) |-> [j \in Neurons(l) |-> N!SumFunction(fw(l, k, j))]]
    BY <1>1, <2>1, Zenon
  <2>4. gbs'[l] \in Row(l)
    BY <1>6, <2>2, Zenon DEF Row
  <2>5. \A k \in Neurons(l - 1) : [j \in Neurons(l) |-> N!SumFunction(fw(l, k, j))] \in [Neurons(l) -> Int]
    BY <1>7, Zenon
  <2>6. gws'[l] \in [Neurons(l - 1) -> [Neurons(l) -> Int]]
    BY <2>3, <2>5, Zenon
  <2> QED
    BY <2>4, <2>6, Zenon DEF Parameters
<1>11. /\ Numbers(ws, bs)' /\ Numbers(gws, gbs)' /\ Graded(ws, bs, gws, gbs)'
  BY <1>1, <1>3, <1>9, <1>10, Zenon
<1> QED
  BY <1>11 DEF NetInv

LEMMA LearnStep ==
  ASSUME N!NeuralNetAssumption, NetInv, N!learn
  PROVE  NetInv'
<1>1. /\ ws' = [l \in N!Layers |-> [k \in 1..arch[l] |-> [j \in 1..arch[l + 1] |->
                  ws[l][k][j] - gws[l][k][j]]]]
      /\ bs' = [l \in N!Layers |-> [j \in 1..arch[l + 1] |-> bs[l][j] - gbs[l][j]]]
      /\ graded' = FALSE /\ gws' = gws /\ gbs' = gbs
  BY DEF N!learn
<1>2. Numbers(ws, bs) /\ Numbers(gws, gbs)
  BY DEF NetInv
<1>3. ASSUME NEW l \in N!Layers PROVE Parameters(ws', bs', l)
  <2>1. (l - 1) + 1 = l
    BY ArchIs
  <2>2. 1..arch[l] = Neurons(l - 1) /\ 1..arch[l + 1] = Neurons(l)
    BY <2>1, Zenon DEF Neurons
  <2>3. /\ ws'[l] = [k \in Neurons(l - 1) |-> [j \in Neurons(l) |-> ws[l][k][j] - gws[l][k][j]]]
        /\ bs'[l] = [j \in Neurons(l) |-> bs[l][j] - gbs[l][j]]
    BY <1>1, <2>2, Zenon
  <2>4. Parameters(ws, bs, l) /\ Parameters(gws, gbs, l)
    BY <1>2 DEF Numbers
  <2>5. \A k \in Neurons(l - 1) : \A j \in Neurons(l) : ws[l][k][j] \in Int /\ gws[l][k][j] \in Int
    BY <2>4 DEF Parameters
  <2>6. \A j \in Neurons(l) : bs[l][j] \in Int /\ gbs[l][j] \in Int
    BY <2>4 DEF Parameters, Row
  <2>7. \A x, y \in Int : x - y \in Int
    OBVIOUS
  <2>8. \A k \in Neurons(l - 1) : \A j \in Neurons(l) : ws[l][k][j] - gws[l][k][j] \in Int
    BY <2>5, <2>7, Zenon
  <2>9. \A j \in Neurons(l) : bs[l][j] - gbs[l][j] \in Int
    BY <2>6, <2>7, Zenon
  <2>10. ws'[l] \in [Neurons(l - 1) -> [Neurons(l) -> Int]]
    <3>1. \A k \in Neurons(l - 1) :
            [j \in Neurons(l) |-> ws[l][k][j] - gws[l][k][j]] \in [Neurons(l) -> Int]
      BY <2>8, Zenon
    <3> QED
      BY <2>3, <3>1, Zenon
  <2>11. bs'[l] \in Row(l)
    BY <2>3, <2>9, Zenon DEF Row
  <2> QED
    BY <2>10, <2>11 DEF Parameters
<1>4. Numbers(ws', bs')
  BY <1>3 DEF Numbers
<1>5. Numbers(ws, bs)' /\ Numbers(gws, gbs)' /\ graded' = FALSE
  BY <1>1, <1>2, <1>4, Zenon
<1> QED
  BY <1>5 DEF NetInv

LEMMA NetInvStep ==
  N!NeuralNetAssumption /\ ActivationIsNumber /\ NetInv /\ [N!Next]_(N!vars) => NetInv'
<1> SUFFICES ASSUME N!NeuralNetAssumption, ActivationIsNumber, NetInv, [N!Next]_(N!vars)
             PROVE  NetInv'
  OBVIOUS
<1>1. CASE UNCHANGED N!vars
  <2>1. ws' = ws /\ bs' = bs /\ gws' = gws /\ gbs' = gbs /\ graded' = graded
    BY <1>1 DEF N!vars
  <2>2. Numbers(ws, bs)' = Numbers(ws, bs) /\ Numbers(gws, gbs)' = Numbers(gws, gbs)
        /\ Graded(ws, bs, gws, gbs)' = Graded(ws, bs, gws, gbs)
    BY <2>1, Zenon
  <2> QED
    BY <2>1, <2>2, Zenon DEF NetInv
<1> QED
  BY <1>1, BackPropStep, LearnStep DEF N!Next

\* Every other program leaves the network alone.
LEMMA StepsOfNet ==
  ASSUME [Next]_vars
  PROVE  runs' = runs /\ IF runs = "net" THEN [N!Next]_(N!vars) ELSE UNCHANGED N!vars
BY DEF Next, vars, net, N!vars

LEMMA NInvStep ==
  N!NeuralNetAssumption /\ ActivationIsNumber /\ NInv /\ [Next]_vars => NInv'
<1> SUFFICES ASSUME N!NeuralNetAssumption, ActivationIsNumber, NInv, [Next]_vars PROVE NInv'
  OBVIOUS
<1>1. runs' = runs /\ IF runs = "net" THEN [N!Next]_(N!vars) ELSE UNCHANGED N!vars
  BY StepsOfNet
<1>2. CASE runs = "net"
  <2>1. NetInv /\ [N!Next]_(N!vars) /\ runs' = "net"
    BY <1>1, <1>2 DEF NInv
  <2>2. NetInv'
    BY <2>1, NetInvStep
  <2> QED
    BY <2>1, <2>2 DEF NInv
<1>3. CASE runs # "net"
  <2>1. graded = FALSE /\ graded' = graded /\ runs' # "net"
    BY <1>1, <1>3 DEF NInv, N!vars
  <2> QED
    BY <2>1 DEF NInv
<1> QED
  BY <1>2, <1>3

\* For every architecture, training data and initial parameters, what back_prop
\* leaves for a parameter is the derivative of the cost, doubled once for each
\* layer above the parameter's: within a layer it is the direction of the
\* gradient, and in the last layer the gradient (Matrix.h:330-384).
THEOREM GradientDoubledDownAlways ==
  ASSUME ActivationIsNumber
  PROVE  Spec => []GradientDoubledDown
<1>1. N!NeuralNetAssumption
  BY ProgramsAssumption DEF ProgramsAssumption
<1>2. Init => NInv
  BY <1>1, NetInvInit DEF Init, NInv, NoNetwork
<1>3. NInv /\ [Next]_vars => NInv'
  BY <1>1, NInvStep
<1>4. NInv => GradientDoubledDown
  BY GradedIs DEF NInv, NetInv, GradientDoubledDown
<1> QED
  BY <1>2, <1>3, <1>4, PTL DEF Spec
=============================================================================
