----------------------------- MODULE TaskManager -----------------------------
(***************************************************************************)
(* The task manager of basic/final2 (TaskManager.h, command.h, main.cpp):   *)
(* tasks in memory, written to task.txt as a whole after every change.  A   *)
(* save truncates the file and writes line by line, each flushed; the       *)
(* process may die between any two of these steps, and a file that cannot   *)
(* be opened is only logged.                                                *)
(***************************************************************************)
EXTENDS SequencesExt, Naturals

CONSTANTS
  Content,   \* description, priority and due date of a task
  MaxTasks,  \* bound: tasks at a time
  MaxId      \* bound: ids given out

TaskManagerAssumption == MaxTasks \in Nat /\ MaxId \in Nat

VARIABLES
  tasks, nextId,  \* fields of the TaskManager
  file,           \* lines of task.txt
  pc,             \* the process: "down", in its command loop ("idle"), "saving"
  stale           \* history: memory and file were parted by a failed open

vars == <<tasks, nextId, file, pc, stale>>

Init == /\ tasks = << >>
        /\ nextId = 1
        /\ file = << >>
        /\ pc = "down"
        /\ stale = FALSE

-----------------------------------------------------------------------------
\* Mutant of AfterLoaded: the number of tasks, as if none had been removed.
AfterCount(lines) == Len(lines) + 1

\* One past the greatest id read.
AfterLoaded(lines) == Max({1} \cup {lines[i].id + 1 : i \in DOMAIN lines})

\* main starts and constructs the manager, which loads the file.
LoadTasks == /\ pc = "down"
             /\ tasks' = file
             /\ nextId' = AfterLoaded(file)
             /\ pc' = "idle"
             /\ stale' = FALSE
             /\ UNCHANGED file

LoadFails == /\ pc = "down"
             /\ tasks' = << >>
             /\ nextId' = 1
             /\ pc' = "idle"
             /\ stale' = TRUE
             /\ UNCHANGED file

\* SaveTasks up to its loop: the file is opened, and with that truncated, or not.
OpenForSave == \/ pc' = "saving" /\ file' = << >> /\ stale' = FALSE
               \/ pc' = "idle" /\ stale' = TRUE /\ UNCHANGED file

AddTask(c) == /\ pc = "idle"
              /\ nextId <= MaxId /\ Len(tasks) < MaxTasks
              /\ tasks' = Append(tasks, [id |-> nextId, content |-> c])
              /\ nextId' = nextId + 1
              /\ OpenForSave

\* The position of find_if, when it finds the id.
At(id) == {i \in DOMAIN tasks : tasks[i].id = id}

RemoveTask(id) == /\ pc = "idle"
                  /\ At(id) # {}
                  /\ tasks' = RemoveAt(tasks, Min(At(id)))
                  /\ OpenForSave
                  /\ UNCHANGED nextId

UpdateTask(id, c) == /\ pc = "idle"
                     /\ At(id) # {}
                     /\ tasks' = [tasks EXCEPT ![Min(At(id))].content = c]
                     /\ OpenForSave
                     /\ UNCHANGED nextId

\* The loop of SaveTasks writes the next line, or is done and closes the file.
SaveLine == /\ pc = "saving"
            /\ Len(file) < Len(tasks)
            /\ file' = Append(file, tasks[Len(file) + 1])
            /\ UNCHANGED <<tasks, nextId, pc, stale>>

SaveDone == /\ pc = "saving"
            /\ Len(file) = Len(tasks)
            /\ pc' = "idle"
            /\ UNCHANGED <<tasks, nextId, file, stale>>

\* exit, or a number that stoi refuses in add, delete or update: the exception
\* leaves main.  Both come between commands, and the memory is gone.
Leave == /\ pc = "idle"
         /\ pc' = "down"
         /\ tasks' = << >> /\ nextId' = 1
         /\ UNCHANGED <<file, stale>>

Die == /\ pc = "saving"
       /\ pc' = "down"
       /\ tasks' = << >> /\ nextId' = 1
       /\ UNCHANGED <<file, stale>>

Next == \/ LoadTasks \/ LoadFails
        \/ \E c \in Content : AddTask(c)
        \/ \E id \in 1..MaxId : RemoveTask(id)
        \/ \E id \in 1..MaxId, c \in Content : UpdateTask(id, c)
        \/ SaveLine \/ SaveDone
        \/ Leave \/ Die

Spec == Init /\ [][Next]_vars

-----------------------------------------------------------------------------
Ascending(s) == \A i, j \in DOMAIN s : i < j => s[i].id < s[j].id

\* No two tasks have one id, in memory and in the file, whatever was removed,
\* cut short by a crash or read back, and the next id is above them all; and
\* the file is the tasks in memory unless an open failed, or during a save a
\* prefix of them (TaskManager.h:21, 86, 121).
TaskManagerSafe == /\ Ascending(tasks) /\ Ascending(file)
                   /\ \A i \in DOMAIN tasks : tasks[i].id < nextId
                   /\ pc = "idle" => stale \/ file = tasks
                   /\ pc = "saving" => ~stale /\ IsPrefix(file, tasks)
=============================================================================
