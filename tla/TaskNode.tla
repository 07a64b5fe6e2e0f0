------------------------------ MODULE TaskNode ------------------------------
(***************************************************************************)
(* Class m_task_node (server/m_task_node.cpp): tasks are pushed to a       *)
(* buffer under a lock, and one worker thread moves the buffer to a list   *)
(* of its own and runs that list without the lock.                         *)
(*                                                                         *)
(* The node's m_thread is only ever used through start() and close(), so   *)
(* it is a SafeThread (theorem Refinement of MThread_proofs).  The loop    *)
(* tests _tasksbuf.empty() without the lock (line 71); the test only       *)
(* compares two pointers, so it sees the buffer before or after a push,    *)
(* and the push has a step of its own here.                                *)
(***************************************************************************)
EXTENDS Naturals, Sequences

CONSTANTS Task,           \* what can be added
          MaxTasks        \* bound: calls of addtask

ASSUME ConstantsAssumption == MaxTasks \in Nat

VARIABLES phase, alive,   \* _thread, as a SafeThread
          pc,             \* where the worker is in func_run
          tasksbuf,       \* _tasksbuf, guarded by _mutex
          tasks,          \* _tasks, the worker's own
          at,             \* the worker's position in tasks
          executed,       \* history: tasks run so far
          issued          \* history: tasks added so far

threadvars == <<phase, alive>>
bufvars == <<tasksbuf, tasks, at, executed, issued>>
vars == <<phase, alive, pc, tasksbuf, tasks, at, executed, issued>>

Thread == INSTANCE SafeThread

Init == /\ Thread!Init
        /\ pc = "off"
        /\ tasksbuf = <<>> /\ tasks = <<>> /\ at = 1
        /\ executed = <<>> /\ issued = <<>>

(* start() and close_node(), from any thread. *)
Start == Thread!Start /\ pc' = "loop" /\ UNCHANGED bufvars
BeginClose == Thread!BeginClose /\ UNCHANGED <<pc, bufvars>>
EndClose == Thread!EndClose /\ UNCHANGED <<pc, bufvars>>

(* addtask(), from any thread. *)
AddFirst(t) == /\ Len(issued) < MaxTasks
               /\ tasksbuf' = <<t>> \o tasksbuf
               /\ issued' = Append(issued, t)
               /\ UNCHANGED <<threadvars, pc, tasks, at, executed>>
AddTask(t) == /\ Len(issued) < MaxTasks
              /\ tasksbuf' = Append(tasksbuf, t)
              /\ issued' = Append(issued, t)
              /\ UNCHANGED <<threadvars, pc, tasks, at, executed>>

-----------------------------------------------------------------------------

Goes(from, to) == pc = from /\ pc' = to

(* The head of the loop: is_run(), then the test of the buffer. *)
Leave == /\ phase # "on"
         /\ Goes("loop", "off")
         /\ Thread!WorkerEnds
         /\ UNCHANGED bufvars
LookAhead == /\ phase = "on"
             /\ \/ tasksbuf # <<>> /\ Goes("loop", "drain")
                \/ tasksbuf = <<>> /\ Goes("loop", "check")
             /\ UNCHANGED <<threadvars, bufvars>>

(* Under the lock, the buffer is appended to the list and emptied. *)
DrainKeeping == /\ Goes("drain", "check")
                /\ tasks' = tasks \o tasksbuf
                /\ UNCHANGED <<threadvars, tasksbuf, at, executed, issued>>
Drain == /\ Goes("drain", "check")
         /\ tasks' = tasks \o tasksbuf
         /\ tasksbuf' = <<>>
         /\ UNCHANGED <<threadvars, at, executed, issued>>

(* Nothing to do (usleep, then round again), or run the list. *)
Check == /\ \/ tasks = <<>> /\ Goes("check", "loop")
            \/ tasks # <<>> /\ Goes("check", "exec")
         /\ UNCHANGED <<threadvars, bufvars>>

RunTask == /\ pc = "exec" /\ at <= Len(tasks)
           /\ executed' = Append(executed, tasks[at])
           /\ at' = at + 1
           /\ UNCHANGED <<threadvars, pc, tasksbuf, tasks, issued>>

(* The list is cleared when all of it has been run. *)
Clear == /\ at > Len(tasks) /\ Goes("exec", "loop")
         /\ tasks' = <<>>
         /\ at' = 1
         /\ UNCHANGED <<threadvars, tasksbuf, executed, issued>>

WorkerStep == Leave \/ LookAhead \/ Drain \/ Check \/ RunTask \/ Clear

Next == \/ Start \/ BeginClose \/ EndClose
        \/ \E t \in Task : AddTask(t)
        \/ WorkerStep

Spec == Init /\ [][Next]_vars

(* The worker is scheduled and close() wakes up when the worker is gone    *)
(* (MThread implements it).  Nobody has to start, close or add.          *)
FairSpec == Spec /\ WF_vars(WorkerStep) /\ WF_vars(EndClose)

-----------------------------------------------------------------------------

(* Types; a worker exists exactly when it has a place in func_run, and     *)
(* while it is neither running its list nor about to, the list is empty.   *)
TypeOK == /\ phase \in {"off", "on", "closing"}
          /\ alive = (pc # "off")
          /\ pc \in {"off", "loop", "drain", "check", "exec"}
          /\ tasksbuf \in Seq(Task)
          /\ tasks \in Seq(Task)
          /\ at \in 1 .. Len(tasks) + 1
          /\ executed \in Seq(Task)
          /\ issued \in Seq(Task)
          /\ phase = "off" => pc = "off"
          /\ pc \in {"off", "loop", "drain"} => tasks = <<>>
          /\ pc # "exec" => at = 1

(* Every task that was added is run once and in order, or still waits in   *)
(* one of the two lists, although the worker looks at the buffer without   *)
(* the lock and closes leave tasks behind (m_task_node.cpp:71-93).         *)
Rest == SubSeq(tasks, at, Len(tasks))
NoneLost == executed \o Rest \o tasksbuf = issued

(* A task runs only before close_node() returns: the group may free what   *)
(* its tasks use (m_group_node.cpp:27, 194).                               *)
NoTaskAfterClose == [][executed' # executed => phase # "off"]_vars

(* The task node implements the queue of TaskQueue; in particular a task   *)
(* is run unless the node is closed first: one pushed just after the       *)
(* unlocked test is seen on the next round (m_task_node.cpp:71).           *)
Queue == INSTANCE TaskQueue WITH pending <- Rest \o tasksbuf
ImplementsTaskQueue == Queue!FairSpec
==============================================================================
