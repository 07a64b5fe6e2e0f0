-------------------------- MODULE TaskNode_proofs ---------------------------
(***************************************************************************)
(* Proofs about m_task_node, for any set of tasks and any number of them.  *)
(*                                                                         *)
(* The two lists of the node are one queue: what is left of the list being *)
(* run, then the buffer.  Moving the buffer happens only when the list is  *)
(* empty, so it does not change the queue; running a task takes its head.  *)
(***************************************************************************)
EXTENDS TaskNode, SequenceTheorems, TLAPS

(* Types, and where the worker can be. *)
THEOREM TypeCorrect == Spec => []TypeOK
<1>1. Init => TypeOK
  <2> SUFFICES ASSUME Init PROVE TypeOK
    OBVIOUS
  <2>1. phase = "off" /\ alive = FALSE /\ pc = "off" /\ at = 1
    BY DEF Init, Thread!Init
  <2>2. /\ tasksbuf = <<>> /\ tasks = <<>>
        /\ executed = <<>> /\ issued = <<>>
    BY DEF Init
  <2>3. alive = (pc # "off")
    BY <2>1
  <2>4. QED
    BY <2>1, <2>2, <2>3 DEF TypeOK
<1>2. TypeOK /\ [Next]_vars => TypeOK'
  <2> SUFFICES ASSUME TypeOK, [Next]_vars PROVE TypeOK'
    OBVIOUS
  <2> USE DEF TypeOK, threadvars, bufvars, Goes
  <2>1. ASSUME Start PROVE TypeOK'
    BY <2>1 DEF Start, Thread!Start
  <2>2. ASSUME BeginClose PROVE TypeOK'
    BY <2>2 DEF BeginClose, Thread!BeginClose
  <2>3. ASSUME EndClose PROVE TypeOK'
    BY <2>3 DEF EndClose, Thread!EndClose
  <2>4. ASSUME NEW t \in Task, AddTask(t) PROVE TypeOK'
    BY <2>4 DEF AddTask
  <2>5. ASSUME Leave PROVE TypeOK'
    BY <2>5 DEF Leave, Thread!WorkerEnds
  <2>6. ASSUME LookAhead PROVE TypeOK'
    BY <2>6 DEF LookAhead
  <2>7. ASSUME Drain PROVE TypeOK'
    BY <2>7 DEF Drain
  <2>8. ASSUME Check PROVE TypeOK'
    BY <2>8 DEF Check
  <2>9. ASSUME RunTask PROVE TypeOK'
    BY <2>9 DEF RunTask
  <2>10. ASSUME Clear PROVE TypeOK'
    BY <2>10 DEF Clear
  <2>11. CASE UNCHANGED vars
    BY <2>11 DEF vars
  <2>12. QED
    BY <2>1, <2>2, <2>3, <2>4, <2>5, <2>6, <2>7, <2>8, <2>9, <2>10, <2>11
    DEF Next, WorkerStep
<1>3. QED
  BY <1>1, <1>2, PTL DEF Spec

(* What is left to run, as one sequence. *)
Waiting == Rest \o tasksbuf

LEMMA RestType ==
  ASSUME TypeOK
  PROVE  Rest \in Seq(Task) /\ Waiting \in Seq(Task)
<1>1. \A i \in at .. Len(tasks) : tasks[i] \in Task
  BY DEF TypeOK
<1>2. Rest \in Seq(Task)
  BY <1>1, SubSeqProperties DEF Rest, TypeOK
<1>3. QED
  BY <1>2, ConcatProperties DEF Waiting, TypeOK

(* How the worker's steps move what is left. *)
LEMMA RestMoves ==
  ASSUME TypeOK
  PROVE  /\ Drain => Rest = <<>> /\ Rest' = tasksbuf /\ tasksbuf' = <<>>
         /\ RunTask => /\ tasks[at] \in Task
                       /\ Rest = <<tasks[at]>> \o Rest'
                       /\ Rest' \in Seq(Task)
         /\ Clear => Rest = <<>> /\ Rest' = <<>>
         /\ UNCHANGED <<tasks, at>> => Rest' = Rest
<1> USE DEF TypeOK, Goes
<1>1. ASSUME Drain
      PROVE  Rest = <<>> /\ Rest' = tasksbuf /\ tasksbuf' = <<>>
  <2>1. tasks = <<>> /\ at = 1
    BY <1>1 DEF Drain
  <2>2. Rest = <<>>
    BY <2>1, SubSeqEmpty DEF Rest
  <2>3. tasks' = tasksbuf /\ at' = 1 /\ tasksbuf' = <<>>
    BY <1>1, <2>1, ConcatEmptySeq DEF Drain
  <2>4. Rest' = tasksbuf
    BY <2>3, SubSeqFull DEF Rest
  <2>5. QED
    BY <2>2, <2>3, <2>4
<1>2. ASSUME RunTask
      PROVE  /\ tasks[at] \in Task
             /\ Rest = <<tasks[at]>> \o Rest'
             /\ Rest' \in Seq(Task)
  <2>1. /\ at \in 1 .. Len(tasks)
        /\ Len(tasks) \in at .. Len(tasks)
        /\ tasks' = tasks /\ at' = at + 1
    BY <1>2 DEF RunTask
  <2>2. Rest = <<tasks[at]>> \o Rest'
    BY <2>1, SubSeqRecursiveFirst DEF Rest
  <2>3. \A i \in at' .. Len(tasks) : tasks[i] \in Task
    BY <2>1
  <2>4. Rest' \in Seq(Task)
    BY <2>1, <2>3, SubSeqProperties DEF Rest
  <2>5. QED
    BY <2>1, <2>2, <2>4
<1>3. ASSUME Clear
      PROVE  Rest = <<>> /\ Rest' = <<>>
  BY <1>3, SubSeqEmpty DEF Clear, Rest
<1>4. ASSUME UNCHANGED <<tasks, at>>
      PROVE  Rest' = Rest
  BY <1>4 DEF Rest
<1>5. QED
  BY <1>1, <1>2, <1>3, <1>4

(* No task is lost, run twice or run out of order, for any tasks and any   *)
(* interleaving of adding, running, closing and starting.                  *)
THEOREM NoTaskLost == Spec => []NoneLost
<1>1. Init => NoneLost
  BY SubSeqEmpty, ConcatEmptySeq, EmptySeq DEF Init, NoneLost, Rest
<1>2. TypeOK /\ NoneLost /\ [Next]_vars => NoneLost'
  <2> SUFFICES ASSUME TypeOK, NoneLost, [Next]_vars PROVE NoneLost'
    OBVIOUS
  <2>0. /\ Rest \in Seq(Task) /\ tasksbuf \in Seq(Task)
        /\ executed \in Seq(Task) /\ issued \in Seq(Task)
        /\ <<>> \in Seq(Task)
    BY RestType, EmptySeq DEF TypeOK
  <2> USE <2>0 DEF NoneLost
  <2>1. ASSUME UNCHANGED <<executed, tasks, at, tasksbuf, issued>>
        PROVE  NoneLost'
    BY <2>1, RestMoves
  <2>2. ASSUME NEW t \in Task, AddTask(t) PROVE NoneLost'
    <3>1. /\ tasksbuf' = tasksbuf \o <<t>> /\ issued' = issued \o <<t>>
          /\ executed' = executed /\ Rest' = Rest
      BY <2>2, AppendIsConcat, RestMoves DEF AddTask
    <3>2. <<t>> \in Seq(Task) /\ executed \o Rest \in Seq(Task)
      BY ConcatProperties
    <3>3. QED
      BY <3>1, <3>2, ConcatAssociative
  <2>3. ASSUME Drain PROVE NoneLost'
    <3>1. /\ Rest = <<>> /\ Rest' = tasksbuf /\ tasksbuf' = <<>>
          /\ executed' = executed /\ issued' = issued
      BY <2>3, RestMoves DEF Drain
    <3>2. executed \o tasksbuf \in Seq(Task)
      BY ConcatProperties
    <3>3. QED
      BY <3>1, <3>2, ConcatEmptySeq
  <2>4. ASSUME RunTask PROVE NoneLost'
    <3>1. /\ tasks[at] \in Task /\ Rest = <<tasks[at]>> \o Rest'
          /\ Rest' \in Seq(Task)
          /\ tasksbuf' = tasksbuf /\ issued' = issued
      BY <2>4, RestMoves DEF RunTask
    <3>2. executed' = executed \o <<tasks[at]>>
      BY <2>4, <3>1, AppendIsConcat DEF RunTask
    <3>3. <<tasks[at]>> \in Seq(Task)
      BY <3>1
    <3>4. executed' \o Rest' = executed \o Rest
      BY <3>1, <3>2, <3>3, ConcatAssociative
    <3>5. QED
      BY <3>1, <3>4
  <2>5. ASSUME Clear PROVE NoneLost'
    BY <2>5, RestMoves DEF Clear
  <2>6. QED
    BY <2>1, <2>2, <2>3, <2>4, <2>5
    DEF Next, vars, bufvars, Start, BeginClose, EndClose, WorkerStep, Leave,
        LookAhead, Check
<1>3. QED
  BY <1>1, <1>2, TypeCorrect, PTL DEF Spec

(* No task runs after the close of the node has returned. *)
THEOREM NoLateTask == Spec => NoTaskAfterClose
<1>1. TypeOK /\ [Next]_vars => [executed' # executed => phase # "off"]_vars
  <2> SUFFICES ASSUME TypeOK, Next, executed' # executed
               PROVE  phase # "off"
    OBVIOUS
  <2>1. RunTask
    BY DEF Next, bufvars, Start, BeginClose, EndClose, AddTask, WorkerStep,
           Leave, LookAhead, Drain, Check, Clear
  <2>2. QED
    BY <2>1 DEF RunTask, TypeOK
<1>2. QED
  BY <1>1, TypeCorrect, PTL DEF Spec, NoTaskAfterClose

LEMMA HeadTailOfPrefixed ==
  ASSUME NEW S, NEW x \in S, NEW s \in Seq(S)
  PROVE  /\ <<x>> \o s # <<>>
         /\ Head(<<x>> \o s) = x
         /\ Tail(<<x>> \o s) = s
<1>1. <<x>> \in Seq(S) /\ Len(<<x>>) = 1 /\ Len(s) \in Nat
  BY LenProperties
<1>2. /\ <<x>> \o s \in Seq(S)
      /\ Len(<<x>> \o s) = 1 + Len(s)
      /\ (<<x>> \o s)[1] = x
      /\ \A i \in 1 .. Len(s) : (<<x>> \o s)[i + 1] = s[i]
  BY <1>1, ConcatProperties
<1>3. <<x>> \o s # <<>>
  BY <1>2, EmptySeq
<1>4. Head(<<x>> \o s) = x
  BY <1>2, <1>3
<1>5. Tail(<<x>> \o s) = s
  <2> DEFINE u == Tail(<<x>> \o s)
  <2>1. u \in Seq(S) /\ Len(u) = Len(s)
    BY <1>1, <1>2, <1>3, HeadTailProperties
  <2>2. \A i \in 1 .. Len(s) : u[i] = s[i]
    BY <1>1, <1>2, <1>3, HeadTailProperties
  <2> HIDE DEF u
  <2>3. u = s
    BY <2>1, <2>2, SeqEqual
  <2>4. QED
    BY <2>3 DEF u
<1>6. QED
  BY <1>3, <1>4, <1>5

(* The task node implements TaskQueue (its safety part). *)
THEOREM Refinement == Spec => Queue!Spec
<1>1. Init => Queue!Init
  BY SubSeqEmpty, ConcatEmptySeq, EmptySeq
  DEF Init, Thread!Init, Queue!Init, Rest
<1>2. TypeOK /\ [Next]_vars => [Queue!Next]_Queue!queuevars
  <2> SUFFICES ASSUME TypeOK, [Next]_vars
               PROVE  Queue!Next \/ UNCHANGED Queue!queuevars
    BY DEF Queue!queuevars
  <2>0. /\ Rest \in Seq(Task) /\ tasksbuf \in Seq(Task)
        /\ <<>> \in Seq(Task)
    BY RestType, EmptySeq DEF TypeOK
  <2> USE <2>0 DEF Queue!queuevars, Queue!Goes
  <2>1. ASSUME UNCHANGED <<phase, tasks, at, tasksbuf>>
        PROVE  UNCHANGED Queue!queuevars
    BY <2>1, RestMoves
  <2>2. ASSUME UNCHANGED bufvars PROVE UNCHANGED <<Rest, tasksbuf>>
    BY <2>2, RestMoves DEF bufvars
  <2>3. ASSUME Start PROVE Queue!Start
    BY <2>2, <2>3 DEF Start, Thread!Start, Queue!Start
  <2>4. ASSUME BeginClose PROVE Queue!BeginClose
    BY <2>2, <2>4 DEF BeginClose, Thread!BeginClose, Queue!BeginClose
  <2>5. ASSUME EndClose PROVE Queue!EndClose
    BY <2>2, <2>5 DEF EndClose, Thread!EndClose, Queue!EndClose
  <2>6. ASSUME NEW t \in Task, AddTask(t) PROVE Queue!Add(t)
    <3>1. /\ tasksbuf' = tasksbuf \o <<t>> /\ Rest' = Rest
          /\ <<t>> \in Seq(Task)
      BY <2>6, AppendIsConcat, RestMoves DEF AddTask
    <3>2. Rest' \o tasksbuf' = (Rest \o tasksbuf) \o <<t>>
      BY <3>1, ConcatAssociative
    <3>3. Rest' \o tasksbuf' = Append(Rest \o tasksbuf, t)
      BY <3>2, ConcatProperties, AppendIsConcat
    <3>4. QED
      BY <2>6, <3>3 DEF AddTask, Queue!Add, threadvars
  <2>7. ASSUME Drain PROVE UNCHANGED Queue!queuevars
    <3>1. Rest' \o tasksbuf' = Rest \o tasksbuf
      BY <2>7, RestMoves, ConcatEmptySeq
    <3>2. QED
      BY <2>7, <3>1 DEF Drain, threadvars
  <2>8. ASSUME RunTask PROVE Queue!Run
    <3>1. /\ tasks[at] \in Task /\ <<tasks[at]>> \in Seq(Task)
          /\ Rest = <<tasks[at]>> \o Rest' /\ Rest' \in Seq(Task)
          /\ tasksbuf' = tasksbuf
      BY <2>8, RestMoves DEF RunTask
    <3>2. /\ Rest \o tasksbuf = <<tasks[at]>> \o (Rest' \o tasksbuf')
          /\ Rest' \o tasksbuf' \in Seq(Task)
      BY <3>1, ConcatAssociative, ConcatProperties
    <3>3. /\ Rest \o tasksbuf # <<>>
          /\ Head(Rest \o tasksbuf) = tasks[at]
          /\ Tail(Rest \o tasksbuf) = Rest' \o tasksbuf'
      BY <3>1, <3>2, HeadTailOfPrefixed
    <3>4. phase # "off"
      BY <2>8 DEF RunTask, TypeOK
    <3>5. QED
      BY <2>8, <3>3, <3>4 DEF RunTask, threadvars, Queue!Run
  <2>9. ASSUME Clear PROVE UNCHANGED Queue!queuevars
    BY <2>9, RestMoves DEF Clear, threadvars
  <2>10. ASSUME Leave \/ LookAhead \/ Check PROVE UNCHANGED Queue!queuevars
    BY <2>1, <2>10 DEF Leave, LookAhead, Check, threadvars, bufvars,
                       Thread!WorkerEnds
  <2>11. QED
    BY <2>1, <2>3, <2>4, <2>5, <2>6, <2>7, <2>8, <2>9, <2>10
    DEF Next, WorkerStep, vars, Queue!Next
<1>3. QED
  BY <1>1, <1>2, TypeCorrect, PTL DEF Spec, Queue!Spec

=============================================================================
