----------------------------- MODULE TaskQueue ------------------------------
(***************************************************************************)
(* What a task node promises its group: tasks are run one at a time, in    *)
(* the order in which they were added, each once, and only between the     *)
(* node's start and the return of its close.  Tasks that are not run when  *)
(* the node is closed stay and are run after the next start.               *)
(***************************************************************************)
EXTENDS Naturals, Sequences

CONSTANT Task             \* what can be added

VARIABLES phase,          \* "off", "on" or "closing"
          pending         \* tasks not run yet, oldest first

queuevars == <<phase, pending>>

Init == phase = "off" /\ pending = <<>>

Goes(from, to) == phase = from /\ phase' = to /\ UNCHANGED pending

Start == Goes("off", "on")
BeginClose == Goes("on", "closing")
EndClose == Goes("closing", "off")

Add(t) == /\ pending' = Append(pending, t)
          /\ UNCHANGED phase

(* The oldest task is run. *)
Run == /\ phase # "off"
       /\ pending # <<>>
       /\ pending' = Tail(pending)
       /\ UNCHANGED phase

Next == Start \/ BeginClose \/ EndClose \/ Run \/ \E t \in Task : Add(t)

Spec == Init /\ [][Next]_queuevars

(* While the node is on its tasks are run, and closing it comes to an end. *)
FairSpec == /\ Spec
            /\ WF_queuevars(phase = "on" /\ Run)
            /\ WF_queuevars(EndClose)
==============================================================================
