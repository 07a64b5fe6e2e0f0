----------------------------- MODULE SafeThread -----------------------------
(***************************************************************************)
(* What class m_thread promises with start() and close(): at most one      *)
(* worker at a time, and a close() that returns only when the worker is    *)
(* gone.  ("close(): safe exit", m_thread.h:34; "close() makes sure that   *)
(* the main thread goes on after the child thread has exited safely",      *)
(* public/readme.md:27.)  MThread implements this until somebody calls the *)
(* other way out, exit().                                                  *)
(***************************************************************************)
VARIABLES phase,          \* "off", "on" or "closing"
          alive           \* a worker exists

safevars == <<phase, alive>>

Init == phase = "off" /\ alive = FALSE

Start == /\ phase = "off"
         /\ phase' = "on"
         /\ alive' = TRUE

BeginClose == /\ phase = "on"
              /\ phase' = "closing"
              /\ UNCHANGED alive

(* The worker ends; it may do so early, before anybody has closed it. *)
WorkerEnds == /\ alive
              /\ alive' = FALSE
              /\ UNCHANGED phase

(* close() returns: it has waited for the worker. *)
EndClose == /\ phase = "closing"
            /\ ~alive
            /\ phase' = "off"
            /\ UNCHANGED alive

(* close() of a worker that has already ended needs no wait. *)
CloseAtOnce == /\ phase = "on"
               /\ ~alive
               /\ phase' = "off"
               /\ UNCHANGED alive

Next == Start \/ BeginClose \/ WorkerEnds \/ EndClose \/ CloseAtOnce

Spec == Init /\ [][Next]_safevars

(* A worker that is told to stop ends, and then close() returns. *)
Fairness == /\ WF_safevars(phase = "closing" /\ WorkerEnds)
            /\ WF_safevars(EndClose)
==============================================================================
