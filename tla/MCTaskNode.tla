----------------------------- MODULE MCTaskNode -----------------------------
(***************************************************************************)
(* Model-checking instance of TaskNode.  Two kinds of task tell the order  *)
(* apart; four calls of addtask allow a batch of two with two more tasks   *)
(* arriving while it runs, and tasks left behind by a close.               *)
(***************************************************************************)
EXTENDS TaskNode

==============================================================================
