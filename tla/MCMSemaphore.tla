---------------------------- MODULE MCMSemaphore ----------------------------
(***************************************************************************)
(* Model-checking instance of MSemaphore.  Four threads are enough for a   *)
(* late caller to overtake two sleepers while a fourth thread supplies the *)
(* wakeups.                                                                *)
(***************************************************************************)
EXTENDS MSemaphore

==============================================================================
