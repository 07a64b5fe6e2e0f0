----------------------------- MODULE MCMThread -----------------------------
(***************************************************************************)
(* Model-checking instances of MThread: three callers, so that one can be  *)
(* blocked in close() while two others queue for the mutex, and two worker *)
(* slots, so that a second worker is possible where the code allows it.    *)
(***************************************************************************)
EXTENDS MThread

==============================================================================
