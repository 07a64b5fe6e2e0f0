------------------------------ MODULE MCHeartbeat ------------------------------
(***************************************************************************)
(* Heartbeat with a unit of half the heart's period and a patience of the  *)
(* Pi that is just enough for passes of a unit and one unit in gaps.  A    *)
(* packet takes no time, but it arrives at any moment of the unit: before  *)
(* the look of a pass, between the look and the reading, or in the gap.    *)
(***************************************************************************)
EXTENDS Heartbeat
==============================================================================
