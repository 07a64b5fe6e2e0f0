------------------------------ MODULE MCReadings ----------------------------
(***************************************************************************)
(* Model-checking instances of Readings: one Pi and one PC, two packets    *)
(* under way on each connection, so that a poll and a press of the button  *)
(* overtake an upload that is half stored and each other's replies.        *)
(***************************************************************************)
EXTENDS Readings

==============================================================================
