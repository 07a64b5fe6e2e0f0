---------------------------- MODULE MCGroupNode -----------------------------
(***************************************************************************)
(* Model-checking instances of GroupNode: two connections on two           *)
(* descriptors, so that a descriptor is reused while the other client is   *)
(* there, and two worker slots where a second worker is possible.          *)
(***************************************************************************)
EXTENDS GroupNode

(* The specification treats all connections alike, so that what must       *)
(* happen in the end is checked for one of them: every packet answered     *)
(* (m_group_node.cpp:235-311), dropped when it is gone (:142-187).         *)
Someone == CHOOSE c \in Conns : TRUE
SomeoneAnswered == Answered(Someone)
SomeoneDropped == GoneIsDropped(Someone)
==============================================================================
