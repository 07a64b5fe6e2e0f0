------------------------------ MODULE MCServer ------------------------------
(***************************************************************************)
(* Model-checking instance of Server: three groups, so that comparing with *)
(* the first group differs from comparing with the best, four connections, *)
(* so that one group has two clients, and two uploads.                     *)
(***************************************************************************)
EXTENDS Server

==============================================================================
