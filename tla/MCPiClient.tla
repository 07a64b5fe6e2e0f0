----------------------------- MODULE MCPiClient -----------------------------
(* PiClient for TLC: the constants are numbers, given in the configuration. *)
EXTENDS PiClient
==============================================================================
