----------------------------- MODULE MCPcClient -----------------------------
(* PcClient for TLC: the constants are numbers, given in the configuration. *)
EXTENDS PcClient
==============================================================================
