---------------------------- MODULE MCPubkeyAgent ----------------------------
(* PubkeyAgent for TLC. *)
EXTENDS PubkeyAgent
=============================================================================
