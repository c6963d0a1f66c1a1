--------------------------- MODULE MCSessionTimers ---------------------------
(* Small instances of SessionTimers for TLC. *)
EXTENDS SessionTimers
==============================================================================
