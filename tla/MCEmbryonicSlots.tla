-------------------------- MODULE MCEmbryonicSlots --------------------------
(* Small instances of EmbryonicSlots for TLC. *)
EXTENDS EmbryonicSlots
=============================================================================
