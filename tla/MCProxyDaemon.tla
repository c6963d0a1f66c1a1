----------------------------- MODULE MCProxyDaemon -----------------------------
(***************************************************************************)
(* ProxyDaemon with one session, targets of up to two addresses, and two   *)
(* chunks of data from the target, of which one may be read before the     *)
(* gateway has sent its only one.                                          *)
(***************************************************************************)
EXTENDS ProxyDaemon

MCChunks == [gateway |-> 1, target |-> 2]

================================================================================
