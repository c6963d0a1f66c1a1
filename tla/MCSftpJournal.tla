---------------------------- MODULE MCSftpJournal ----------------------------
(* SftpJournal for TLC. *)
EXTENDS SftpJournal
=============================================================================
