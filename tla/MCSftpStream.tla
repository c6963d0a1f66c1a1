----------------------------- MODULE MCSftpStream -----------------------------
(* SftpStream for TLC. *)
EXTENDS SftpStream
=============================================================================
