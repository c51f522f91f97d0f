---------------------------- MODULE MCThreadLock ----------------------------
(* A lock and a few threads. *)
EXTENDS ThreadLock
=============================================================================
