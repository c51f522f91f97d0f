------------------------------- MODULE MCGil -------------------------------
(* The GIL with two threads. *)
EXTENDS Gil
=============================================================================
