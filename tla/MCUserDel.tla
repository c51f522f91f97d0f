------------------------------ MODULE MCUserDel ------------------------------
(* Two threads and two objects that die.                                     *)
EXTENDS UserDel
=============================================================================
