----------------------------- MODULE MCFinalizers -----------------------------
(* A small heap; the objects are interchangeable. *)
EXTENDS Finalizers, TLC

Symmetry == Permutations(Obj)
=============================================================================
