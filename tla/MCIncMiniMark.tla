--------------------------- MODULE MCIncMiniMark ---------------------------
(* The collector on a small heap; addresses of a kind are interchangeable. *)
EXTENDS IncMiniMark, TLC

Symmetry == Permutations(Nursery) \cup Permutations(Old)
=============================================================================
