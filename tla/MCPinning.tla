----------------------------- MODULE MCPinning -----------------------------
(* Pinned objects on a small heap; addresses outside the nursery are alike. *)
EXTENDS Pinning, TLC

Symmetry == Permutations(Old)
=============================================================================
