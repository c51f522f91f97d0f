---------------------------- MODULE MCRawRefCount ----------------------------
(* Two objects and two PyObjects; addresses are used again.                  *)
EXTENDS RawRefCount
=============================================================================
