----------------------------- MODULE MCSignals -----------------------------
(* Signals and actions with a few threads and signals. *)
EXTENDS Signals
=============================================================================
