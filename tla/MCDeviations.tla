----------------------------- MODULE MCDeviations ----------------------------
(* Deviations with one Config and one path for TLC. *)
EXTENDS Deviations
=============================================================================
