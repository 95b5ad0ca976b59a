----------------------------- MODULE MCRegistry -----------------------------
(* The instances of Registry that TLC checks. *)
EXTENDS Registry
=============================================================================
