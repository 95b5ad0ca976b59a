-------------------------- MODULE MCTargetRuntime --------------------------
(* Small instances of TargetRuntime. *)
EXTENDS TargetRuntime
=============================================================================
