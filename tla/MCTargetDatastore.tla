------------------------- MODULE MCTargetDatastore -------------------------
(* Small instance of TargetDatastore. *)
EXTENDS TargetDatastore
=============================================================================
