-------------------------- MODULE MCDSConnManager --------------------------
(* Small instance of DSConnManager. *)
EXTENDS DSConnManager
=============================================================================
