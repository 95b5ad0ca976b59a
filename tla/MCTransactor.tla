---------------------------- MODULE MCTransactor ----------------------------
(* Small instances of Transactor, with cleardeviation requests beside it. *)
EXTENDS ClearDeviation
=============================================================================
