------------------------------ MODULE MCSchema -------------------------------
(* Schema with two repositories for TLC. *)
EXTENDS Schema
=============================================================================
