------------------------------- MODULE MCFleet -------------------------------
(* Small instances of Fleet: the prefixes of the rule cover the host or not. *)
EXTENDS Fleet

CONSTANT h

MCSpecs == {{}, {h}}
=============================================================================
