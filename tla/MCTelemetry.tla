----------------------------- MODULE MCTelemetry -----------------------------
(* Small instances of Telemetry: two CRs; two specs that differ in port and
   interval, and two without a port: one disables the path and moves to another,
   one has a path that cannot be parsed. *)
EXTENDS Telemetry, TLC

CONSTANTS p, q, bad

MCSpecs == {[port |-> 7, interval |-> p :> 1],
            [port |-> 9, interval |-> p :> 2],
            [port |-> 0, interval |-> p :> None @@ q :> 1],
            [port |-> 0, interval |-> bad :> 1]}
=============================================================================
