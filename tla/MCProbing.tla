------------------------------ MODULE MCProbing ------------------------------
(* Probing with a round of a probe and one or two traces, to targets one and  *)
(* two hops away.                                                             *)
EXTENDS Probing, TLC

CONSTANTS near, far

MCDistance == [t \in Targets |-> IF t = near THEN 1 ELSE 2]
=============================================================================
