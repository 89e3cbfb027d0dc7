------------------------------ MODULE MCNetPath ------------------------------
(* NetPath with one place in the map, two targets and two probes made one     *)
(* after the other.                                                           *)
EXTENDS NetPath

CONSTANTS t1, t2

MCTargets == {t1, t2}
=============================================================================
