---------------------------- MODULE MCCollectors -----------------------------
(* Collectors on a small host: two callers, one interface whose counter wraps *)
(* around at the third octet.                                                 *)
EXTENDS Collectors, TLC

CONSTANTS a, b, eth

MCCallers == {a, b}
MCInterfaces == {eth}
MCLoads == {[kind |-> "idle", busy |-> {}], [kind |-> "kernel", busy |-> {}],
            [kind |-> "user", busy |-> {eth}]}
MCSymmetry == Permutations(MCCallers)
=============================================================================
