------------------------------ MODULE MCMonitor ------------------------------
(* Monitor on a small instance: two starts, a 5-bit duration with a "second"  *)
(* of 3 units, so that a request of 6 seconds wraps around to -14.            *)
EXTENDS Monitor, TLC

CONSTANTS h1, h2

MCHandlers == {h1, h2}
MCRequests == {0, 1, 6}
MCSymmetry == Permutations(MCHandlers)
=============================================================================
