----------------------------- MODULE MCPathReport -----------------------------
(* PathReport with latencies on both sides of the limits: averages around 50  *)
(* and 150 ms, deviations around 20 and 50, rises around 20, losses of none,  *)
(* one, two and all of three probes.                                          *)
EXTENDS PathReport

MCLatencies == {0, 60, 200}
=============================================================================
