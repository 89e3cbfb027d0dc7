------------------------------- MODULE MCServer -------------------------------
(* Server with one request handler, one session that takes two samples, and   *)
(* one client.                                                                *)
EXTENDS Server

CONSTANTS h1, c1
=============================================================================
