-------------------------------- MODULE MCHub --------------------------------
(* Hub with two broadcast loops, one of them leaked by an earlier session.    *)
EXTENDS Hub, TLC

CONSTANTS c1, b1, b2

MCClients == {c1}
MCBroadcasters == {b1, b2}
=============================================================================
