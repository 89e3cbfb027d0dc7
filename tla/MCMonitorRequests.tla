--------------------------- MODULE MCMonitorRequests ---------------------------
(* MonitorRequests with one client that may start monitoring twice, or two    *)
(* clients at once and a single start.                                        *)
EXTENDS MonitorRequests

CONSTANTS h1, h2

MCHandlers == {h1, h2}
MCPlans == {[handlers |-> {h1}, kinds |-> {"start", "stop"}, starts |-> 2],
            [handlers |-> {h1, h2}, kinds |-> Kinds, starts |-> 1]}
=============================================================================
