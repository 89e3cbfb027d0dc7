----------------------------- MODULE MCDashboard -----------------------------
(* Dashboard with four requests: the status request of the page and three     *)
(* clicks, among them two starts in a row, or a stop between two starts.      *)
EXTENDS Dashboard
=============================================================================
