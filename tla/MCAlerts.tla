------------------------------ MODULE MCAlerts ------------------------------
(***************************************************************************)
(* Instances of Alerts for TLC: two host dotdirs that may hold a kit.      *)
(***************************************************************************)
EXTENDS Alerts

CONSTANTS d1, d2
=============================================================================
