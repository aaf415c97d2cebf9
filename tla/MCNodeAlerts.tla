----------------------------- MODULE MCNodeAlerts -----------------------------
(* Small instances of NodeAlerts for TLC. *)
EXTENDS NodeAlerts, TLC

CONSTANTS w1, w2
=============================================================================
