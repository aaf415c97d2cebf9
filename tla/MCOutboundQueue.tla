--------------------------- MODULE MCOutboundQueue ---------------------------
(* Small instances of OutboundQueue for TLC. *)
EXTENDS OutboundQueue, TLC

CONSTANTS w1, w2

Symmetry == Permutations(Workers)
=============================================================================
