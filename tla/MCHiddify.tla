----------------------------- MODULE MCHiddify ------------------------------
(* Small instances of Hiddify for TLC. *)
EXTENDS Hiddify

CONSTANTS c1, c2, c3, u1, u2, u3, u4
=============================================================================
