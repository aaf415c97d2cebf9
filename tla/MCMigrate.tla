------------------------------- MODULE MCMigrate -------------------------------
(* Small instances of Migrate for TLC. *)
EXTENDS Migrate, Schema, TLC

CONSTANTS p1, p2, p3

Symmetry == Permutations(Processes)
=============================================================================
