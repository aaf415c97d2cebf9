--------------------------- MODULE MCAccountLinking ---------------------------
(* Small instances of AccountLinking for TLC. *)
EXTENDS AccountLinking, TLC

CONSTANTS a1, a2, a3, u1, u2, u3, k1, k2, c1, c2, c3, c4

Symmetry == Permutations(Accounts) \cup Permutations(Customers) \cup Permutations(Calls)
    \cup Permutations(Codes)
=============================================================================
