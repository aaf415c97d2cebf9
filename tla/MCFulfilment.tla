---------------------------- MODULE MCFulfilment ----------------------------
(* Small instances of Fulfilment for TLC. *)
EXTENDS Fulfilment, TLC

CONSTANTS o1, o2, s1, s2, u1, c1, c2, c3

\* Both orders are of one customer, so their approvals meet at the access profile.
OneCustomer == [o \in Orders |-> u1]

\* Calls and subscription ids are interchangeable in the safety runs.
Symmetry == Permutations(Calls) \cup Permutations(SubIds)
=============================================================================
