-------------------------- MODULE FulfilmentPromise --------------------------
(* What the payment and provisioning services promise, whoever calls them,  *)
(* however often, and wherever a call dies: an order is approved once, one  *)
(* subscription is made from it, that subscription is planned once and      *)
(* announced to its customer once, in this order.  No step is ever undone   *)
(* or repeated.  (docs/PHASE4C_DRY_RUN_PROVISIONING.md; the docstrings of   *)
(* payment_approval_service and provisioning_service.)                      *)
EXTENDS Naturals

CONSTANTS Orders, SubIds

VARIABLES
    approved,    \* orders approved so far
    made,        \* subscriptions made from each order
    planned,     \* how many times each subscription was planned
    announced    \* how many delivery messages each subscription has

vars == <<approved, made, planned, announced>>

Init ==
    /\ approved = {}
    /\ made = [o \in Orders |-> {}]
    /\ planned = [s \in SubIds |-> 0]
    /\ announced = [s \in SubIds |-> 0]

Approve(o) ==
    /\ o \notin approved
    /\ approved' = approved \cup {o}
    /\ UNCHANGED <<made, planned, announced>>

Make(o, s) ==
    /\ o \in approved
    /\ made[o] = {}
    /\ \A p \in Orders : s \notin made[p]
    /\ made' = [made EXCEPT ![o] = {s}]
    /\ UNCHANGED <<approved, planned, announced>>

Plan(s) ==
    /\ \E o \in Orders : s \in made[o]
    /\ planned[s] = 0
    /\ planned' = [planned EXCEPT ![s] = 1]
    /\ UNCHANGED <<approved, made, announced>>

Announce(s) ==
    /\ planned[s] = 1 /\ announced[s] = 0
    /\ announced' = [announced EXCEPT ![s] = 1]
    /\ UNCHANGED <<approved, made, planned>>

Next ==
    \/ \E o \in Orders : Approve(o)
    \/ \E o \in Orders, s \in SubIds : Make(o, s)
    \/ \E s \in SubIds : Plan(s) \/ Announce(s)

Spec == Init /\ [][Next]_vars
=============================================================================
