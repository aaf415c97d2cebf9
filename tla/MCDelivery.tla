----------------------------- MODULE MCDelivery -----------------------------
(* Small instances of Delivery for TLC. *)
EXTENDS Delivery

CONSTANTS w1, c1, c2, s1

\* An output with a deep link: with a token there are two modes to choose from.
SomeOutputs == {[subscription_url |-> FALSE, deep_link |-> TRUE, configs |-> {"engine"}]}
=============================================================================
