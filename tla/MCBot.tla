-------------------------------- MODULE MCBot --------------------------------
(* Small instances of Bot for TLC. *)
EXTENDS Bot, TLC

CONSTANTS a1, a2, u1, u2, u3, k1, c1, c2, b1, b2, b3, b4, b5, b6, b7, b8, b9

\* Two users write; something without a sender comes between, and white space last.
TwoUsers == << [form |-> "message", from |-> a1, text |-> "/start"],
               [form |-> "other", from |-> None, text |-> ""],
               [form |-> "callback", from |-> a2, text |-> "/account"],
               [form |-> "message", from |-> a1, text |-> "blank"] >>

\* A user sends a message of white space, another writes after it.
BlankFirst == << [form |-> "message", from |-> a1, text |-> "blank"],
                 [form |-> "message", from |-> a2, text |-> "/start"] >>
=============================================================================
