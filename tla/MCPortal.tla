------------------------------- MODULE MCPortal -------------------------------
(* Small instances of Portal for TLC. *)
EXTENDS Portal, TLC

CONSTANTS p1, t1, s1, s2

\* No cookie; an empty session cookie after a good one; and two session cookies, between
\* others, of which the last one counts.
Cookie(n, s) == [name |-> n, value |-> s]
Headers ==
    {<<>>}
    \cup {<<Cookie(COOKIE_NAME, s), Cookie(COOKIE_NAME, None)>> : s \in Sessions}
    \cup {<<Cookie(COOKIE_NAME, r), Cookie("", r), Cookie(COOKIE_NAME, s), Cookie("other", r)>> :
              <<r, s>> \in {<<x, y>> \in Sessions \X Sessions : x # y}}

Symmetry == Permutations(Sessions)
=============================================================================
