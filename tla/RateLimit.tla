------------------------------- MODULE RateLimit -------------------------------
(* rate_limit.RateLimiter: a fixed window per key, with a block that every    *)
(* further attempt renews.  Each process has a limiter of its own, in memory; *)
(* a key is the fingerprint of a token.  The clock is shared, and wherever it *)
(* is read again it may have moved on.                                        *)
(*                                                                            *)
(* A key that was never seen, or forgotten, behaves as one whose window has   *)
(* run out, so NoWindow stands for both.                                      *)
EXTENDS Integers, FiniteSets

CONSTANTS
    Processes,       \* the processes that hold a limiter
    Tokens,          \* the tokens whose fingerprints are the keys
    MaxAttempts,     \* max_attempts
    WindowSeconds,   \* window_seconds
    BlockSeconds,    \* block_seconds
    MaxTime          \* bound of the model: when the clock stops

ASSUME LimiterAssumption ==
    /\ MaxAttempts \in Nat \ {0}
    /\ WindowSeconds \in Nat /\ BlockSeconds \in Nat
    /\ MaxTime \in Nat

VARIABLES
    now,       \* the clock, _tz.now_mmt
    windows,   \* RateLimiter._state of each process
    granted,   \* the attempts allowed in the last WindowSeconds; nth tells those of one time apart
    last       \* the last attempt, and whether it was allowed

limiter == <<windows, granted, last>>

NoWindow == [count |-> 0, start |-> -WindowSeconds, until |-> 0]
NoAttempt == [at |-> 0, allowed |-> TRUE]

LimiterTypeOK ==
    /\ now \in Nat
    /\ windows \in [Processes -> [Tokens -> [count : Nat, start : Int, until : Nat]]]
    /\ granted \in [Processes -> [Tokens -> SUBSET [at : Nat, nth : Nat]]]
    /\ last \in [Processes -> [Tokens -> [at : Nat, allowed : BOOLEAN]]]

LimiterInit ==
    /\ now = 1
    /\ windows = [p \in Processes |-> [t \in Tokens |-> NoWindow]]
    /\ granted = [p \in Processes |-> [t \in Tokens |-> {}]]
    /\ last = [p \in Processes |-> [t \in Tokens |-> NoAttempt]]

-----------------------------------------------------------------------------
Blocked(win, ts) == win.until > ts

\* Mutant: the count starts over, the window does not.
RolledInPlace(win, ts) ==
    IF ts - win.start >= WindowSeconds THEN [count |-> 0, start |-> win.start, until |-> 0] ELSE win

\* A window that has elapsed starts over.
Rolled(win, ts) ==
    IF ts - win.start >= WindowSeconds THEN [count |-> 0, start |-> ts, until |-> 0] ELSE win

Count(win, ts) == Rolled(win, ts).count + 1

Allowed(win, ts) == ~Blocked(win, ts) /\ Count(win, ts) <= MaxAttempts

\* The key's window after an attempt.
Checked(win, ts) ==
    IF Blocked(win, ts)
    THEN [count |-> win.count, start |-> win.start, until |-> ts + BlockSeconds]
    ELSE [count |-> Count(win, ts), start |-> Rolled(win, ts).start,
          until |-> IF Allowed(win, ts) THEN Rolled(win, ts).until ELSE ts + BlockSeconds]

\* The Retry-After of a refusal, in either branch.
RetryAfter == BlockSeconds

Recent(grants) == {g \in grants : now - g.at < WindowSeconds}

\* The attempt that is allowed now.
Grant(grants) == [at |-> now, nth |-> Cardinality({g \in Recent(grants) : g.at = now}) + 1]

\* check(key): the decision, and the attempt recorded.
Check(p, t, allowed) ==
    /\ allowed = Allowed(windows[p][t], now)
    /\ windows' = [windows EXCEPT ![p][t] = Checked(@, now)]
    /\ granted' = [granted EXCEPT ![p][t] = Recent(@) \cup IF allowed THEN {Grant(@)} ELSE {}]
    /\ last' = [last EXCEPT ![p][t] = [at |-> now, allowed |-> allowed]]

\* The process ends, and what it remembers with it.
Forget(p) ==
    /\ windows' = [windows EXCEPT ![p] = [t \in Tokens |-> NoWindow]]
    /\ granted' = [granted EXCEPT ![p] = [t \in Tokens |-> {}]]
    /\ last' = [last EXCEPT ![p] = [t \in Tokens |-> NoAttempt]]

-----------------------------------------------------------------------------
(* Properties. *)

WindowBudget == \A p \in Processes, t \in Tokens : Cardinality(granted[p][t]) <= 2 * MaxAttempts - 1

RetryAfterIsExact ==
    BlockSeconds >= WindowSeconds =>
        \A p \in Processes, t \in Tokens :
            ~last[p][t].allowed =>
                (Allowed(windows[p][t], now) <=> now - last[p][t].at >= RetryAfter)

QuietIsAllowed ==
    \A p \in Processes, t \in Tokens :
        (now - last[p][t].at >= WindowSeconds /\ now - last[p][t].at >= BlockSeconds)
            => Allowed(windows[p][t], now)

\* However attempts are placed around the ends of windows and blocks: no stretch of
\* WindowSeconds holds more than one window's worth and the tail of the one before; after
\* a refusal the next attempt is allowed when Retry-After has passed and not a second
\* before, as long as a block is no shorter than a window; and a key that was left alone
\* for a window and a block is allowed, so nothing locks a token out for good.
LimitIsExact == WindowBudget /\ RetryAfterIsExact /\ QuietIsAllowed
=============================================================================
