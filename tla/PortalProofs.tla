----------------------------- MODULE PortalProofs -----------------------------
(* Theorems about Portal and the limiters it goes through, for every set of   *)
(* tokens, sessions, processes and Cookie headers, and every limit, window,   *)
(* block and lifetime.                                                        *)
EXTENDS Portal, FiniteSetTheorems, WellFoundedInduction, TLAPS

(* The inductive invariant of one key's window WIN at the time TS, with what  *)
(* was granted lately and the last attempt.  The attempts that count fall     *)
(* into this window or into the tail of the one before, which lacks at least  *)
(* the attempt that opened it.                                                *)
Since(grants, start) == {g \in grants : g.at >= start}
After(grants, start) == {g \in grants : g.at > start}
Before(grants, start) == {g \in grants : g.at < start}

WindowInv(ts, win, grants, att) ==
    /\ IsFiniteSet(grants)
    /\ \A g \in grants : g.at <= ts
    /\ win.start <= att.at /\ att.at <= ts
    /\ win.until <= att.at + BlockSeconds
    /\ ~att.allowed => win.until = att.at + BlockSeconds
    /\ win.count = 0 => grants = {} /\ win.start = -WindowSeconds /\ win.until = 0
    /\ win.count > 0 =>
        /\ Cardinality(Since(grants, win.start)) <= win.count
        /\ Cardinality(Since(grants, win.start)) <= MaxAttempts
        /\ Cardinality(After(grants, win.start)) <= win.count - 1
        /\ Cardinality(After(grants, win.start)) <= MaxAttempts - 1
        /\ Cardinality(Before(grants, win.start)) <= MaxAttempts - 1
        /\ WindowSeconds > 0 => \A g \in grants : g.at < win.start + WindowSeconds

LimiterInv ==
    \A p \in Processes, t \in Tokens : WindowInv(now, windows[p][t], granted[p][t], last[p][t])

(* What a request in hand still knows of the row it has read, and what a      *)
(* request that was dead on arrival cannot reach.                             *)
RequestInv ==
    \A p \in Processes :
        /\ ~At(p, "idle") => presented[p] \in Credentials
        /\ route[p] = "branded" => presented[p] \in Tokens
        /\ At(p, "create") => route[p] = "branded"
        /\ answer[p] = 200 => ~stale[p]
        /\ At(p, "verify") /\ stale[p] => Dead(presented[p])
        /\ At(p, "touch") \/ At(p, "create") => ~stale[p] /\ Known(presented[p])

\* The requests that may still make a session of the token, dead or not.
InHand(t) ==
    {p \in Processes : ~At(p, "idle") /\ route[p] = "branded" /\ presented[p] = t /\ ~stale[p]}

LateFrom(t) == {s \in late : source[s] = t}

(* A session of a dead token was paid for with a request in hand, and no      *)
(* request for the token that comes later can take its place.                 *)
LateInv ==
    /\ IsFiniteSet(late)
    /\ \A s \in late : Known(s) /\ source[s] \in Tokens /\ Dead(source[s])
    /\ \A t \in Tokens :
        Dead(t) => Cardinality(LateFrom(t)) + Cardinality(InHand(t)) <= Cardinality(Processes)

IInv == TypeOK /\ now >= 1 /\ LimiterInv /\ RequestInv /\ LateInv

-----------------------------------------------------------------------------
(* The limiter. *)
Windows == [count : Nat, start : Int, until : Nat]
Grants == [at : Nat, nth : Nat]
Attempts == [at : Nat, allowed : BOOLEAN]

LEMMA CheckedTyped ==
  ASSUME NEW win \in Windows, NEW ts \in Nat
  PROVE  /\ Checked(win, ts) \in Windows
         /\ Count(win, ts) \in Nat \ {0}
  BY LimiterAssumption DEF Windows, Checked, Count, Rolled, Blocked, Allowed

LEMMA RecentKept ==
  ASSUME NEW grants, IsFiniteSet(grants)
  PROVE  /\ Recent(grants) \subseteq grants
         /\ IsFiniteSet(Recent(grants))
  <1>1. Recent(grants) \subseteq grants
    BY DEF Recent
  <1> QED BY <1>1, FS_Subset

(* One more attempt: every part of the window's account grows by it at most.  *)
LEMMA OneMore ==
  ASSUME NEW S, NEW T, NEW g, IsFiniteSet(S), T \subseteq S \cup {g}
  PROVE  /\ IsFiniteSet(T) /\ Cardinality(T) \in Nat /\ Cardinality(S) \in Nat
         /\ Cardinality(T) <= Cardinality(S) + 1
  <1>0. Cardinality(S) \in Nat
    BY FS_CardinalityType
  <1>1. IsFiniteSet(S \cup {g}) /\ Cardinality(S \cup {g}) <= Cardinality(S) + 1
    <2>1. /\ IsFiniteSet(S \cup {g})
          /\ \/ Cardinality(S \cup {g}) = Cardinality(S)
             \/ Cardinality(S \cup {g}) = Cardinality(S) + 1
      BY FS_AddElement
    <2> QED BY <1>0, <2>1
  <1>2. IsFiniteSet(T) /\ Cardinality(T) <= Cardinality(S \cup {g})
    BY <1>1, FS_Subset
  <1> QED BY <1>0, <1>1, <1>2, FS_CardinalityType

LEMMA NoMore ==
  ASSUME NEW S, NEW T, IsFiniteSet(S), T \subseteq S
  PROVE  /\ IsFiniteSet(T) /\ Cardinality(T) \in Nat /\ Cardinality(S) \in Nat
         /\ Cardinality(T) <= Cardinality(S)
  BY FS_Subset, FS_CardinalityType

(* The parts of a finite set of attempts are finite, and counted. *)
LEMMA PartsFinite ==
  ASSUME NEW grants, IsFiniteSet(grants), NEW start
  PROVE  /\ IsFiniteSet(Since(grants, start)) /\ Cardinality(Since(grants, start)) \in Nat
         /\ IsFiniteSet(After(grants, start)) /\ Cardinality(After(grants, start)) \in Nat
         /\ IsFiniteSet(Before(grants, start)) /\ Cardinality(Before(grants, start)) \in Nat
  <1>1. /\ Since(grants, start) \subseteq grants /\ After(grants, start) \subseteq grants
        /\ Before(grants, start) \subseteq grants
    BY DEF Since, After, Before
  <1> QED BY <1>1, NoMore

(* A refused attempt adds nothing: what is left of the account is a part of   *)
(* it, and the window stays.                                                  *)
LEMMA RefusedKeeps ==
  ASSUME NEW ts \in Nat, ts = now, NEW win \in Windows, NEW grants \in SUBSET Grants,
         NEW att \in Attempts, WindowInv(ts, win, grants, att), ~Allowed(win, ts)
  PROVE  WindowInv(ts, Checked(win, ts), Recent(grants), [at |-> ts, allowed |-> FALSE])
  <1> DEFINE next == Checked(win, ts)
             left == Recent(grants)
  <1> USE LimiterAssumption
  <1>1. IsFiniteSet(grants) /\ left \subseteq grants /\ IsFiniteSet(left)
    BY RecentKept DEF WindowInv
  <1>2. win.count > 0
    BY DEF WindowInv, Allowed, Blocked, Count, Rolled, Windows
  <1>3. /\ next.start = win.start /\ next.until = ts + BlockSeconds
        /\ next.count \in Nat /\ next.count >= win.count
    <2>1. CASE Blocked(win, ts)
      BY <2>1 DEF Checked, Windows
    <2>2. CASE ~Blocked(win, ts)
      <3>1. Count(win, ts) > MaxAttempts
        BY <2>2, CheckedTyped DEF Allowed
      <3>2. Rolled(win, ts) = win
        BY <3>1 DEF Count, Rolled
      <3> QED BY <2>2, <3>2 DEF Checked, Count, Windows
    <2> QED BY <2>1, <2>2
  <1>4. /\ Since(left, win.start) \subseteq Since(grants, win.start)
        /\ After(left, win.start) \subseteq After(grants, win.start)
        /\ Before(left, win.start) \subseteq Before(grants, win.start)
    BY <1>1 DEF Since, After, Before
  <1>5. /\ Cardinality(Since(left, win.start)) <= win.count
        /\ Cardinality(Since(left, win.start)) <= MaxAttempts
        /\ Cardinality(After(left, win.start)) <= win.count - 1
        /\ Cardinality(After(left, win.start)) <= MaxAttempts - 1
        /\ Cardinality(Before(left, win.start)) <= MaxAttempts - 1
    <2>1. /\ Cardinality(Since(left, win.start)) <= Cardinality(Since(grants, win.start))
          /\ Cardinality(After(left, win.start)) <= Cardinality(After(grants, win.start))
          /\ Cardinality(Before(left, win.start)) <= Cardinality(Before(grants, win.start))
      BY <1>1, <1>4, PartsFinite, NoMore
    <2> QED BY <1>1, <1>2, <2>1, PartsFinite DEF WindowInv, Windows
  <1> HIDE DEF next, left
  <1>6. /\ next.start <= ts /\ next.until <= ts + BlockSeconds
    BY <1>3 DEF WindowInv, Windows, Attempts
  <1>7. \A g \in left : g.at <= ts
    BY <1>1 DEF WindowInv
  <1>8. WindowSeconds > 0 => \A g \in left : g.at < win.start + WindowSeconds
    BY <1>1, <1>2 DEF WindowInv
  <1>9. /\ Cardinality(Since(left, win.start)) <= next.count
        /\ Cardinality(After(left, win.start)) <= next.count - 1
    BY <1>1, <1>3, <1>5, PartsFinite DEF Windows
  <1>10. WindowInv(ts, next, left, [at |-> ts, allowed |-> FALSE])
    BY <1>1, <1>2, <1>3, <1>5, <1>6, <1>7, <1>8, <1>9 DEF WindowInv, Windows
  <1> QED BY <1>10 DEF next, left

(* An allowed attempt is counted; when it opens a window, what was granted in *)
(* the last one and is not forgotten came after that one's opening.           *)
LEMMA AllowedCounts ==
  ASSUME NEW ts \in Nat, ts = now, NEW win \in Windows, NEW grants \in SUBSET Grants,
         NEW att \in Attempts, WindowInv(ts, win, grants, att), Allowed(win, ts)
  PROVE  WindowInv(ts, Checked(win, ts), Recent(grants) \cup {Grant(grants)},
                   [at |-> ts, allowed |-> TRUE])
  <1> DEFINE next == Checked(win, ts)
             new == Grant(grants)
             kept == Recent(grants) \cup {Grant(grants)}
  <1> USE LimiterAssumption
  <1>1. IsFiniteSet(grants) /\ Recent(grants) \subseteq grants /\ IsFiniteSet(Recent(grants))
    BY RecentKept DEF WindowInv
  <1>2. new.at = ts /\ IsFiniteSet(kept) /\ kept = Recent(grants) \cup {new}
    BY <1>1, FS_AddElement DEF Grant
  <1>3. \A g \in kept : g.at \in Nat /\ g.at <= ts
    BY <1>1, <1>2 DEF WindowInv, Grants
  <1>4. /\ next.count = Count(win, ts) /\ next.start = Rolled(win, ts).start
        /\ next.until = Rolled(win, ts).until
        /\ win.until <= ts /\ next.count \in Nat /\ next.count > 0 /\ next.count <= MaxAttempts
    BY CheckedTyped DEF Allowed, Checked, Blocked, Windows
  <1>5. ASSUME ts - win.start >= WindowSeconds PROVE WindowInv(ts, next, kept, [at |-> ts, allowed |-> TRUE])
    <2>1. next.count = 1 /\ next.start = ts /\ next.until = 0
      BY <1>4, <1>5 DEF Rolled, Count
    <2>2. \A g \in Recent(grants) : g.at < ts /\ g \in After(grants, win.start) /\ win.count > 0
      <3> SUFFICES ASSUME NEW g \in Recent(grants)
                   PROVE  g.at < ts /\ g \in After(grants, win.start) /\ win.count > 0
        OBVIOUS
      <3>1. g \in grants /\ g.at \in Nat /\ ts - g.at < WindowSeconds
        BY DEF Recent, Grants
      <3>2. win.count > 0 /\ g.at <= ts
        BY <3>1 DEF WindowInv, Windows
      <3>3. WindowSeconds > 0
        BY <3>1, <3>2
      <3>4. g.at < win.start + WindowSeconds
        BY <3>1, <3>2, <3>3 DEF WindowInv
      <3> QED BY <1>5, <3>1, <3>2, <3>4 DEF After, Windows
    <2>3. Since(kept, ts) \subseteq {new} /\ After(kept, ts) \subseteq {}
      BY <1>2, <1>3, <2>2 DEF Since, After
    <2>4. Before(kept, ts) \subseteq After(grants, win.start)
      BY <1>2, <2>2 DEF Before
    <2>5. Cardinality(Since(kept, ts)) <= 1
      <3>1. IsFiniteSet({new}) /\ Cardinality({new}) = 1
        BY FS_Singleton
      <3> QED BY <2>3, <3>1, NoMore
    <2>6. Cardinality(After(kept, ts)) = 0
      BY <2>3, FS_EmptySet
    <2>7. Cardinality(Before(kept, ts)) <= MaxAttempts - 1
      <3>1. CASE Before(kept, ts) = {}
        BY <3>1, FS_EmptySet
      <3>2. CASE Before(kept, ts) # {}
        <4>1. win.count > 0
          BY <1>2, <2>2, <3>2 DEF Before
        <4>2. Cardinality(After(grants, win.start)) <= MaxAttempts - 1
          BY <4>1 DEF WindowInv
        <4>3. Cardinality(Before(kept, ts)) <= Cardinality(After(grants, win.start))
          BY <1>1, <2>4, PartsFinite, NoMore
        <4> QED BY <1>1, <1>2, <4>2, <4>3, PartsFinite
      <3> QED BY <3>1, <3>2
    <2>8. WindowSeconds > 0 => \A g \in kept : g.at < ts + WindowSeconds
      BY <1>3
    <2> HIDE DEF next, kept, new
    <2> QED BY <1>2, <1>3, <2>1, <2>5, <2>6, <2>7, <2>8, PartsFinite DEF WindowInv
  <1>6. ASSUME ts - win.start < WindowSeconds PROVE WindowInv(ts, next, kept, [at |-> ts, allowed |-> TRUE])
    <2>1. /\ next.count = win.count + 1 /\ next.start = win.start /\ next.until = win.until
      BY <1>4, <1>6 DEF Rolled, Count, Windows
    <2>2. win.count > 0 /\ win.start <= ts
      BY <1>6 DEF WindowInv, Windows, Attempts
    <2>3. /\ Since(kept, win.start) \subseteq Since(grants, win.start) \cup {new}
          /\ After(kept, win.start) \subseteq After(grants, win.start) \cup {new}
          /\ Before(kept, win.start) \subseteq Before(grants, win.start)
      BY <1>1, <1>2, <2>2 DEF Since, After, Before, Windows
    <2>4. /\ Cardinality(Since(kept, win.start)) <= Cardinality(Since(grants, win.start)) + 1
          /\ Cardinality(After(kept, win.start)) <= Cardinality(After(grants, win.start)) + 1
          /\ Cardinality(Before(kept, win.start)) <= Cardinality(Before(grants, win.start))
      <3> HIDE DEF new, kept
      <3> QED BY <1>1, <2>3, PartsFinite, OneMore, NoMore
    <2>5. /\ Cardinality(Since(kept, win.start)) <= next.count
          /\ Cardinality(Since(kept, win.start)) <= MaxAttempts
          /\ Cardinality(After(kept, win.start)) <= next.count - 1
          /\ Cardinality(After(kept, win.start)) <= MaxAttempts - 1
          /\ Cardinality(Before(kept, win.start)) <= MaxAttempts - 1
      <3> HIDE DEF new, kept, next
      <3>1. /\ Cardinality(Since(grants, win.start)) <= win.count
            /\ Cardinality(After(grants, win.start)) <= win.count - 1
            /\ Cardinality(Before(grants, win.start)) <= MaxAttempts - 1
        BY <2>2 DEF WindowInv
      <3> QED BY <1>1, <1>2, <1>4, <2>1, <2>2, <2>4, <3>1, PartsFinite DEF Windows
    <2>6. \A g \in kept : g.at < win.start + WindowSeconds
      <3>1. \A g \in grants : g.at < win.start + WindowSeconds
        BY <1>6, <2>2 DEF WindowInv, Windows
      <3> QED BY <1>1, <1>2, <1>6, <3>1 DEF Windows
    <2> HIDE DEF next, kept, new
    <2> QED BY <1>2, <1>3, <1>4, <2>1, <2>2, <2>5, <2>6 DEF WindowInv, Windows
  <1>7. win.start \in Int
    BY DEF Windows
  <1> QED BY <1>5, <1>6, <1>7

LEMMA CheckKeeps ==
  ASSUME LimiterTypeOK, LimiterInv, NEW p \in Processes, NEW t \in Tokens,
         NEW allowed \in BOOLEAN, Check(p, t, allowed), now' = now
  PROVE  LimiterTypeOK' /\ LimiterInv'
  <1> DEFINE win == windows[p][t]
             left == Recent(granted[p][t]) \cup IF allowed THEN {Grant(granted[p][t])} ELSE {}
             att == [at |-> now, allowed |-> allowed]
  <1>1. /\ win \in Windows /\ granted[p][t] \in SUBSET Grants /\ last[p][t] \in Attempts
        /\ now \in Nat /\ WindowInv(now, win, granted[p][t], last[p][t])
    BY DEF LimiterTypeOK, LimiterInv, Windows, Grants, Attempts
  <1>2. allowed = Allowed(win, now)
    BY DEF Check
  <1>3. WindowInv(now, Checked(win, now), left, att)
    <2>1. CASE allowed
      BY <1>1, <1>2, <2>1, AllowedCounts
    <2>2. CASE ~allowed
      <3>1. left = Recent(granted[p][t]) /\ att = [at |-> now, allowed |-> FALSE]
        BY <2>2
      <3> QED BY <1>1, <1>2, <2>2, <3>1, RefusedKeeps
    <2> QED BY <2>1, <2>2
  <1>4. Checked(win, now) \in Windows /\ att \in Attempts
    BY <1>1, CheckedTyped DEF Attempts
  <1>5. left \in SUBSET Grants
    <2>1. IsFiniteSet({g \in Recent(granted[p][t]) : g.at = now})
      BY <1>1, RecentKept, FS_Subset DEF WindowInv
    <2>2. Cardinality({g \in Recent(granted[p][t]) : g.at = now}) \in Nat
      BY <2>1, FS_CardinalityType
    <2>3. Grant(granted[p][t]) \in Grants
      BY <1>1, <2>2 DEF Grant, Grants
    <2>4. Recent(granted[p][t]) \in SUBSET Grants
      BY <1>1 DEF Recent
    <2> QED BY <2>3, <2>4
  <1>6. /\ windows' = [windows EXCEPT ![p] = [windows[p] EXCEPT ![t] = Checked(win, now)]]
        /\ granted' = [granted EXCEPT ![p] = [granted[p] EXCEPT ![t] = left]]
        /\ last' = [last EXCEPT ![p] = [last[p] EXCEPT ![t] = att]]
    BY DEF Check, LimiterTypeOK
  <1> HIDE DEF win, left, att
  <1>7. /\ windows' \in [Processes -> [Tokens -> Windows]]
        /\ granted' \in [Processes -> [Tokens -> SUBSET Grants]]
        /\ last' \in [Processes -> [Tokens -> Attempts]]
    <2>1. /\ windows \in [Processes -> [Tokens -> Windows]]
          /\ granted \in [Processes -> [Tokens -> SUBSET Grants]]
          /\ last \in [Processes -> [Tokens -> Attempts]]
      BY DEF LimiterTypeOK, Windows, Grants, Attempts
    <2>2. windows' \in [Processes -> [Tokens -> Windows]]
      BY <1>4, <1>6, <2>1
    <2>3. granted' \in [Processes -> [Tokens -> SUBSET Grants]]
      BY <1>5, <1>6, <2>1
    <2>4. last' \in [Processes -> [Tokens -> Attempts]]
      BY <1>4, <1>6, <2>1
    <2> QED BY <2>2, <2>3, <2>4
  <1>8. LimiterTypeOK'
    BY <1>1, <1>7 DEF LimiterTypeOK, Windows, Grants, Attempts
  <1>9. ASSUME NEW q \in Processes, NEW u \in Tokens
        PROVE  WindowInv(now, windows'[q][u], granted'[q][u], last'[q][u])
    <2>1. CASE q = p /\ u = t
      <3>1. windows'[q][u] = Checked(win, now) /\ granted'[q][u] = left /\ last'[q][u] = att
        BY <1>6, <2>1 DEF LimiterTypeOK
      <3> QED BY <1>3, <3>1
    <2>2. CASE ~(q = p /\ u = t)
      <3>1. windows'[q][u] = windows[q][u] /\ granted'[q][u] = granted[q][u] /\ last'[q][u] = last[q][u]
        BY <1>6, <2>2 DEF LimiterTypeOK
      <3> QED BY <3>1 DEF LimiterInv
    <2> QED BY <2>1, <2>2
  <1>10. LimiterInv'
    BY <1>9 DEF LimiterInv, WindowInv
  <1> QED BY <1>8, <1>10

(* A limiter that knows nothing, or nothing any more. *)
LEMMA FreshWindow ==
  ASSUME NEW ts \in Nat
  PROVE  WindowInv(ts, NoWindow, {}, NoAttempt)
  BY LimiterAssumption, FS_EmptySet DEF WindowInv, NoWindow, NoAttempt

LEMMA ForgetKeeps ==
  ASSUME LimiterTypeOK, LimiterInv, NEW p \in Processes, Forget(p), now' = now
  PROVE  LimiterTypeOK' /\ LimiterInv'
  <1>1. NoWindow \in Windows /\ NoAttempt \in Attempts
    BY LimiterAssumption DEF NoWindow, NoAttempt, Windows, Attempts
  <1>2. /\ windows \in [Processes -> [Tokens -> Windows]]
        /\ granted \in [Processes -> [Tokens -> SUBSET Grants]]
        /\ last \in [Processes -> [Tokens -> Attempts]]
        /\ now \in Nat
    BY DEF LimiterTypeOK, Windows, Grants, Attempts
  <1>3. /\ windows' \in [Processes -> [Tokens -> Windows]]
        /\ granted' \in [Processes -> [Tokens -> SUBSET Grants]]
        /\ last' \in [Processes -> [Tokens -> Attempts]]
    BY <1>1, <1>2 DEF Forget
  <1>4. LimiterTypeOK'
    BY <1>2, <1>3 DEF LimiterTypeOK, Windows, Grants, Attempts
  <1>5. ASSUME NEW q \in Processes, NEW u \in Tokens
        PROVE  WindowInv(now, windows'[q][u], granted'[q][u], last'[q][u])
    <2>1. CASE q = p
      <3>1. windows'[q][u] = NoWindow /\ granted'[q][u] = {} /\ last'[q][u] = NoAttempt
        BY <1>2, <2>1 DEF Forget
      <3> QED BY <1>2, <3>1, FreshWindow
    <2>2. CASE q # p
      <3>1. windows'[q][u] = windows[q][u] /\ granted'[q][u] = granted[q][u] /\ last'[q][u] = last[q][u]
        BY <1>2, <2>2 DEF Forget
      <3> QED BY <3>1 DEF LimiterInv
    <2> QED BY <2>1, <2>2
  <1>6. LimiterInv'
    BY <1>5 DEF LimiterInv, WindowInv
  <1> QED BY <1>4, <1>6

LEMMA TickKeeps ==
  ASSUME LimiterTypeOK, LimiterInv, now' \in {now, now + 1}, UNCHANGED limiter
  PROVE  LimiterTypeOK' /\ LimiterInv'
  <1>1. LimiterTypeOK'
    BY DEF LimiterTypeOK, limiter
  <1>2. ASSUME NEW p \in Processes, NEW t \in Tokens
        PROVE  WindowInv(now', windows[p][t], granted[p][t], last[p][t])
    <2>1. /\ WindowInv(now, windows[p][t], granted[p][t], last[p][t]) /\ now \in Nat
          /\ last[p][t] \in Attempts /\ granted[p][t] \in SUBSET Grants
      BY DEF LimiterInv, LimiterTypeOK, Attempts, Grants
    <2>2. last[p][t].at <= now' /\ \A g \in granted[p][t] : g.at <= now'
      BY <2>1 DEF WindowInv, Attempts, Grants
    <2> QED BY <2>1, <2>2 DEF WindowInv
  <1>3. LimiterInv'
    BY <1>2 DEF LimiterInv, limiter, WindowInv
  <1> QED BY <1>1, <1>3

(* What the invariant says of the limiter's promises. *)
LEMMA LimitFollows ==
  ASSUME LimiterTypeOK, LimiterInv
  PROVE  LimitIsExact
  <1> USE LimiterAssumption
  <1>1. ASSUME NEW p \in Processes, NEW t \in Tokens
        PROVE  /\ windows[p][t] \in Windows /\ granted[p][t] \in SUBSET Grants
               /\ last[p][t] \in Attempts /\ now \in Nat
               /\ WindowInv(now, windows[p][t], granted[p][t], last[p][t])
    BY DEF LimiterTypeOK, LimiterInv, Windows, Grants, Attempts
  <1>2. WindowBudget
    <2> SUFFICES ASSUME NEW p \in Processes, NEW t \in Tokens
                 PROVE  Cardinality(granted[p][t]) <= 2 * MaxAttempts - 1
      BY DEF WindowBudget
    <2> DEFINE G == granted[p][t]
               start == windows[p][t].start
    <2>1. CASE windows[p][t].count = 0
      <3>1. G = {}
        BY <1>1, <2>1 DEF WindowInv
      <3> QED BY <3>1, FS_EmptySet
    <2>2. CASE windows[p][t].count > 0
      <3>1. /\ IsFiniteSet(G) /\ G = Since(G, start) \cup Before(G, start)
            /\ Since(G, start) \cap Before(G, start) = {}
        <4>1. IsFiniteSet(G) /\ start \in Int /\ \A g \in G : g.at \in Nat
          BY <1>1 DEF WindowInv, Windows, Grants
        <4> HIDE DEF G, start
        <4> QED BY <4>1 DEF Since, Before
      <3>2. /\ Cardinality(Since(G, start)) <= MaxAttempts
            /\ Cardinality(Before(G, start)) <= MaxAttempts - 1
        BY <1>1, <2>2 DEF WindowInv
      <3> HIDE DEF G, start
      <3>3. Cardinality(G) = Cardinality(Since(G, start)) + Cardinality(Before(G, start))
        <4>1. /\ Since(G, start) \cap Before(G, start) = {}
              /\ IsFiniteSet(Since(G, start)) /\ IsFiniteSet(Before(G, start))
          BY <3>1, PartsFinite
        <4>2. Cardinality(Since(G, start) \cup Before(G, start))
                = Cardinality(Since(G, start)) + Cardinality(Before(G, start))
          <5>1. Cardinality(Since(G, start) \cap Before(G, start)) = 0
            BY <4>1, FS_EmptySet
          <5>2. Cardinality(Since(G, start) \cup Before(G, start))
                  = Cardinality(Since(G, start)) + Cardinality(Before(G, start))
                      - Cardinality(Since(G, start) \cap Before(G, start))
            BY <4>1, FS_Union
          <5> QED BY <3>1, <5>1, <5>2, PartsFinite
        <4> QED BY <3>1, <4>2
      <3>4. Cardinality(G) <= 2 * MaxAttempts - 1
        BY <3>1, <3>2, <3>3, PartsFinite
      <3> QED BY <3>4 DEF G
    <2> QED BY <1>1, <2>1, <2>2 DEF Windows
  <1>3. ASSUME NEW p \in Processes, NEW t \in Tokens, now - last[p][t].at >= WindowSeconds,
               windows[p][t].until <= now
        PROVE  Allowed(windows[p][t], now)
    <2>1. now - windows[p][t].start >= WindowSeconds
      BY <1>1, <1>3 DEF WindowInv, Windows, Attempts
    <2>2. Count(windows[p][t], now) = 1
      BY <2>1 DEF Count, Rolled
    <2>3. ~Blocked(windows[p][t], now)
      BY <1>1, <1>3 DEF Blocked, Windows
    <2> QED BY <2>2, <2>3 DEF Allowed
  <1>4. RetryAfterIsExact
    <2> SUFFICES ASSUME BlockSeconds >= WindowSeconds, NEW p \in Processes, NEW t \in Tokens,
                        ~last[p][t].allowed
                 PROVE  Allowed(windows[p][t], now) <=> now - last[p][t].at >= BlockSeconds
      BY DEF RetryAfterIsExact, RetryAfter
    <2>1. windows[p][t].until = last[p][t].at + BlockSeconds
      BY <1>1 DEF WindowInv
    <2>2. CASE now - last[p][t].at >= BlockSeconds
      BY <1>1, <1>3, <2>1, <2>2 DEF Attempts
    <2>3. CASE ~(now - last[p][t].at >= BlockSeconds)
      BY <1>1, <2>1, <2>3 DEF Allowed, Blocked, Attempts
    <2> QED BY <2>2, <2>3
  <1>5. QuietIsAllowed
    <2> SUFFICES ASSUME NEW p \in Processes, NEW t \in Tokens, now - last[p][t].at >= WindowSeconds,
                        now - last[p][t].at >= BlockSeconds
                 PROVE  Allowed(windows[p][t], now)
      BY DEF QuietIsAllowed
    <2>1. windows[p][t].until <= now
      BY <1>1 DEF WindowInv, Windows, Attempts
    <2> QED BY <1>3, <2>1
  <1> QED BY <1>2, <1>4, <1>5 DEF LimitIsExact

-----------------------------------------------------------------------------
(* The Cookie header. *)
LEMMA Least ==
  ASSUME NEW B, B \subseteq Nat, B # {}
  PROVE  \E m \in B : \A k \in B : m <= k
  <1> DEFINE R == OpToRel(<, Nat)
  <1>1. IsWellFoundedOn(R, Nat)
    BY NatLessThanWellFounded
  <1>2. PICK m \in B : \A k \in B : ~ (<<k, m>> \in R)
    <2> HIDE DEF R
    <2> QED BY <1>1, WFMin
  <1>3. \A k \in B : <<k, m>> \in R <=> k < m
    BY DEF OpToRel
  <1> HIDE DEF R
  <1>4. \A k \in B : ~(k < m)
    BY <1>2, <1>3
  <1>5. \A k \in B : m <= k
    BY <1>4
  <1> QED
    BY <1>5

(* Among the segments with a name that occurs there is a last one. *)
LEMMA LastSegment ==
  ASSUME NEW header \in Seq(Segments), NEW name, Named(header, name) # {}
  PROVE  \E i \in Named(header, name) : \A j \in Named(header, name) : j <= i
  <1> DEFINE I == Named(header, name)
             B == {k \in Nat : \A j \in I : j <= k}
  <1>1. I \subseteq 1 .. Len(header) /\ Len(header) \in Nat
    BY DEF Named
  <1>2. Len(header) \in B
    BY <1>1
  <1>3. PICK m \in B : \A k \in B : m <= k
    <2> HIDE DEF B
    <2>1. B # {}
      BY <1>2
    <2>2. B \subseteq Nat
      BY DEF B
    <2> QED BY <2>1, <2>2, Least
  <1>4. m \in I
    <2> SUFFICES ASSUME m \notin I PROVE FALSE
      OBVIOUS
    <2>1. \A j \in I : j <= m - 1
      BY <1>1
    <2>2. m >= 1
      BY <1>1
    <2>3. m - 1 \in B
      BY <2>1, <2>2
    <2> HIDE DEF B
    <2>4. m <= m - 1 /\ m \in Nat
      BY <1>3, <2>3 DEF B
    <2> QED BY <2>4
  <1>5. \A j \in I : j <= m
    OBVIOUS
  <1> QED BY <1>4, <1>5

(* What a request's cookies say is the id of a session, known or not, or none. *)
LEMMA SessionOrNone ==
  ASSUME NEW header \in CookieHeaders
  PROVE  session_id[header] \in Sessions \cup {None}
  <1> DEFINE cookies == parse_cookie_header(header)
             I == Named(header, COOKIE_NAME)
             i == CHOOSE k \in I : \A j \in I : j <= k
  <1>1. header \in Seq(Segments)
    BY PortalAssumption
  <1>2. session_id[header] = IF COOKIE_NAME \in DOMAIN cookies THEN cookies[COOKIE_NAME] ELSE None
    BY DEF session_id
  <1>3. ASSUME COOKIE_NAME \in DOMAIN cookies PROVE cookies[COOKIE_NAME] \in Sessions \cup {None}
    <2>1. \E k \in DOMAIN header : header[k].name = COOKIE_NAME
      BY <1>3 DEF parse_cookie_header
    <2>2. I # {}
      BY <2>1 DEF Named
    <2>3. i \in I
      <3> HIDE DEF I
      <3>1. \E k \in I : \A j \in I : j <= k
        BY <1>1, <2>2, LastSegment DEF I
      <3> QED BY <3>1
    <2>4. cookies[COOKIE_NAME] = header[i].value
      BY <1>3 DEF parse_cookie_header
    <2> HIDE DEF i, cookies
    <2>5. i \in DOMAIN header
      BY <2>3 DEF Named
    <2>6. header[i] \in Segments
      BY <1>1, <2>5
    <2> QED BY <2>4, <2>6 DEF Segments
  <1> HIDE DEF cookies
  <1> QED BY <1>2, <1>3

-----------------------------------------------------------------------------
LEMMA InitInv == Init => IInv
  <1> SUFFICES ASSUME Init PROVE IInv
    OBVIOUS
  <1> USE DEF Init
  <1>1. NoWindow \in Windows /\ NoAttempt \in Attempts
    BY LimiterAssumption DEF NoWindow, NoAttempt, Windows, Attempts
  <1>2. /\ windows \in [Processes -> [Tokens -> Windows]]
        /\ granted \in [Processes -> [Tokens -> SUBSET Grants]]
        /\ last \in [Processes -> [Tokens -> Attempts]]
        /\ now = 1
    BY <1>1 DEF LimiterInit
  <1>3. LimiterTypeOK
    BY <1>2 DEF LimiterTypeOK, Windows, Grants, Attempts
  <1>4. TypeOK
    BY <1>3 DEF TypeOK, Labels, Routes, Codes
  <1>5. LimiterInv
    BY FreshWindow DEF LimiterInv, LimiterInit
  <1>6. RequestInv
    BY DEF RequestInv, At
  <1>7. LateInv
    <2>1. late = {} /\ IsFiniteSet({})
      BY FS_EmptySet
    <2>2. \A t \in Tokens : ~Dead(t)
      BY DEF Dead, Expired, Known, Credentials
    <2> QED BY <2>1, <2>2 DEF LateInv
  <1> QED BY <1>2, <1>4, <1>5, <1>6, <1>7 DEF IInv

(* The steps that ask a limiter, and the steps of the clock and the tables,   *)
(* which none of them touches: together they keep the limiters' part.         *)
LEMMA LimiterStep ==
  ASSUME TypeOK, LimiterInv, [Next]_vars
  PROVE  LimiterTypeOK' /\ LimiterInv'
  <1>0. LimiterTypeOK
    BY DEF TypeOK
  <1>1. ASSUME now' \in {now, now + 1}, UNCHANGED limiter PROVE LimiterTypeOK' /\ LimiterInv'
    BY <1>0, <1>1, TickKeeps
  <1>2. ASSUME NEW p \in Processes, NEW t \in Tokens, ReceiveBranded(p, t)
        PROVE  LimiterTypeOK' /\ LimiterInv'
    BY <1>0, <1>2, CheckKeeps DEF ReceiveBranded, Receive
  <1>3. ASSUME NEW p \in Processes, Restart(p) PROVE LimiterTypeOK' /\ LimiterInv'
    BY <1>0, <1>3, ForgetKeeps DEF Restart
  <1>4. CASE Tick
    BY <1>1, <1>4 DEF Tick
  <1>5. ASSUME NEW t \in Tokens, NEW expiry \in now .. now + TokenTTL, IssueToken(t, expiry)
        PROVE  LimiterTypeOK' /\ LimiterInv'
    BY <1>1, <1>5 DEF IssueToken
  <1>6. ASSUME NEW s \in Sessions, CreateSession(s) PROVE LimiterTypeOK' /\ LimiterInv'
    BY <1>1, <1>6 DEF CreateSession
  <1>7. ASSUME NEW x \in Credentials, Revoke(x) PROVE LimiterTypeOK' /\ LimiterInv'
    BY <1>1, <1>7 DEF Revoke
  <1>8. ASSUME NEW p \in Processes, NEW t \in Tokens, ReceiveSidecar(p, t)
        PROVE  LimiterTypeOK' /\ LimiterInv'
    BY <1>1, <1>8 DEF ReceiveSidecar, Receive
  <1>9. ASSUME NEW p \in Processes, NEW header \in CookieHeaders,
               ReceivePrivate(p, header) \/ ReceiveBare(p, header)
        PROVE  LimiterTypeOK' /\ LimiterInv'
    BY <1>1, <1>9 DEF ReceivePrivate, ReceiveBare, Receive
  <1>10. ASSUME NEW p \in Processes, Verify(p) \/ Touch(p) \/ CreateFromToken(p) \/ Fail(p)
         PROVE  LimiterTypeOK' /\ LimiterInv'
    BY <1>1, <1>10 DEF Verify, Touch, CreateFromToken, Fail
  <1>11. CASE UNCHANGED vars
    BY <1>1, <1>11 DEF vars
  <1> QED
    BY <1>2, <1>3, <1>4, <1>5, <1>6, <1>7, <1>8, <1>9, <1>10, <1>11 DEF Next

TablesOK ==
    /\ expires \in [Credentials -> Nat]
    /\ revoked \in SUBSET Credentials
    /\ source \in [Sessions -> Tokens \cup {None}]
    /\ late \in SUBSET Sessions

RequestOK ==
    /\ pc \in [Processes -> Labels]
    /\ route \in [Processes -> Routes]
    /\ presented \in [Processes -> Credentials \cup {None}]
    /\ stale \in [Processes -> BOOLEAN]
    /\ answer \in [Processes -> Codes]

LEMMA ReceiveTyped ==
  ASSUME TablesOK, RequestOK, NEW p \in Processes, NEW r \in Routes, NEW x \in Credentials,
         Receive(p, r, x)
  PROVE  /\ TablesOK' /\ now' = now
         /\ route' \in [Processes -> Routes]
         /\ presented' \in [Processes -> Credentials \cup {None}]
         /\ stale' \in [Processes -> BOOLEAN]
  <1>1. TablesOK' /\ now' = now
    BY DEF Receive, TablesOK, tables
  <1>2. Dead(x) \in BOOLEAN
    BY DEF Dead
  <1>3. stale' \in [Processes -> BOOLEAN]
    BY <1>2 DEF Receive, RequestOK
  <1>4. route' \in [Processes -> Routes] /\ presented' \in [Processes -> Credentials \cup {None}]
    BY DEF Receive, RequestOK
  <1> QED BY <1>1, <1>3, <1>4

LEMMA LabelTyped ==
  ASSUME RequestOK, NEW p \in Processes, NEW label \in Labels, Goto(p, label)
  PROVE  pc' \in [Processes -> Labels]
  BY DEF RequestOK, Goto

LEMMA ReplyTyped ==
  ASSUME RequestOK, NEW p \in Processes, NEW code \in Codes, Reply(p, code)
  PROVE  pc' \in [Processes -> Labels] /\ answer' \in [Processes -> Codes]
  BY DEF RequestOK, Reply, Goto, Labels

LEMMA TypeStep ==
  ASSUME TypeOK, now >= 1, LimiterInv, RequestInv, [Next]_vars
  PROVE  TypeOK' /\ now' >= 1
  <1>0. LimiterTypeOK'
    BY LimiterStep
  <1>1. now \in Nat
    BY DEF TypeOK, LimiterTypeOK
  <1>2. TablesOK /\ RequestOK
    BY DEF TypeOK, TablesOK, RequestOK
  <1>3. ASSUME TablesOK', RequestOK', now' \in {now, now + 1} PROVE TypeOK' /\ now' >= 1
    BY <1>0, <1>1, <1>3 DEF TypeOK, TablesOK, RequestOK
  <1> USE <1>1, <1>2, PortalAssumption DEF TablesOK, RequestOK, Goto, Reply, Labels, Routes, Codes
  <1>4. CASE Tick
    BY <1>3, <1>4 DEF Tick, tables, request
  <1>5. ASSUME NEW t \in Tokens, NEW expiry \in now .. now + TokenTTL, IssueToken(t, expiry)
        PROVE  TypeOK' /\ now' >= 1
    <2>1. expiry \in Nat /\ t \in Credentials
      BY DEF Credentials
    <2> QED BY <1>3, <1>5, <2>1 DEF IssueToken, request
  <1>6. ASSUME NEW s \in Sessions, CreateSession(s) PROVE TypeOK' /\ now' >= 1
    <2>1. now + SessionTTL \in Nat /\ s \in Credentials
      BY DEF Credentials
    <2> QED BY <1>3, <1>6, <2>1 DEF CreateSession, request
  <1>7. ASSUME NEW x \in Credentials, Revoke(x) PROVE TypeOK' /\ now' >= 1
    BY <1>3, <1>7 DEF Revoke, request
  <1>8. ASSUME NEW p \in Processes, NEW t \in Tokens, ReceiveBranded(p, t) \/ ReceiveSidecar(p, t)
        PROVE  TypeOK' /\ now' >= 1
    <2>1. t \in Credentials
      BY DEF Credentials
    <2>2. Receive(p, "branded", t) \/ Receive(p, "sidecar", t)
      BY <1>8 DEF ReceiveBranded, ReceiveSidecar
    <2>3. /\ TablesOK' /\ now' = now
          /\ route' \in [Processes -> Routes]
          /\ presented' \in [Processes -> Credentials \cup {None}]
          /\ stale' \in [Processes -> BOOLEAN]
      <3> HIDE DEF TablesOK, RequestOK
      <3> QED BY <2>1, <2>2, ReceiveTyped
    <2>4. \/ Goto(p, "verify") /\ answer' = [answer EXCEPT ![p] = 0]
          \/ Reply(p, 429)
      BY <1>8 DEF ReceiveBranded, ReceiveSidecar
    <2>5. pc' \in [Processes -> Labels] /\ answer' \in [Processes -> Codes]
      BY <2>4
    <2> QED BY <1>3, <2>3, <2>5
  <1>9. ASSUME NEW p \in Processes, NEW header \in CookieHeaders, ReceivePrivate(p, header)
        PROVE  TypeOK' /\ now' >= 1
    <2>0. PICK s \in Sessions : s = session_id[header]
      BY <1>9, SessionOrNone DEF ReceivePrivate
    <2>1. s \in Credentials /\ Receive(p, "private", s)
      BY <1>9, <2>0 DEF Credentials, ReceivePrivate
    <2>2. /\ TablesOK' /\ now' = now
          /\ route' \in [Processes -> Routes]
          /\ presented' \in [Processes -> Credentials \cup {None}]
          /\ stale' \in [Processes -> BOOLEAN]
      <3> HIDE DEF TablesOK, RequestOK
      <3> QED BY <2>1, ReceiveTyped
    <2>3. Goto(p, "verify") /\ answer' = [answer EXCEPT ![p] = 0]
      BY <1>9 DEF ReceivePrivate
    <2>4. pc' \in [Processes -> Labels] /\ answer' \in [Processes -> Codes]
      BY <2>3
    <2> QED BY <1>3, <2>2, <2>4
  <1>10. ASSUME NEW p \in Processes, NEW header \in CookieHeaders, ReceiveBare(p, header)
         PROVE  TypeOK' /\ now' >= 1
    BY <1>3, <1>10 DEF ReceiveBare, NoContext, tables
  <1>11. ASSUME NEW p \in Processes, Verify(p) \/ Touch(p) \/ Fail(p) PROVE TypeOK' /\ now' >= 1
    <2>1. TablesOK' /\ now' = now /\ UNCHANGED <<route, presented, stale>>
      BY <1>11 DEF Verify, Touch, Fail, tables
    <2>2. Refusal(p) \in Codes
      BY DEF Refusal, NoContext
    <2>3. pc' \in [Processes -> Labels] /\ answer' \in [Processes -> Codes]
      <3>1. CASE Verify(p)
        <4>1. (Goto(p, "touch") /\ UNCHANGED answer) \/ Reply(p, Refusal(p))
          BY <3>1 DEF Verify
        <4> HIDE DEF Goto, Reply
        <4> QED BY <2>2, <4>1, LabelTyped, ReplyTyped
      <3>2. CASE Touch(p)
        <4>1. (Goto(p, "create") /\ UNCHANGED answer) \/ Reply(p, 200)
          BY <3>2 DEF Touch
        <4> HIDE DEF Goto, Reply
        <4> QED BY <4>1, LabelTyped, ReplyTyped
      <3>3. CASE Fail(p)
        BY <3>3 DEF Fail
      <3> QED BY <1>11, <3>1, <3>2, <3>3
    <2> QED BY <1>3, <2>1, <2>3
  <1>12. ASSUME NEW p \in Processes, CreateFromToken(p) PROVE TypeOK' /\ now' >= 1
    <2>1. PICK s \in Sessions :
            /\ expires' = [expires EXCEPT ![s] = now + SessionTTL]
            /\ source' = [source EXCEPT ![s] = presented[p]]
            /\ late' = IF Dead(presented[p]) THEN late \cup {s} ELSE late
      BY <1>12 DEF CreateFromToken
    <2>2. presented[p] \in Tokens /\ now + SessionTTL \in Nat /\ s \in Credentials
      BY <1>12 DEF CreateFromToken, RequestInv, Credentials
    <2>3. TablesOK'
      <3>1. expires' \in [Credentials -> Nat]
        BY <2>1, <2>2
      <3>2. source' \in [Sessions -> Tokens \cup {None}]
        BY <2>1, <2>2
      <3>3. late' \in SUBSET Sessions /\ revoked' = revoked
        BY <1>12, <2>1 DEF CreateFromToken
      <3> QED BY <3>1, <3>2, <3>3
    <2>4. RequestOK' /\ now' = now
      BY <1>12 DEF CreateFromToken
    <2> QED BY <1>3, <2>3, <2>4
  <1>13. ASSUME NEW p \in Processes, Restart(p) PROVE TypeOK' /\ now' >= 1
    BY <1>3, <1>13 DEF Restart, tables
  <1>14. CASE UNCHANGED vars
    BY <1>3, <1>14 DEF vars, tables, request
  <1> QED
    BY <1>4, <1>5, <1>6, <1>7, <1>8, <1>9, <1>10, <1>11, <1>12, <1>13, <1>14 DEF Next

-----------------------------------------------------------------------------
(* Rows only come, and die: nothing a request does to its row revives it.     *)
LEMMA RowsStay ==
  ASSUME TypeOK, TypeOK', [Next]_vars
  PROVE  /\ now' >= now
         /\ \A x \in Credentials :
              /\ Known(x) => Known(x)' /\ expires'[x] = expires[x]
              /\ Dead(x) => Dead(x)'
  <1>1. now \in Nat /\ now' \in Nat
    BY DEF TypeOK, LimiterTypeOK
  <1>2. ASSUME now' >= now, revoked \subseteq revoked',
               \A x \in Credentials : Known(x) => expires'[x] = expires[x]
        PROVE  /\ now' >= now
               /\ \A x \in Credentials :
                    /\ Known(x) => Known(x)' /\ expires'[x] = expires[x]
                    /\ Dead(x) => Dead(x)'
    BY <1>1, <1>2 DEF Known, Dead, Expired, TypeOK
  <1> USE <1>1 DEF TypeOK, Known, tables
  <1>3. CASE Tick
    BY <1>2, <1>3 DEF Tick
  <1>4. ASSUME NEW t \in Tokens, NEW expiry \in now .. now + TokenTTL, IssueToken(t, expiry)
        PROVE  now' >= now /\ revoked \subseteq revoked'
               /\ \A x \in Credentials : Known(x) => expires'[x] = expires[x]
    BY <1>4 DEF IssueToken
  <1>5. ASSUME NEW s \in Sessions, CreateSession(s)
        PROVE  now' >= now /\ revoked \subseteq revoked'
               /\ \A x \in Credentials : Known(x) => expires'[x] = expires[x]
    BY <1>5 DEF CreateSession
  <1>6. ASSUME NEW c \in Credentials, Revoke(c)
        PROVE  now' >= now /\ revoked \subseteq revoked'
               /\ \A x \in Credentials : Known(x) => expires'[x] = expires[x]
    BY <1>6 DEF Revoke
  <1>7. ASSUME NEW p \in Processes, CreateFromToken(p)
        PROVE  now' >= now /\ revoked \subseteq revoked'
               /\ \A x \in Credentials : Known(x) => expires'[x] = expires[x]
    BY <1>7 DEF CreateFromToken
  <1>8. ASSUME UNCHANGED <<now, tables>>
        PROVE  now' >= now /\ revoked \subseteq revoked'
               /\ \A x \in Credentials : Known(x) => expires'[x] = expires[x]
    BY <1>8
  <1>9. ASSUME NEW p \in Processes,
               \/ \E t \in Tokens : ReceiveBranded(p, t) \/ ReceiveSidecar(p, t)
               \/ \E header \in CookieHeaders : ReceivePrivate(p, header) \/ ReceiveBare(p, header)
               \/ Verify(p) \/ Touch(p) \/ Fail(p) \/ Restart(p)
        PROVE  UNCHANGED <<now, tables>>
    BY <1>9 DEF ReceiveBranded, ReceiveSidecar, ReceivePrivate, ReceiveBare, Receive, Verify, Touch,
       Fail, Restart
  <1> QED
    BY <1>2, <1>3, <1>4, <1>5, <1>6, <1>7, <1>8, <1>9 DEF Next, vars

(* Whose step it is. *)
RequestStep(p) ==
    \/ \E t \in Tokens : ReceiveBranded(p, t) \/ ReceiveSidecar(p, t)
    \/ \E header \in CookieHeaders : ReceivePrivate(p, header) \/ ReceiveBare(p, header)
    \/ Verify(p) \/ Touch(p) \/ CreateFromToken(p) \/ Fail(p) \/ Restart(p)

SameRequest(q) ==
    /\ pc'[q] = pc[q] /\ route'[q] = route[q] /\ presented'[q] = presented[q]
    /\ stale'[q] = stale[q] /\ answer'[q] = answer[q]

LEMMA WhoseStep ==
  ASSUME TypeOK, [Next]_vars
  PROVE  \/ UNCHANGED request
         \/ \E p \in Processes : RequestStep(p) /\ \A q \in Processes \ {p} : SameRequest(q)
  <1>1. ASSUME NEW p \in Processes, RequestStep(p), NEW q \in Processes \ {p} PROVE SameRequest(q)
    <2> USE DEF TypeOK, SameRequest, Goto, Reply
    <2>1. ASSUME NEW t \in Tokens, ReceiveBranded(p, t) PROVE SameRequest(q)
      <3>1. Receive(p, "branded", t)
        BY <2>1 DEF ReceiveBranded
      <3>2. \/ Goto(p, "verify") /\ answer' = [answer EXCEPT ![p] = 0]
            \/ Reply(p, 429)
        BY <2>1 DEF ReceiveBranded
      <3> QED BY <3>1, <3>2 DEF Receive
    <2>2. ASSUME NEW t \in Tokens, ReceiveSidecar(p, t) PROVE SameRequest(q)
      BY <2>2 DEF ReceiveSidecar, Receive
    <2>3. ASSUME NEW header \in CookieHeaders, ReceivePrivate(p, header) PROVE SameRequest(q)
      BY <2>3 DEF ReceivePrivate, Receive
    <2>4. ASSUME NEW header \in CookieHeaders, ReceiveBare(p, header) PROVE SameRequest(q)
      BY <2>4 DEF ReceiveBare
    <2>5. CASE Verify(p)
      BY <2>5 DEF Verify
    <2>6. CASE Touch(p)
      BY <2>6 DEF Touch
    <2>7. CASE CreateFromToken(p)
      BY <2>7 DEF CreateFromToken
    <2>8. CASE Fail(p)
      BY <2>8 DEF Fail
    <2>9. CASE Restart(p)
      BY <2>9 DEF Restart
    <2> QED BY <1>1, <2>1, <2>2, <2>3, <2>4, <2>5, <2>6, <2>7, <2>8, <2>9 DEF RequestStep
  <1>2. UNCHANGED request \/ \E p \in Processes : RequestStep(p)
    BY DEF Next, vars, RequestStep, Tick, IssueToken, CreateSession, Revoke
  <1> QED BY <1>1, <1>2

OneRequest(p) ==
    /\ ~At(p, "idle") => presented[p] \in Credentials
    /\ route[p] = "branded" => presented[p] \in Tokens
    /\ At(p, "create") => route[p] = "branded"
    /\ answer[p] = 200 => ~stale[p]
    /\ At(p, "verify") /\ stale[p] => Dead(presented[p])
    /\ At(p, "touch") \/ At(p, "create") => ~stale[p] /\ Known(presented[p])

LEMMA ReceiveRequest ==
  ASSUME TypeOK, NEW p \in Processes, NEW r \in {"branded", "sidecar", "private"},
         NEW x \in Credentials, r = "branded" => x \in Tokens, Receive(p, r, x),
         \/ Goto(p, "verify") /\ answer' = [answer EXCEPT ![p] = 0]
         \/ Reply(p, 429)
  PROVE  OneRequest(p)'
  <1>1. route'[p] = r /\ presented'[p] = x /\ stale'[p] = Dead(x) /\ UNCHANGED <<now, expires, revoked>>
    BY DEF Receive, TypeOK, tables
  <1>2. pc'[p] \in {"verify", "idle"} /\ answer'[p] \in {0, 429}
    BY DEF Goto, Reply, TypeOK
  <1>3. stale'[p] => Dead(presented[p])'
    BY <1>1 DEF Dead, Expired, Known
  <1>4. presented'[p] \in Credentials /\ (route'[p] = "branded" => presented'[p] \in Tokens)
    BY <1>1
  <1> QED BY <1>2, <1>3, <1>4 DEF OneRequest, At

LEMMA RequestInvStep ==
  ASSUME TypeOK, TypeOK', RequestInv, [Next]_vars
  PROVE  RequestInv'
  <1>0. RequestInv <=> \A p \in Processes : OneRequest(p)
    BY DEF RequestInv, OneRequest
  <1>1. ASSUME NEW q \in Processes, SameRequest(q) PROVE OneRequest(q)'
    <2>1. OneRequest(q)
      BY <1>0
    <2>2. \A x \in Credentials : (Known(x) => Known(x)') /\ (Dead(x) => Dead(x)')
      BY RowsStay
    <2>3. ASSUME NEW x \in Credentials, presented[q] = x PROVE OneRequest(q)'
      BY <1>1, <2>1, <2>2, <2>3 DEF OneRequest, SameRequest, At, Known, Dead, Expired
    <2>4. CASE presented[q] \notin Credentials
      BY <1>1, <2>1, <2>4 DEF OneRequest, SameRequest, At, TypeOK, Labels
    <2> QED BY <2>3, <2>4
  <1>2. ASSUME NEW p \in Processes, RequestStep(p) PROVE OneRequest(p)'
    <2>0. OneRequest(p)
      BY <1>0
    <2>1. ASSUME NEW t \in Tokens, ReceiveBranded(p, t) \/ ReceiveSidecar(p, t) PROVE OneRequest(p)'
      <3>1. Receive(p, "branded", t) \/ Receive(p, "sidecar", t)
        BY <2>1 DEF ReceiveBranded, ReceiveSidecar
      <3>2. \/ Goto(p, "verify") /\ answer' = [answer EXCEPT ![p] = 0]
            \/ Reply(p, 429)
        BY <2>1 DEF ReceiveBranded, ReceiveSidecar
      <3> QED BY <3>1, <3>2, ReceiveRequest DEF Credentials
    <2>2. ASSUME NEW header \in CookieHeaders, ReceivePrivate(p, header) PROVE OneRequest(p)'
      <3>1. PICK s \in Sessions : s = session_id[header]
        BY <2>2, SessionOrNone DEF ReceivePrivate
      <3>2. Receive(p, "private", s) /\ Goto(p, "verify") /\ answer' = [answer EXCEPT ![p] = 0]
        BY <2>2, <3>1 DEF ReceivePrivate
      <3> QED BY <3>2, ReceiveRequest DEF Credentials
    <2>3. ASSUME NEW header \in CookieHeaders, ReceiveBare(p, header) PROVE OneRequest(p)'
      BY <2>3 DEF ReceiveBare, NoContext, Reply, Goto, OneRequest, At, TypeOK
    <2>4. CASE Verify(p)
      <3>1. /\ UNCHANGED <<now, expires, revoked, route, presented, stale>>
            /\ Dead(presented[p])' = Dead(presented[p]) /\ Known(presented[p])' = Known(presented[p])
        BY <2>4 DEF Verify, tables, Dead, Known, Expired
      <3>2. CASE Refusal(p) = 0
        <4>1. Known(presented[p]) /\ ~Dead(presented[p])
          BY <3>2 DEF Refusal, NoContext
        <4>2. pc'[p] = "touch" /\ answer'[p] = answer[p]
          BY <2>4, <3>2 DEF Verify, Goto, TypeOK
        <4> QED BY <2>0, <2>4, <3>1, <4>1, <4>2 DEF OneRequest, At, Verify
      <3>3. CASE Refusal(p) # 0
        <4>1. Refusal(p) # 200
          BY DEF Refusal, NoContext
        <4>2. pc'[p] = "idle" /\ answer'[p] = Refusal(p)
          BY <2>4, <3>3 DEF Verify, Reply, Goto, TypeOK
        <4> QED BY <2>0, <3>1, <4>1, <4>2 DEF OneRequest, At
      <3> QED BY <3>2, <3>3
    <2>5. CASE Touch(p)
      <3>1. UNCHANGED <<now, expires, revoked, route, presented, stale>> /\ At(p, "touch")
        BY <2>5 DEF Touch, tables
      <3>2. \/ route[p] = "branded" /\ pc'[p] = "create" /\ answer'[p] = answer[p]
            \/ pc'[p] = "idle" /\ answer'[p] = 200
        BY <2>5 DEF Touch, Reply, Goto, TypeOK
      <3> QED BY <2>0, <3>1, <3>2 DEF OneRequest, At, Known
    <2>6. CASE CreateFromToken(p)
      <3>1. UNCHANGED <<route, presented, stale>> /\ At(p, "create") /\ pc'[p] = "idle"
        BY <2>6 DEF CreateFromToken, Reply, Goto, TypeOK
      <3> QED BY <2>0, <3>1 DEF OneRequest, At
    <2>7. CASE Fail(p)
      <3>1. UNCHANGED <<route, presented, stale>> /\ pc'[p] = "idle" /\ answer'[p] = 500
        BY <2>7 DEF Fail, Reply, Goto, TypeOK
      <3> QED BY <2>0, <3>1 DEF OneRequest, At
    <2>8. CASE Restart(p)
      <3>1. pc'[p] = "idle" /\ answer'[p] = 0 /\ route'[p] = "none"
        BY <2>8 DEF Restart, Goto, TypeOK
      <3> QED BY <3>1 DEF OneRequest, At
    <2> QED BY <1>2, <2>1, <2>2, <2>3, <2>4, <2>5, <2>6, <2>7, <2>8 DEF RequestStep
  <1>3. ASSUME UNCHANGED request, NEW q \in Processes PROVE SameRequest(q)
    BY <1>3 DEF request, SameRequest
  <1>4. \A q \in Processes : OneRequest(q)'
    BY <1>1, <1>2, <1>3, WhoseStep
  <1> QED BY <1>4 DEF RequestInv, OneRequest

-----------------------------------------------------------------------------
(* Of a token that is dead no request comes newly in hand. *)
LEMMA InHandShrinks ==
  ASSUME TypeOK, [Next]_vars, NEW t \in Tokens, Dead(t)
  PROVE  InHand(t)' \subseteq InHand(t)
  <1> SUFFICES ASSUME NEW q \in Processes, q \in InHand(t)' PROVE q \in InHand(t)
    BY DEF InHand
  <1>1. ~At(q, "idle")' /\ route'[q] = "branded" /\ presented'[q] = t /\ ~stale'[q]
    BY DEF InHand
  <1>2. ASSUME SameRequest(q) PROVE q \in InHand(t)
    BY <1>1, <1>2 DEF SameRequest, InHand, At
  <1>3. ASSUME RequestStep(q) PROVE q \in InHand(t)
    <2>1. ASSUME NEW u \in Credentials, NEW r \in Routes, Receive(q, r, u) PROVE FALSE
      <3>1. presented'[q] = u /\ stale'[q] = Dead(u)
        BY <2>1 DEF Receive, TypeOK
      <3> QED BY <1>1, <3>1
    <2>2. ASSUME NEW u \in Tokens, ReceiveBranded(q, u) \/ ReceiveSidecar(q, u) PROVE FALSE
      BY <2>1, <2>2 DEF ReceiveBranded, ReceiveSidecar, Credentials, Routes
    <2>3. ASSUME NEW header \in CookieHeaders, ReceivePrivate(q, header) PROVE FALSE
      <3>1. route'[q] = "private"
        BY <2>3 DEF ReceivePrivate, Receive, TypeOK
      <3> QED BY <1>1, <3>1
    <2>4. ASSUME NEW header \in CookieHeaders, ReceiveBare(q, header) PROVE FALSE
      BY <1>1, <2>4 DEF ReceiveBare, TypeOK
    <2>5. CASE Restart(q)
      BY <1>1, <2>5 DEF Restart, TypeOK
    <2>6. ASSUME Verify(q) \/ Touch(q) \/ CreateFromToken(q) \/ Fail(q) PROVE q \in InHand(t)
      <3>1. ~At(q, "idle") /\ UNCHANGED <<route, presented, stale>>
        BY <2>6 DEF Verify, Touch, CreateFromToken, Fail, At
      <3> QED BY <1>1, <3>1 DEF InHand
    <2> QED BY <1>3, <2>2, <2>3, <2>4, <2>5, <2>6 DEF RequestStep
  <1>4. ASSUME UNCHANGED request PROVE SameRequest(q)
    BY <1>4 DEF request, SameRequest
  <1> QED BY <1>2, <1>3, <1>4, WhoseStep

LEMMA PartsCounted ==
  ASSUME LateInv, NEW t \in Tokens
  PROVE  /\ IsFiniteSet(LateFrom(t)) /\ Cardinality(LateFrom(t)) \in Nat
         /\ IsFiniteSet(InHand(t)) /\ Cardinality(InHand(t)) \in Nat
         /\ Cardinality(InHand(t)) <= Cardinality(Processes) /\ Cardinality(Processes) \in Nat
  <1>1. LateFrom(t) \subseteq late /\ InHand(t) \subseteq Processes /\ IsFiniteSet(late)
    BY DEF LateFrom, InHand, LateInv
  <1> QED BY <1>1, NoMore, PortalAssumption

LEMMA LateStep ==
  ASSUME TypeOK, TypeOK', now >= 1, RequestInv, LateInv, [Next]_vars
  PROVE  LateInv'
  <1> DEFINE Bounded(t) == Cardinality(LateFrom(t)) + Cardinality(InHand(t)) <= Cardinality(Processes)
  <1>1. ASSUME NEW t \in Tokens, Dead(t)', LateFrom(t)' = LateFrom(t) PROVE Bounded(t)'
    <2>1. CASE Dead(t)
      <3>1. Cardinality(InHand(t)') <= Cardinality(InHand(t)) /\ Cardinality(InHand(t)') \in Nat
        BY <2>1, InHandShrinks, PartsCounted, NoMore
      <3>2. Bounded(t)
        BY <2>1 DEF LateInv
      <3> QED BY <1>1, <3>1, <3>2, PartsCounted
    <2>2. CASE ~Dead(t)
      <3>1. LateFrom(t) = {}
        BY <2>2 DEF LateInv, LateFrom
      <3>2. InHand(t)' \subseteq Processes
        BY DEF InHand
      <3>3. Cardinality(InHand(t)') <= Cardinality(Processes) /\ Cardinality(InHand(t)') \in Nat
        BY <3>2, NoMore, PortalAssumption
      <3>4. Cardinality(LateFrom(t)') = 0
        BY <1>1, <3>1, FS_EmptySet
      <3> QED BY <3>3, <3>4
    <2> QED BY <2>1, <2>2
  <1>2. ASSUME NEW s \in late, source'[s] = source[s] PROVE Known(s)' /\ Dead(source[s])'
    <2>1. s \in Credentials /\ source[s] \in Credentials /\ source[s] \in Tokens
      BY DEF TypeOK, Credentials, LateInv
    <2>2. PICK t \in Tokens : t = source[s]
      BY <2>1
    <2>3. Known(s) /\ Dead(t) /\ t \in Credentials
      BY <2>1, <2>2 DEF LateInv
    <2>4. Known(s)' /\ Dead(t)'
      BY <2>1, <2>3, RowsStay
    <2> QED BY <1>2, <2>2, <2>4 DEF Dead, Expired, Known
  <1>3. ASSUME UNCHANGED <<source, late>> PROVE LateInv'
    <2>1. \A t \in Tokens : LateFrom(t)' = LateFrom(t)
      BY <1>3 DEF LateFrom
    <2>2. \A t \in Tokens : Dead(t)' => Bounded(t)'
      BY <1>1, <2>1
    <2>3. \A s \in late' : Known(s)' /\ source'[s] \in Tokens /\ Dead(source[s])'
      BY <1>2, <1>3 DEF LateInv
    <2> QED BY <1>3, <2>2, <2>3 DEF LateInv
  <1>4. ASSUME NEW p \in Processes, CreateFromToken(p) PROVE LateInv'
    <2>1. PICK s \in Sessions :
            /\ ~Known(s)
            /\ expires' = [expires EXCEPT ![s] = now + SessionTTL]
            /\ source' = [source EXCEPT ![s] = presented[p]]
            /\ late' = IF Dead(presented[p]) THEN late \cup {s} ELSE late
      BY <1>4 DEF CreateFromToken
    <2>2. PICK u \in Tokens : u = presented[p]
      BY <1>4 DEF CreateFromToken, RequestInv
    <2>3. s \notin late /\ s \in Credentials /\ u \in Credentials
      BY <2>1 DEF LateInv, Credentials
    <2>4. source'[s] = u /\ \A r \in late : source'[r] = source[r]
      BY <2>1, <2>2, <2>3 DEF TypeOK
    <2>5. CASE ~Dead(u)
      <3>1. late' = late
        BY <2>1, <2>2, <2>5
      <3>2. \A t \in Tokens : LateFrom(t)' = LateFrom(t)
        BY <2>4, <3>1 DEF LateFrom
      <3>3. \A t \in Tokens : Dead(t)' => Bounded(t)'
        BY <1>1, <3>2
      <3>4. ASSUME NEW r \in late' PROVE Known(r)' /\ source'[r] \in Tokens /\ Dead(source[r])'
        <4>1. r \in late /\ source'[r] = source[r] /\ source[r] \in Tokens
          BY <2>4, <3>1 DEF LateInv
        <4> QED BY <1>2, <4>1 DEF Dead, Expired, Known
      <3> QED BY <3>1, <3>3, <3>4 DEF LateInv
    <2>6. CASE Dead(u)
      <3>1. late' = late \cup {s} /\ IsFiniteSet(late \cup {s})
        BY <2>1, <2>2, <2>6, FS_AddElement DEF LateInv
      <3>2. Known(s)' /\ Dead(u)'
        <4>1. Dead(u)'
          BY <2>3, <2>6, RowsStay
        <4>2. expires'[s] = now + SessionTTL
          BY <2>1, <2>3 DEF TypeOK
        <4>3. now + SessionTTL # 0
          BY PortalAssumption DEF TypeOK, LimiterTypeOK
        <4> QED BY <4>1, <4>2, <4>3 DEF Known
      <3>3. ASSUME NEW r \in late' PROVE Known(r)' /\ source'[r] \in Tokens /\ Dead(source[r])'
        <4>1. CASE r = s
          BY <2>4, <3>2, <4>1 DEF Dead, Expired, Known
        <4>2. CASE r # s
          <5>1. r \in late /\ source'[r] = source[r] /\ source[r] \in Tokens
            BY <2>4, <3>1, <4>2 DEF LateInv
          <5> QED BY <1>2, <5>1 DEF Dead, Expired, Known
        <4> QED BY <4>1, <4>2
      <3>4. ASSUME NEW t \in Tokens, t # u, Dead(t)' PROVE Bounded(t)'
        <4>1. LateFrom(t)' = LateFrom(t)
          BY <2>4, <3>1, <3>4 DEF LateFrom
        <4> QED BY <1>1, <3>4, <4>1
      <3>5. Bounded(u)'
        <4>1. LateFrom(u)' = LateFrom(u) \cup {s} /\ s \notin LateFrom(u)
          BY <2>3, <2>4, <3>1 DEF LateFrom
        <4>2. Cardinality(LateFrom(u)') = Cardinality(LateFrom(u)) + 1
          BY <4>1, FS_AddElement, PartsCounted
        <4>3. p \in InHand(u)
          BY <1>4, <2>2 DEF InHand, CreateFromToken, RequestInv, At
        <4>4. p \notin InHand(u)'
          BY <1>4 DEF InHand, CreateFromToken, Reply, Goto, At, TypeOK
        <4>5. InHand(u)' \subseteq InHand(u) \ {p}
          BY <2>6, <4>4, InHandShrinks
        <4>6. /\ IsFiniteSet(InHand(u) \ {p})
              /\ Cardinality(InHand(u) \ {p}) = Cardinality(InHand(u)) - 1
          BY <4>3, FS_RemoveElement, PartsCounted
        <4>7. /\ Cardinality(InHand(u)') <= Cardinality(InHand(u) \ {p})
              /\ Cardinality(InHand(u)') \in Nat
          BY <4>5, <4>6, NoMore
        <4>8. Bounded(u)
          BY <2>6 DEF LateInv
        <4> QED BY <4>2, <4>6, <4>7, <4>8, PartsCounted
      <3> QED BY <3>1, <3>3, <3>4, <3>5 DEF LateInv
    <2> QED BY <2>2, <2>5, <2>6
  <1>5. UNCHANGED <<source, late>> \/ \E p \in Processes : CreateFromToken(p)
    BY DEF Next, vars, tables, Tick, IssueToken, CreateSession, Revoke, ReceiveBranded, ReceiveSidecar,
       ReceivePrivate, ReceiveBare, Receive, Verify, Touch, Fail, Restart
  <1> QED BY <1>3, <1>4, <1>5

-----------------------------------------------------------------------------
(* The inductive invariant holds, whatever the requests, the clock and the    *)
(* operators who issue and revoke do between a request's three transactions.  *)
THEOREM Invariance == Spec => []IInv
  <1>1. Init => IInv
    BY InitInv
  <1>2. IInv /\ [Next]_vars => IInv'
    <2> SUFFICES ASSUME IInv, [Next]_vars PROVE IInv'
      OBVIOUS
    <2>1. TypeOK' /\ now' >= 1
      BY TypeStep DEF IInv
    <2>2. LimiterInv'
      BY LimiterStep DEF IInv
    <2>3. RequestInv' /\ LateInv'
      BY <2>1, RequestInvStep, LateStep DEF IInv
    <2> QED BY <2>1, <2>2, <2>3 DEF IInv
  <1> QED BY <1>1, <1>2, PTL DEF Spec

(* Every variable keeps its type: above all, every request ends with one of   *)
(* the status codes the handlers know.                                        *)
THEOREM TypeCorrect == Spec => []TypeOK
  <1>1. IInv => TypeOK
    BY DEF IInv
  <1> QED BY <1>1, Invariance, PTL

(* RateLimiter.check: no stretch of WindowSeconds holds 2 * MaxAttempts       *)
(* grants, Retry-After is exact, and nobody is locked out for good.           *)
THEOREM LimitExact == Spec => []LimitIsExact
  <1>1. IInv => LimitIsExact
    BY LimitFollows DEF IInv, TypeOK
  <1> QED BY <1>1, Invariance, PTL

(* A revocation or an expiry before a request is honoured by it; one that     *)
(* falls into the request gives each process one session from the token, and  *)
(* no more.                                                                   *)
THEOREM DeathHonoured == Spec => []DeathIsHonoured
  <1>1. IInv => DeathIsHonoured
    <2> SUFFICES ASSUME IInv PROVE DeathIsHonoured
      OBVIOUS
    <2> USE DEF IInv
    <2>1. \A p \in Processes : answer[p] = 200 => ~stale[p]
      BY DEF RequestInv
    <2>2. ASSUME NEW t \in Tokens PROVE Cardinality(LateFrom(t)) <= Cardinality(Processes)
      <3>1. CASE Dead(t)
        BY <3>1, PartsCounted DEF LateInv
      <3>2. CASE ~Dead(t)
        <4>1. LateFrom(t) = {}
          BY <3>2 DEF LateInv, LateFrom
        <4> QED BY <4>1, FS_EmptySet, PartsCounted
      <3> QED BY <3>1, <3>2
    <2> QED BY <2>1, <2>2 DEF DeathIsHonoured, LateFrom
  <1> QED BY <1>1, Invariance, PTL

(* Nothing revives what was revoked or has run out.                           *)
THEOREM DeathFinal == Spec => DeadStaysDead
  <1>1. IInv /\ IInv' /\ [Next]_vars => (\A x \in Credentials : Dead(x) => Dead(x)')
    BY RowsStay DEF IInv
  <1> QED BY <1>1, Invariance, PTL DEF Spec, DeadStaysDead
=============================================================================
