CONSTANTS
    p1 = p1  t1 = t1  s1 = s1  s2 = s2
    None = None
    Processes = {p1}
    Tokens = {t1}
    Sessions = {s1, s2}
    TokenTTL = 2
    SessionTTL = 2
    MaxAttempts = 2
    WindowSeconds = 2
    BlockSeconds = 2
    MaxTime = 5
    CookieHeaders <- Headers
SPECIFICATION Spec
SYMMETRY Symmetry
CHECK_DEADLOCK FALSE
INVARIANTS LimitIsExact DeathIsHonoured
PROPERTIES DeadStaysDead
