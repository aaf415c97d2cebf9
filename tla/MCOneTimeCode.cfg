CONSTANTS
    a1 = a1  a2 = a2  a3 = a3  u1 = u1  u2 = u2  u3 = u3  k1 = k1  k2 = k2
    c1 = c1  c2 = c2  c3 = c3  c4 = c4
    None = None
    Accounts = {a1, a2, a3}
    Customers = {u1}
    Codes = {k1}
    Calls = {c1, c2, c3}
SPECIFICATION Spec
CHECK_DEADLOCK FALSE
INVARIANTS OneTimeCode
