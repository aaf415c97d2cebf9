CONSTANTS
    c1 = c1  c2 = c2  c3 = c3  u1 = u1  u2 = u2  u3 = u3  u4 = u4
    None = None
    Calls = {c1, c2, c3}
    Users = {u1, u2, u3, u4}
    Existing = {u1}
    Retries = 1
    Injected = {c3}
    MaxFaults = 1
SPECIFICATION Spec
CHECK_DEADLOCK FALSE
INVARIANTS UsersAreExplained UndisputedIsAsSaid
PROPERTIES EveryCallEnds
