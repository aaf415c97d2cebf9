CONSTANTS
    o1 = o1  o2 = o2  s1 = s1  s2 = s2  u1 = u1  c1 = c1  c2 = c2  c3 = c3
    None = None
    Orders = {o1}
    SubIds = {s1, s2}
    Customers = {u1}
    CustomerOf <- OneCustomer
    Calls = {c1, c2}
    Ops = {"approve", "provision", "flow", "intent_approve", "intent_provision"}
    Prices = {1, 2}
SPECIFICATION FairSpec
CHECK_DEADLOCK FALSE
PROPERTIES ClaimsSettle KeepsPromise
