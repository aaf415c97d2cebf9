CONSTANTS
    o1 = o1  o2 = o2  s1 = s1  s2 = s2  u1 = u1  c1 = c1  c2 = c2  c3 = c3
    None = None
    Orders = {o1, o2}
    SubIds = {s1, s2}
    Customers = {u1}
    CustomerOf <- OneCustomer
    Calls = {c1, c2, c3}
    Ops = {"approve", "provision", "flow", "intent_approve"}
    Prices = {1}
SPECIFICATION Spec
SYMMETRY Symmetry
CHECK_DEADLOCK FALSE
INVARIANTS TypeOK OneSubscriptionPerOrder OneDeliveryPerSubscription AnswersAgree CompletedMeansDone 
