CONSTANTS
    w1 = w1  c1 = c1  c2 = c2  s1 = s1
    Messages = {1, 2}
    Workers = {w1}
    MaxAttempts = 2
    Limit = 1
    Retries = 0
    Transports = {"urllib"}
    MaxFaults = 1
    Subscriptions = {s1}
    Calls = {c1, c2}
    Outputs <- SomeOutputs
SPECIFICATION DeliverySpec
CHECK_DEADLOCK FALSE
INVARIANTS DeliveryTypeOK  RepeatsHaveCause
PROPERTIES EveryDeliverySettles
