CONSTANTS
    w1 = w1  w2 = w2
    Messages = {1, 2}
    Workers = {w1, w2}
    MaxAttempts = 2
    Limit = 2
    Retries = 1
    Transports = {"dry_run", "opener"}
    MaxFaults = 1
SPECIFICATION Spec
SYMMETRY Symmetry
CHECK_DEADLOCK FALSE
INVARIANTS  RetryBudget
 
