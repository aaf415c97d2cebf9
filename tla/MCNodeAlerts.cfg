CONSTANTS
    w1 = w1  w2 = w2
    Up = Up  Down = Down  Unknown = Unknown
    Nodes = {1, 2}
    Reachability = {"tcp_443"}
    Management = {"ssh_22"}
    Resources = {"cpu"}
    Percents = {80, 95}
    Warn = 75
    Critical = 90
    Monitors = {w1, w2}
    MaxDuplicates = 5
    MaxChanges = 2
SPECIFICATION FairSpec
CHECK_DEADLOCK FALSE
INVARIANTS TypeOK OneOpenAlertUnraced
PROPERTIES EvaluationIsExact HealthCatchesUp
