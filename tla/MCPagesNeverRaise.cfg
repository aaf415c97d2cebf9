CONSTANTS
    Plans = {"BASIC_1M", "CORE_1M"}
    Nodes = {1, 2, 3}
    RegionOf <- TwoRegions
    Topologies <- SmallTopologies
    AdminStatuses = {"live"}
    Written = {{}}
    Fragile = {}
    Preferred = {3}
    MaxEdits = 1
    PublicPlans = {"BASIC_1M", "CORE_1M"}
    PlanOrder <- TwoPlans
SPECIFICATION PagesSpec
CHECK_DEADLOCK FALSE
INVARIANTS PagesNeverRaise
