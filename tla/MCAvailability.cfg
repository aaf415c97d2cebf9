CONSTANTS
    Plans = {"BASIC_1M", "CORE_1M"}
    Nodes = {1, 2, 3}
    RegionOf <- TwoRegions
    Topologies <- SmallTopologies
    AdminStatuses = {"live", "retired"}
    Written = {{}, {"WARN"}, {"DOWN"}}
    Fragile = {"FAST1"}
    Preferred = {3}
    MaxEdits = 2
    PublicPlans = {"BASIC_1M", "CORE_1M"}
    PlanOrder <- TwoPlans
SPECIFICATION PagesSpec
CHECK_DEADLOCK FALSE
INVARIANTS PagesTypeOK QuietAnswersAreExact OfferedWasUsable   FailedPagesHaveCause
