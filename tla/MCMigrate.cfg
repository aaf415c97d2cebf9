CONSTANTS
    p1 = p1  p2 = p2  p3 = p3
    Processes = {p1, p2, p3}
    discover <- Directory
SPECIFICATION Spec
SYMMETRY Symmetry
CHECK_DEADLOCK FALSE
INVARIANTS RegisteredMeansApplied OkMeansUpToDate SomebodyFinishes
