SPECIFICATION FairSpec
CONSTANTS
    Panels = {p1, p2}
    NoOp = NoOp
    MaxOps = 2
    MaxFaults = 2
INVARIANTS
    ShownIsTrue
PROPERTIES
    PanelFinishes
CHECK_DEADLOCK FALSE
