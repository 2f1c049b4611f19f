SPECIFICATION FairSpec
CONSTANTS
    Roots = {r1, r2}
    NoRoot = NoRoot
    Members = {m1, m2}
    MaxGroups = 3
    Faults <- AllFaults
INVARIANTS
    OneLiveGroup
    RulesFollowGroup
PROPERTIES
    ReportsOnlyLosses
    KeepsPromise
    LossNoticed
    ApplyReturns
CHECK_DEADLOCK FALSE
