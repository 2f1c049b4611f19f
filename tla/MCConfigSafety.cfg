SPECIFICATION Spec
CONSTANTS
    Inputs = {b1, b2}
    Appliers = {a1, a2}
    Clis = {c1}
    NoOne = NoOne
    NoInput = NoInput
    MaxRequests = 3
    Faults <- AllFaults
SYMMETRY Symmetry
INVARIANTS
    OneActiveRevision
    CandidateSurvives
    RunningIsActive
    TreesKept
PROPERTIES
    ChangedIsInForce
    FailedApplyUndone
