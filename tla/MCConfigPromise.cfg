SPECIFICATION FairSpec
CONSTANTS
    Inputs = {b1, b2}
    Appliers = {a1, a2}
    Clis = {c1}
    NoOne = NoOne
    NoInput = NoInput
    MaxRequests = 3
    Faults <- RuntimeFaults
PROPERTIES
    ApplyIsAtomic
    CallsReturn
    RuntimeRecovers
CHECK_DEADLOCK FALSE
