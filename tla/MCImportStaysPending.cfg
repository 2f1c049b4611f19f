SPECIFICATION Spec
CONSTANTS
    Inputs = {b1, b2}
    Appliers = {a1, a2}
    Clis = {c1}
    NoOne = NoOne
    NoInput = NoInput
    MaxRequests = 2
    Faults <- NoFaults
PROPERTIES
    ImportStaysPending
CHECK_DEADLOCK FALSE
