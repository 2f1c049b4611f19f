SPECIFICATION FairSpec
CONSTANTS
    Versions = {1, 2, 3}
    First = 1
    Broken = {2}
    NoVersion = NoVersion
    Torn = Torn
    MaxUpdates = 3
    MaxFaults = 3
INVARIANTS
    WayBack
PROPERTIES
    ServiceReturns
CHECK_DEADLOCK FALSE
