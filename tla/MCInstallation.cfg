SPECIFICATION FairSpec
CONSTANTS
    h1 = h1
    h2 = h2
    a1 = a1
    Handlers = {h1, h2}
    Addresses = {a1}
    LoginLimit = 2
    Hook = Hook
    byHand = byHand
    Deployers = {Hook, byHand}
    MaxEvents = 4
INVARIANTS
    FewOutdated
    FailuresBounded
PROPERTIES
    StartsComplete
    DeployServes
    InstallationFinishes
CHECK_DEADLOCK FALSE
