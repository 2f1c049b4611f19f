SPECIFICATION FairTcpSpec
CONSTANTS
    MaxSent <- Bytes
    Room = 1
INVARIANTS
    BytesInOrder
    EndMeansAll
    NoConnectionLeft
PROPERTIES
    ErrorEndsBoth
    RelayEnds
CHECK_DEADLOCK FALSE
