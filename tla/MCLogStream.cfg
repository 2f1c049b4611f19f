SPECIFICATION FairSpec
CONSTANTS
    Streams = {s1}
    Limit = 3
    Writes <- ManyWrites
    NewLine = NewLine
    Letter = Letter
    NoSignal = NoSignal
    MaxWrites = 3
    MaxLosses = 1
INVARIANTS
    SnapshotShowsLastLines
    NoLostWakeUp
    SendsOnOpenChannels
PROPERTIES
    NewestIsShown
CHECK_DEADLOCK FALSE
