\* A buffer of two chunks, two goroutines that abort, three texts, one failing transaction or line.
CONSTANTS
    ChunksInFlight = 1
    RigRoom = 2
    Aborters = {a1, a2}
    MaxElements = 2
    MaxTexts = 3
    MaxAborts = 2
    MaxFaults = 1
SPECIFICATION FairSpec
INVARIANT HandedOverRight
INVARIANT AbortSilences
INVARIANT SerialInv
PROPERTY CarrierDrops
PROPERTY SenderFinishes
CHECK_DEADLOCK FALSE
