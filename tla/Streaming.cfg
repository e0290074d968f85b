\* One radio's lane, two radios on a shared one; a monitor of two fields, two faults.
CONSTANTS
    Radios = {r1}
    Fields = {"cw", "connected", "frequency"}
    Callers = {c1}
    FeedSize = 1
    QueueCap = 1
    MaxSeq = 3
    SharedRadios = {r1, r2}
    SharedFields = {"cw", "connected"}
    SharedMaxSeq = 1
    Shown = {"frequency", "mode"}
    Buffer = 2
    MaxChanges = 3
    MaxFaults = 2
SPECIFICATION StreamingSpec
 
INVARIANT SharedLaneHolds
 
 
PROPERTY OwedGetsWritten
PROPERTY StreamComesBack
CHECK_DEADLOCK FALSE
