\* Nothing overflows: is a client that merged everything it was sent up to date?
CONSTANTS
    Radios = {r1}
    Fields = {"cw", "connected", "frequency", "mode"}
    Callers = {c1}
    FeedSize = 2
    QueueCap = 2
    MaxSeq = 3
SPECIFICATION Spec
INVARIANT NothingLostSilently
CHECK_DEADLOCK FALSE
