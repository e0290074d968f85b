\* Two callers of one connection; a supervisor with two requests and two faults;
\* two radios, one event buffered anywhere, a client.
CONSTANTS
    Callers = {c1, c2}
    Keys = {k1, k2}
    MaxCalls = 2
    MaxPushes = 1
    MaxPollFailures = 2
    MaxRequests = 2
    MaxFaults = 2
    Stations = {r1, r2}
    Viewers = {v1}
    SubCap = 1
    AggCap = 1
    MaxEvents = 3
SPECIFICATION LinkSpec
INVARIANT ConnInv
INVARIANT ReplyIsInCache
INVARIANT WakesAreAskedFor
INVARIANT UsableIsInitialised
INVARIANT FlagsAgree
INVARIANT LossIsAnnounced
PROPERTY NoAnswerLost
PROPERTY NothingAppliedAfterClose
PROPERTY CallReturns
PROPERTY RefusalsKeepTheLink
PROPERTY SilenceIsNoticed
PROPERTY RadioComesBack
PROPERTY ArmedWakeIsSent
PROPERTY CloseEnds
PROPERTY ShutdownReaches
CHECK_DEADLOCK FALSE
