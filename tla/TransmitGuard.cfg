\* Two ForceRX at once, one request at a time, an operator at the panel, a fault.
CONSTANTS
    Forcers = {f1, f2}
    Keyers = {k1}
    Calls = {"on", "off", "tune", "panel"}
    MaxKeys = 2
    MaxFaults = 1
    MaxReports = 2
SPECIFICATION FairSpec
INVARIANT KeyedIsCovered
INVARIANT TimerHasTransmission
PROPERTY CarrierComesDown
CHECK_DEADLOCK FALSE
