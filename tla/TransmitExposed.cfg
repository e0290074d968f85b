\* No fault at all: does tx_timeout always bring the carrier down?
CONSTANTS
    Forcers = {f1}
    Keyers = {k1}
    Calls = {"on", "off"}
    MaxKeys = 2
    MaxFaults = 0
    MaxReports = 2
SPECIFICATION FairSpec
PROPERTY TXTimeoutForcesRX
CHECK_DEADLOCK FALSE
