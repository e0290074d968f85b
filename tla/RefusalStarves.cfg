\* One radio, one turn of its panel, a line that loses nothing.
CONSTANTS
    Models = {"ic9700"}
    Settings = {"agc", "notch_width", "auto_notch"}
    MaxEvents = 1
    MaxFaults = 0
SPECIFICATION Spec
INVARIANT RefusalCostsOneRead
CHECK_DEADLOCK FALSE
