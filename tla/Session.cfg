\* One request, a poll of settlePTT, a turn of the panel; four changes of the state.
CONSTANTS
    Values = {"x", "y"}
    Touched <- MCTouched
    MaxSeq = 4
    Requests <- MCRequests
    MaxPolls = 1
    MaxPanel = 1
    KenwoodModels = {"ts590s", "ts890s"}
    KenwoodSettings = {"PA", "BP"}
    IcomModels = {"ic7610", "ic9700", "ic7700"}
    IcomSettings = {"agc", "notch_width", "auto_notch"}
    YaesuModels = {"ft891", "ftx1", "ftdx5000", "ftdx9000"}
    YaesuSettings = {"PA"}
    MaxEvents = 1
    MaxFaults = 1
    TestRadios <- MCTestRadios
    MaxMishaps = 1
SPECIFICATION SessionSpec
INVARIANT DeltasRebuildState
 
INVARIANT AnswerIsTheRadio
 
INVARIANT RadioIsTold
INVARIANT TestRunKeepsItsWord
CHECK_DEADLOCK FALSE
