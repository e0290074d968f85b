\* A radio that reports on its speech processor.
CONSTANTS
    Values = {"x", "y"}
    Touched <- MCProcTouched
    MaxSeq = 2
SPECIFICATION Spec
PROPERTY EveryChangeIsPublished
CHECK_DEADLOCK FALSE
