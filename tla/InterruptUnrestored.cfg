\* Ctrl-C at any step, with nothing refused and no cable pulled.
CONSTANTS
    TestRadios <- MCTestRadios
    MaxMishaps = 0
SPECIFICATION Spec
INVARIANT InterruptedIsRestored
CHECK_DEADLOCK FALSE
