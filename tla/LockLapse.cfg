\* Does every lease that runs out fire the callback that drops PTT?
CONSTANTS
    Radios = {r1}
    Users = {u1, u2}
    TTL = 2
    AllowSteal = FALSE
    MaxTime = 4
    MaxGen = 3
SPECIFICATION Spec
PROPERTY LapseRunsCallback
CHECK_DEADLOCK FALSE
