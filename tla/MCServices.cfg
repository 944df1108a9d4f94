CONSTANTS
    RestEnabled = {TRUE, FALSE}
    MaxSignals  = 3
SPECIFICATION Spec
INVARIANTS TypeOK LoopHasSocket
PROPERTIES StopEndsProcess
CHECK_DEADLOCK FALSE
