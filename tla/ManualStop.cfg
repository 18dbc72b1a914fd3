CONSTANTS
    Requests = {1, 2, 3}
    StopDuringRestart = TRUE
SPECIFICATION LifecycleSpec
INVARIANT ManualStopHolds
CHECK_DEADLOCK FALSE
