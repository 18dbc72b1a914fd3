CONSTANTS
    NumNodes = 4
    RootKinds = {"error"}
SPECIFICATION Spec
INVARIANTS ReportIsComplete
CHECK_DEADLOCK FALSE
