CONSTANTS
    Docs <- MCDocs
    Uris = {a, b, c}
    Analysed = {a, b}
    Settings = {s1, s2}
    Conns <- MCConns
    None = None
    MaxOpen = 1
    MaxEvents = 3
    Requests <- MCRequests
    StopDuringRestart = FALSE
SPECIFICATION ClientSpec
INVARIANTS ServerKnowsEditor NothingCrossesRestart ShownIsCurrent NeverStuck ManualStopHolds
CHECK_DEADLOCK FALSE
