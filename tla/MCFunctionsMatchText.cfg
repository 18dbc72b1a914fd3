CONSTANTS
    Docs <- MCDocs
    Uris = {a}
    Analysed = {a}
    Settings = {s1}
    Conns <- MCConns
    None = None
    MaxOpen = 1
    MaxEvents = 3
SPECIFICATION Spec
INVARIANT FunctionsMatchText
CHECK_DEADLOCK FALSE
