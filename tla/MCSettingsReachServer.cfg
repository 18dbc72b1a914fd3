CONSTANTS
    Docs <- MCDocs
    Uris = {a}
    Analysed = {a}
    Settings = {s1, s2}
    Conns <- MCConns
    None = None
    MaxOpen = 1
    MaxEvents = 3
SPECIFICATION Spec
INVARIANT SettingsReachServer
CHECK_DEADLOCK FALSE
