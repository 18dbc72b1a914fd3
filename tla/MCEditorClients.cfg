CONSTANTS
    Uris <- MCUris
    NoUri = NoUri
    NoHealth = NoHealth
    Unsupported <- MCUnsupported
    HoverUris <- MCHoverUris
    MaxEvents = 5
    Positions = {p, q}
    Stamps = {1, 2}
    Regimes = {r1, r2}
    Ids = {1, 2, 3}
    None = None
    MaxHoverEvents = 2
    MaxFetches = 2
    MaxTreeEvents = 4
SPECIFICATION ClientsSpec
INVARIANTS PanelFollows HoverIsFresh TreeShowsActive
PROPERTIES PanelNeverGoesBack ClientsSettle
CHECK_DEADLOCK FALSE
