CONSTANTS
    Uris = {u1}
    Texts = {t1}
    Languages = {l1}
    Settings = {s1}
    s1 = s1
    s2 = s2
    s3 = s3
    h1 = h1
    h2 = h2
    HealthOf <- MCHealthOf
    InitOptions = NoSettings
    Fallback = s1
    Unsupported = {}
    Broken <- MCBroken
    u2 = u2
    MaxVersion = 2
    MaxEdits = 1
    MaxRequests = 0
    MultiThread = TRUE
    EntryIds <- MCEntryIds
    NoEntry = NoEntry
    NoKey = NoKey
    NoCaller = NoCaller
    NoUri = NoUri
    NoDoc = NoDoc
    NoSettings = NoSettings
    Cleared = Cleared
SPECIFICATION Spec
INVARIANT ClosedStaysClear
CHECK_DEADLOCK FALSE
