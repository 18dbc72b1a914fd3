CONSTANTS
    Uris = {u1, u2}
    Waiters = {w1}
    MaxEdits = 3
    NoUri = NoUri
    Documents = {u1}
    Callers = {c1, c2, c3}
    Keys = {k1, k2}
    EntryIds = {e1, e2, e3, e4}
    NoEntry = NoEntry
    NoKey = NoKey
    NoCaller = NoCaller
SPECIFICATION PartsSpec
INVARIANTS TypeOK MapHoldsLiveEdits NoLostWakeup AnswersTheQuestion InitialiserIsCalling
PROPERTIES NoPublishAfterCancel EditsRetire WaitersReturn EntriesAreStable CallsReturn
CHECK_DEADLOCK FALSE
