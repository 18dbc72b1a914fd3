---------------------------- MODULE MCServerParts ----------------------------
(* The debounce, with two documents, one waiter and three edits: enough for *)
(* an edit of one document to be superseded, flushed and followed by        *)
(* another while the waiter sleeps, and for the two documents' deadlines to *)
(* interleave.  Or the cache, with three calls over two snapshots of one    *)
(* document: one computes, one waits for it, one has replaced the entry.    *)
(* The two share nothing: `subject' says which of them runs.                *)
EXTENDS EditTasks, AnalysisCache

VARIABLE subject
partsVars == <<vars, cacheVars, subject>>

PartsInit == Init /\ CacheInit /\ subject \in {"edits", "cache"}

Of(part, step, others) == subject = part /\ step /\ UNCHANGED <<others, subject>>

PartsNext == Of("edits", Next, cacheVars) \/ Of("cache", CacheNext, vars)

(* The fairness of FairSpec and FairCacheSpec.                              *)
PartsSpec ==
    /\ PartsInit
    /\ [][PartsNext]_partsVars
    /\ \A e \in EditIds : WF_partsVars(Of("edits", TaskStep(e), cacheVars))
    /\ \A w \in Waiters : WF_partsVars(Of("edits", WaiterStep(w), cacheVars))
    /\ WF_partsVars(Of("edits", Tick, cacheVars))
    /\ \A c \in Callers : /\ WF_partsVars(Of("cache", CallStep(c), vars))
                          /\ SF_partsVars(Of("cache", Begin(c), vars))
=============================================================================
