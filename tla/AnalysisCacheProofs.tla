------------------------ MODULE AnalysisCacheProofs -------------------------
(***************************************************************************)
(* Safety of the analysis cache for any number of documents, callers and   *)
(* snapshots.                                                              *)
(*                                                                         *)
(* That an answer fits its question is not inductive: it takes that a call *)
(* only ever holds an entry for what it asked (Matched), and that a cell   *)
(* is filled with the analysis of its own entry's snapshot (Filled), by a  *)
(* call that holds that entry (InitialiserIsCalling).                      *)
(***************************************************************************)
EXTENDS AnalysisCache, TLAPS

Matched ==
    \A c \in Callers : call[c].entry # NoEntry =>
        /\ heap[call[c].entry].key = call[c].asked
        /\ call[c].asked # NoKey
        /\ call[c].answer = NoKey

Filled ==
    \A i \in EntryIds :
        /\ heap[i].value # NoKey => heap[i].value = heap[i].key
        /\ heap[i].by # NoCaller => heap[i].value = NoKey

IInv ==
    /\ CacheTypeOK
    /\ Matched
    /\ Filled
    /\ InitialiserIsCalling
    /\ AnswersTheQuestion

Stable ==
    \A i \in EntryIds : i \in Held /\ i \in Held' =>
        /\ heap'[i].key = heap[i].key
        /\ heap[i].value # NoKey => heap'[i].value = heap[i].value

LEMMA InitEstablishes == CacheInit => IInv
BY AnalysisCacheAssumption DEF CacheInit, NoCall, Freed, IInv, CacheTypeOK, Matched, Filled,
   InitialiserIsCalling, AnswersTheQuestion

(* What an action needs to say of the heap: Sweep keeps the entries that    *)
(* are still held as they are, and frees the others.                        *)
LEMMA Swept ==
    ASSUME NEW entries, heap' = Sweep(entries), NEW i \in EntryIds
    PROVE  heap'[i] = IF i \in Held' THEN entries[i] ELSE Freed
BY DEF Sweep

LEMMA HeldBy ==
    /\ \A u \in Documents : cache[u] \in Held
    /\ \A c \in Callers : call[c].entry \in Held
BY DEF Held

LEMMA HeldByNext ==
    /\ \A u \in Documents : cache'[u] \in Held'
    /\ \A c \in Callers : call'[c].entry \in Held'
BY DEF Held

(* The map lets go of entries: calls are untouched, and keep theirs.        *)
LEMMA LettingGo ==
    ASSUME IInv, cache' \in [Documents -> EntryIds \cup {NoEntry}], call' = call,
           heap' = Sweep(heap)
    PROVE  IInv' /\ Stable
<1>1. \A i \in EntryIds : heap'[i] = IF i \in Held' THEN heap[i] ELSE Freed
  BY Swept
<1>2. CacheTypeOK'
  BY <1>1, AnalysisCacheAssumption DEF IInv, CacheTypeOK, Freed, Sweep
<1>3. Matched' /\ AnswersTheQuestion'
  BY <1>1, HeldByNext DEF IInv, CacheTypeOK, Matched, AnswersTheQuestion
<1>4. Filled' /\ InitialiserIsCalling'
  BY <1>1 DEF IInv, Filled, InitialiserIsCalling, Freed
<1>5. Stable
  BY <1>1 DEF Stable
<1>6. QED
  BY <1>2, <1>3, <1>4, <1>5 DEF IInv

LEMMA ForgetPreserves ==
    ASSUME IInv, DropCache \/ \E u \in Documents : Forget(u)
    PROVE  IInv' /\ Stable
<1>1. cache' \in [Documents -> EntryIds \cup {NoEntry}] /\ call' = call /\ heap' = Sweep(heap)
  BY DEF IInv, CacheTypeOK, Forget, DropCache
<1>2. QED
  BY <1>1, LettingGo

(* A new entry is one nobody holds: no call can find its own changed.       *)
LEMMA LookupPreserves ==
    ASSUME IInv, NEW c \in Callers, NEW u \in Documents, NEW k \in Keys, Lookup(c, u, k)
    PROVE  IInv' /\ Stable
<1> USE AnalysisCacheAssumption
<1> DEFINE fresh == CHOOSE i \in EntryIds : i \notin Held
           hit   == cache[u] # NoEntry /\ heap[cache[u]].key = k
           entry == IF hit THEN cache[u] ELSE fresh
           entries == IF hit THEN heap ELSE [heap EXCEPT ![fresh] = [Freed EXCEPT !.key = k]]
<1>1. /\ call[c] = NoCall
      /\ hit \/ EntryIds \ Held # {}
      /\ cache' = [cache EXCEPT ![u] = entry]
      /\ call' = [call EXCEPT ![c] = [NoCall EXCEPT !.entry = entry, !.asked = k]]
      /\ heap' = Sweep(entries)
  BY DEF Lookup
<1>2. ~hit => fresh \in EntryIds /\ fresh \notin Held
  BY <1>1
<1>3. entry \in EntryIds /\ entries[entry].key = k
  BY <1>2 DEF IInv, CacheTypeOK, Freed
<1>4. \A i \in EntryIds : i \in Held => entries[i] = heap[i]
  BY <1>2 DEF IInv, CacheTypeOK
<1>5. entries \in [EntryIds -> [key : Keys \cup {NoKey}, value : Keys \cup {NoKey},
                               by : Callers \cup {NoCaller}]]
  BY <1>2 DEF IInv, CacheTypeOK, Freed
<1>6. \A i \in EntryIds : heap'[i] = IF i \in Held' THEN entries[i] ELSE Freed
  BY <1>1, Swept
<1>7. call'[c] = [entry |-> entry, asked |-> k, answer |-> NoKey]
      /\ \A d \in Callers \ {c} : call'[d] = call[d]
  BY <1>1 DEF IInv, CacheTypeOK, NoCall
<1> HIDE DEF fresh, hit, entry, entries
<1>8. CacheTypeOK'
  <2>1. cache' \in [Documents -> EntryIds \cup {NoEntry}]
    BY <1>1, <1>3 DEF IInv, CacheTypeOK
  <2>2. call' \in [Callers -> [entry : EntryIds \cup {NoEntry},
                              asked : Keys \cup {NoKey}, answer : Keys \cup {NoKey}]]
    BY <1>1, <1>3 DEF IInv, CacheTypeOK, NoCall
  <2>3. heap' \in [EntryIds -> [key : Keys \cup {NoKey}, value : Keys \cup {NoKey},
                               by : Callers \cup {NoCaller}]]
    BY <1>1, <1>5 DEF Sweep, Freed
  <2>4. QED
    BY <2>1, <2>2, <2>3 DEF CacheTypeOK
<1>9. Matched'
  <2> SUFFICES ASSUME NEW d \in Callers, call'[d].entry # NoEntry
               PROVE  /\ heap'[call'[d].entry].key = call'[d].asked
                      /\ call'[d].asked # NoKey
                      /\ call'[d].answer = NoKey
    BY DEF Matched
  <2>1. call'[d].entry \in EntryIds /\ heap'[call'[d].entry] = entries[call'[d].entry]
    BY <1>6, <1>8, HeldByNext DEF CacheTypeOK
  <2>2. CASE d = c
    BY <2>1, <2>2, <1>3, <1>7
  <2>3. CASE d # c
    BY <2>1, <2>3, <1>4, <1>7, HeldBy DEF IInv, Matched
  <2>4. QED
    BY <2>2, <2>3
<1>10. Filled' /\ InitialiserIsCalling'
  <2>1. \A i \in EntryIds : heap'[i] = heap[i] \/ (heap'[i].value = NoKey /\ heap'[i].by = NoCaller)
    <3> SUFFICES ASSUME NEW i \in EntryIds
                 PROVE  heap'[i] = heap[i] \/ (heap'[i].value = NoKey /\ heap'[i].by = NoCaller)
      OBVIOUS
    <3>1. entries[i] = heap[i] \/ entries[i] = [Freed EXCEPT !.key = k]
      BY <1>2 DEF entries, IInv, CacheTypeOK
    <3>2. heap'[i] = entries[i] \/ heap'[i] = Freed
      BY <1>6
    <3>3. QED
      BY <3>1, <3>2 DEF Freed
  <2>2. \A i \in EntryIds : heap[i].by # NoCaller => heap[i].by # c
    BY <1>1 DEF IInv, InitialiserIsCalling, NoCall
  <2>3. QED
    BY <2>1, <2>2, <1>7 DEF IInv, CacheTypeOK, Filled, InitialiserIsCalling
<1>11. AnswersTheQuestion'
  BY <1>7 DEF IInv, AnswersTheQuestion
<1>12. Stable
  BY <1>4, <1>6 DEF Stable
<1>13. QED
  BY <1>8, <1>9, <1>10, <1>11, <1>12 DEF IInv

LEMMA BeginPreserves ==
    ASSUME IInv, NEW c \in Callers, Begin(c)
    PROVE  IInv' /\ Stable
<1> DEFINE i == call[c].entry
<1>1. /\ i \in EntryIds /\ heap[i].by = NoCaller /\ heap[i].value = NoKey
      /\ heap' = [heap EXCEPT ![i].by = c] /\ cache' = cache /\ call' = call
  BY DEF Begin, IInv, CacheTypeOK
<1>2. heap'[i] = [heap[i] EXCEPT !.by = c] /\ \A j \in EntryIds \ {i} : heap'[j] = heap[j]
  BY <1>1 DEF IInv, CacheTypeOK
<1>3. CacheTypeOK'
  BY SMTT(30), <1>1 DEF IInv, CacheTypeOK
<1>4. Matched' /\ Filled' /\ InitialiserIsCalling' /\ AnswersTheQuestion'
  BY <1>1, <1>2 DEF IInv, CacheTypeOK, Matched, Filled, InitialiserIsCalling,
     AnswersTheQuestion
<1>5. Stable
  BY <1>1, <1>2 DEF Stable, IInv, CacheTypeOK
<1>6. QED
  BY <1>3, <1>4, <1>5 DEF IInv

(* The steps that take a call from its entry: complete, join, abandon.      *)
LEMMA LeavingPreserves ==
    ASSUME IInv, NEW c \in Callers, Complete(c) \/ Join(c) \/ Abandon(c)
    PROVE  IInv' /\ Stable
<1> USE AnalysisCacheAssumption
<1> DEFINE i == call[c].entry
<1>1. PICK entries :
        /\ heap' = Sweep(entries)
        /\ entries \in [EntryIds -> [key : Keys \cup {NoKey}, value : Keys \cup {NoKey},
                                     by : Callers \cup {NoCaller}]]
        /\ \A j \in EntryIds : j # i => entries[j] = heap[j]
        /\ i \in EntryIds =>
             /\ entries[i].key = heap[i].key
             /\ heap[i].value # NoKey => entries[i].value = heap[i].value
             /\ entries[i].value # NoKey => entries[i].value = heap[i].key
             /\ entries[i].by # NoCaller => entries[i].value = NoKey
             /\ entries[i].by # NoCaller => entries[i].by = heap[i].by
             /\ entries[i].by # c
  <2>1. CASE Complete(c)
    <3>1. i \in EntryIds /\ heap[i].by = c
      BY <2>1 DEF Complete, IInv, CacheTypeOK
    <3>2. heap[i].value = NoKey /\ heap[i].key = call[c].asked /\ call[c].asked \in Keys
      BY <3>1 DEF IInv, CacheTypeOK, Filled, Matched
    <3>3. heap' = Sweep([heap EXCEPT ![i].value = call[c].asked, ![i].by = NoCaller])
      BY <2>1 DEF Complete
    <3>4. QED
      BY <3>1, <3>2, <3>3 DEF IInv, CacheTypeOK
  <2>2. CASE Join(c)
    <3>1. i \in EntryIds /\ heap[i].value # NoKey /\ heap' = Sweep(heap)
      BY <2>2 DEF Join, IInv, CacheTypeOK
    <3>2. QED
      BY <3>1 DEF IInv, CacheTypeOK, Filled
  <2>3. CASE Abandon(c)
    <3>1. CASE i # NoEntry /\ heap[i].by = c
      <4>1. heap' = Sweep([heap EXCEPT ![i].by = NoCaller])
        BY <2>3, <3>1 DEF Abandon
      <4>2. i \in EntryIds /\ heap[i].value = NoKey
        BY <3>1 DEF IInv, CacheTypeOK, Filled
      <4> DEFINE emptied == [heap EXCEPT ![i].by = NoCaller]
      <4>3. emptied[i] = [heap[i] EXCEPT !.by = NoCaller]
            /\ \A j \in EntryIds : j # i => emptied[j] = heap[j]
        BY <4>2 DEF IInv, CacheTypeOK
      <4>4. emptied \in [EntryIds -> [key : Keys \cup {NoKey}, value : Keys \cup {NoKey},
                                     by : Callers \cup {NoCaller}]]
        BY <4>2 DEF IInv, CacheTypeOK
      <4>5. /\ emptied[i].key = heap[i].key /\ emptied[i].value = NoKey
            /\ emptied[i].by = NoCaller /\ NoCaller # c
        BY <4>2, <4>3 DEF IInv, CacheTypeOK
      <4> HIDE DEF emptied, i
      <4>6. QED
        BY <4>1, <4>2, <4>3, <4>4, <4>5 DEF emptied
    <3>2. CASE ~(i # NoEntry /\ heap[i].by = c)
      <4>1. heap' = Sweep(heap)
        BY <2>3, <3>2 DEF Abandon
      <4>2. QED
        BY <3>2, <4>1 DEF IInv, CacheTypeOK, Filled
    <3>3. QED
      BY <3>1, <3>2
  <2>4. QED
    BY <2>1, <2>2, <2>3
<1>2. /\ cache' = cache
      /\ \A d \in Callers \ {c} : call'[d] = call[d]
      /\ call'[c].entry = NoEntry
      /\ call'[c].answer # NoKey => call'[c].answer = call'[c].asked
      /\ call' \in [Callers -> [entry : EntryIds \cup {NoEntry},
                                asked : Keys \cup {NoKey}, answer : Keys \cup {NoKey}]]
  <2>1. CASE Complete(c)
    BY <2>1 DEF Complete, IInv, CacheTypeOK
  <2>2. CASE Join(c)
    BY <2>2 DEF Join, IInv, CacheTypeOK, Matched, Filled
  <2>3. CASE Abandon(c)
    BY <2>3 DEF Abandon, NoCall, IInv, CacheTypeOK
  <2>4. QED
    BY <2>1, <2>2, <2>3
<1>3. \A j \in EntryIds : heap'[j] = IF j \in Held' THEN entries[j] ELSE Freed
  BY <1>1, Swept
<1>4. CacheTypeOK'
  BY <1>1, <1>2 DEF IInv, CacheTypeOK, Sweep, Freed
<1>5. Matched'
  <2> SUFFICES ASSUME NEW d \in Callers, call'[d].entry # NoEntry
               PROVE  /\ heap'[call'[d].entry].key = call'[d].asked
                      /\ call'[d].asked # NoKey
                      /\ call'[d].answer = NoKey
    BY DEF Matched
  <2>1. call'[d] = call[d] /\ call[d].entry \in EntryIds /\ call'[d].entry \in Held'
    BY <1>2, HeldByNext DEF IInv, CacheTypeOK
  <2>2. heap'[call[d].entry].key = heap[call[d].entry].key
    BY <1>1, <1>3, <2>1
  <2>3. QED
    BY <2>1, <2>2 DEF IInv, Matched
<1>6. Filled'
  BY <1>1, <1>3 DEF IInv, Filled, Freed
<1>7. InitialiserIsCalling'
  <2> SUFFICES ASSUME NEW j \in EntryIds, heap'[j].by # NoCaller
               PROVE  call'[heap'[j].by].entry = j
    BY DEF InitialiserIsCalling
  <2>1. heap'[j].by = heap[j].by /\ heap[j].by \in Callers
    BY <1>1, <1>3 DEF Freed, IInv, CacheTypeOK
  <2>2. call[heap[j].by].entry = j
    BY <2>1 DEF IInv, InitialiserIsCalling
  <2>3. heap[j].by # c
    BY <1>1, <1>3, <2>1, <2>2 DEF Freed
  <2>4. QED
    BY <1>2, <2>1, <2>2, <2>3
<1>8. AnswersTheQuestion'
  BY <1>2 DEF IInv, AnswersTheQuestion
<1>9. Stable
  BY <1>1, <1>3 DEF Stable
<1>10. QED
  BY <1>4, <1>5, <1>6, <1>7, <1>8, <1>9 DEF IInv

LEMMA ReleasePreserves ==
    ASSUME IInv, NEW c \in Callers, Release(c)
    PROVE  IInv' /\ Stable
<1> USE AnalysisCacheAssumption
<1>1. /\ call[c].entry = NoEntry /\ call' = [call EXCEPT ![c] = NoCall]
      /\ cache' = cache /\ heap' = heap
  BY DEF Release
<1>2. \A i \in EntryIds : heap[i].by # c
  BY <1>1 DEF IInv, InitialiserIsCalling
<1>3. QED
  BY <1>1, <1>2 DEF IInv, CacheTypeOK, Matched, Filled, InitialiserIsCalling,
     AnswersTheQuestion, NoCall, Stable

LEMMA StepPreserves == IInv /\ [CacheNext]_cacheVars => IInv' /\ [Stable]_cacheVars
<1> SUFFICES ASSUME IInv, [CacheNext]_cacheVars PROVE IInv' /\ [Stable]_cacheVars
  OBVIOUS
<1>1. CASE UNCHANGED cacheVars
  BY <1>1 DEF cacheVars, IInv, CacheTypeOK, Matched, Filled, InitialiserIsCalling,
     AnswersTheQuestion
<1>2. CASE CacheNext
  BY <1>2, ForgetPreserves, LookupPreserves, BeginPreserves, LeavingPreserves,
     ReleasePreserves DEF CacheNext, CallStep
<1>3. QED
  BY <1>1, <1>2

-----------------------------------------------------------------------------

LEMMA Inductive == CacheSpec => []IInv
BY InitEstablishes, StepPreserves, PTL DEF CacheSpec

(* The cache, its entries and the calls keep their types.                   *)
THEOREM CacheTypeCorrect == CacheSpec => []CacheTypeOK
BY Inductive, PTL DEF IInv

(* Every call is answered with the analysis of the snapshot it asked about, *)
(* whatever replaced, forgot or dropped what in the meantime.               *)
THEOREM AnswersFit == CacheSpec => []AnswersTheQuestion
BY Inductive, PTL DEF IInv

(* A cell being filled is in the hands of a call that still holds it.       *)
THEOREM NoOrphanedCell == CacheSpec => []InitialiserIsCalling
BY Inductive, PTL DEF IInv

(* No step changes the snapshot of an entry in use, or takes back a result. *)
THEOREM EntriesStayPut == CacheSpec => EntriesAreStable
<1>1. IInv /\ [CacheNext]_cacheVars => [Stable]_cacheVars
  BY StepPreserves
<1>2. QED
  BY <1>1, Inductive, PTL DEF CacheSpec, EntriesAreStable, Stable

=============================================================================
