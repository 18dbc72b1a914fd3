---------------------------- MODULE AnalysisCache ---------------------------
(***************************************************************************)
(* The shared analysis of each document                                    *)
(* (crates/lspf-analysis/src/analysis_cache.rs): a map from documents to   *)
(* entries, each an Arc holding the snapshot it is for and a OnceCell for  *)
(* the result.  Callers race: an entry may be replaced or forgotten while  *)
(* calls still hold it, and the call that initialises a cell may be        *)
(* dropped before it is done.                                              *)
(*                                                                         *)
(* A key stands for what an entry compares: language, text, version and    *)
(* scoring configuration (the path is the document's own).  The analysis   *)
(* is a function of the key, so a result is the key it was computed from.  *)
(***************************************************************************)
CONSTANTS Documents, Callers,
          Keys,      \* snapshots with their language and configuration
          EntryIds,  \* bound: entries alive at once
          NoEntry, NoKey, NoCaller

ASSUME AnalysisCacheAssumption ==
    /\ NoEntry \notin EntryIds
    /\ NoKey \notin Keys
    /\ NoCaller \notin Callers

VARIABLES cache,  \* the map: the entry of each document, or NoEntry
          heap,   \* the entries; `by' is the caller initialising the cell
          call    \* each caller's report(): its entry, what it asked, its answer

cacheVars == <<cache, heap, call>>

Freed == [key |-> NoKey, value |-> NoKey, by |-> NoCaller]
NoCall == [entry |-> NoEntry, asked |-> NoKey, answer |-> NoKey]

CacheTypeOK ==
    /\ cache \in [Documents -> EntryIds \cup {NoEntry}]
    /\ heap \in [EntryIds -> [key : Keys \cup {NoKey}, value : Keys \cup {NoKey},
                              by : Callers \cup {NoCaller}]]
    /\ call \in [Callers -> [entry : EntryIds \cup {NoEntry},
                             asked : Keys \cup {NoKey}, answer : Keys \cup {NoKey}]]

CacheInit ==
    /\ cache = [u \in Documents |-> NoEntry]
    /\ heap = [i \in EntryIds |-> Freed]
    /\ call = [c \in Callers |-> NoCall]

(* An Arc is alive while the map or a call holds it, and freed after.       *)
Held == {cache[u] : u \in Documents} \cup {call[c].entry : c \in Callers}
Sweep(entries) == [i \in EntryIds |-> IF i \in Held' THEN entries[i] ELSE Freed]

-----------------------------------------------------------------------------

(* forget(): the map lets go of the entry; calls that hold it keep it.      *)
Forget(u) ==
    /\ cache' = [cache EXCEPT ![u] = NoEntry]
    /\ call' = call
    /\ heap' = Sweep(heap)

(* The map is dropped with the State.                                       *)
DropCache ==
    /\ cache' = [u \in Documents |-> NoEntry]
    /\ call' = call
    /\ heap' = Sweep(heap)

(* Mutants of Lookup: any entry of the document will do; the entry is       *)
(* rewritten in place.                                                      *)
LookupAny(c, u, k) ==
    LET fresh == CHOOSE i \in EntryIds : i \notin Held
        hit   == cache[u] # NoEntry
        entry == IF hit THEN cache[u] ELSE fresh
    IN  /\ call[c] = NoCall
        /\ cache' = [cache EXCEPT ![u] = entry]
        /\ call' = [call EXCEPT ![c] = [NoCall EXCEPT !.entry = entry, !.asked = k]]
        /\ heap' = IF hit THEN heap ELSE [heap EXCEPT ![fresh] = [Freed EXCEPT !.key = k]]
LookupInPlace(c, u, k) ==
    LET fresh == CHOOSE i \in EntryIds : i \notin Held
        entry == IF cache[u] # NoEntry THEN cache[u] ELSE fresh
    IN  /\ call[c] = NoCall
        /\ cache' = [cache EXCEPT ![u] = entry]
        /\ call' = [call EXCEPT ![c] = [NoCall EXCEPT !.entry = entry, !.asked = k]]
        /\ heap' = IF heap[entry].key = k THEN heap
                   ELSE [heap EXCEPT ![entry] = [Freed EXCEPT !.key = k]]

(* report(), under the lock: the document's entry if it is for the same     *)
(* snapshot, else a new one in its place.                                   *)
Lookup(c, u, k) ==
    LET fresh == CHOOSE i \in EntryIds : i \notin Held
        hit   == cache[u] # NoEntry /\ heap[cache[u]].key = k
        entry == IF hit THEN cache[u] ELSE fresh
    IN  /\ call[c] = NoCall
        /\ hit \/ EntryIds \ Held # {}
        /\ cache' = [cache EXCEPT ![u] = entry]
        /\ call' = [call EXCEPT ![c] = [NoCall EXCEPT !.entry = entry, !.asked = k]]
        /\ heap' = Sweep(IF hit THEN heap
                         ELSE [heap EXCEPT ![fresh] = [Freed EXCEPT !.key = k]])

(* get_or_init(): an empty cell nobody is initialising is this call's to    *)
(* fill, with the analysis of the arguments its own closure captured.       *)
Begin(c) ==
    LET i == call[c].entry
    IN  /\ i # NoEntry
        /\ heap[i].by = NoCaller /\ heap[i].value = NoKey
        /\ heap' = [heap EXCEPT ![i].by = c]
        /\ UNCHANGED <<cache, call>>

Complete(c) ==
    LET i == call[c].entry
    IN  /\ i # NoEntry
        /\ heap[i].by = c
        /\ cache' = cache
        /\ call' = [call EXCEPT ![c].entry = NoEntry, ![c].answer = call[c].asked]
        /\ heap' = Sweep([heap EXCEPT ![i].value = call[c].asked, ![i].by = NoCaller])

(* A filled cell answers every call that holds it.                          *)
Join(c) ==
    LET i == call[c].entry
    IN  /\ i # NoEntry
        /\ heap[i].value # NoKey
        /\ cache' = cache
        /\ call' = [call EXCEPT ![c].entry = NoEntry, ![c].answer = heap[i].value]
        /\ heap' = Sweep(heap)

(* Mutant of Abandon: the dropped initialiser keeps the cell.               *)
AbandonHolding(c) ==
    /\ cache' = cache
    /\ call' = [call EXCEPT ![c] = NoCall]
    /\ heap' = Sweep(heap)

(* The call's future is dropped; an initialiser leaves the cell to another. *)
Abandon(c) ==
    LET i == call[c].entry
    IN  /\ cache' = cache
        /\ call' = [call EXCEPT ![c] = NoCall]
        /\ heap' = Sweep(IF i # NoEntry /\ heap[i].by = c
                         THEN [heap EXCEPT ![i].by = NoCaller] ELSE heap)

(* The caller is done with the answer.                                      *)
Release(c) ==
    /\ call[c].entry = NoEntry
    /\ call' = [call EXCEPT ![c] = NoCall]
    /\ UNCHANGED <<cache, heap>>

-----------------------------------------------------------------------------

CallStep(c) ==
    Begin(c) \/ Complete(c) \/ Join(c) \/ (call[c].answer # NoKey /\ Release(c))

CacheNext ==
    \/ \E u \in Documents : Forget(u)
    \/ DropCache
    \/ \E c \in Callers, u \in Documents, k \in Keys : Lookup(c, u, k)
    \/ \E c \in Callers : CallStep(c) \/ (call[c].entry # NoEntry /\ Abandon(c))

CacheSpec == CacheInit /\ [][CacheNext]_cacheVars

(* Callers are polled and computations end; the permit to initialise is     *)
(* handed out in order, so a waiting call is not passed over for ever.      *)
FairCacheSpec ==
    /\ CacheSpec
    /\ \A c \in Callers : WF_cacheVars(CallStep(c)) /\ SF_cacheVars(Begin(c))

-----------------------------------------------------------------------------

(* Whatever replaced, forgot or dropped what in the meantime, a call is     *)
(* answered with the analysis of the very snapshot it asked about.          *)
AnswersTheQuestion ==
    \A c \in Callers : call[c].answer # NoKey => call[c].answer = call[c].asked

(* The entry in the map is the only one a snapshot asked about now can      *)
(* join, and whoever fills a cell is still there to: no cell is left in the *)
(* hands of a call that was dropped, which would hang every other holder.   *)
InitialiserIsCalling ==
    \A i \in EntryIds : heap[i].by # NoCaller => call[heap[i].by].entry = i

(* An entry is never rewritten for another snapshot while a call holds it,  *)
(* and its result is never taken back (old computations retain only their   *)
(* own entry).                                                              *)
EntriesAreStable ==
    [][\A i \in EntryIds : i \in Held /\ i \in Held' =>
         /\ heap'[i].key = heap[i].key
         /\ heap[i].value # NoKey => heap'[i].value = heap[i].value]_cacheVars

(* Every call is answered or dropped, also when its entry's initialiser is. *)
CallsReturn == \A c \in Callers : call[c] # NoCall ~> call[c] = NoCall

=============================================================================
