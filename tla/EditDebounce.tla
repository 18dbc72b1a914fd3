---------------------------- MODULE EditDebounce ----------------------------
(***************************************************************************)
(* The per-document quiet period (crates/lspf-analysis/src/edit_debounce.rs)*)
(* as a component: the map from documents to their pending edit, and the   *)
(* operations the language server calls on it.  Every operation runs under *)
(* the map's mutex, so each is one step.                                   *)
(*                                                                         *)
(* An edit (an Arc<PendingEdit>) is the number of the schedule() call that *)
(* made it.  All deadlines lie EDIT_DELAY after their schedule(), so they  *)
(* pass in the order of the numbers: `elapsed' is the last edit whose      *)
(* deadline has passed, and Elapse, the passage of time, may come at any   *)
(* moment.                                                                 *)
(***************************************************************************)
EXTENDS Naturals

CONSTANTS Uris,      \* documents
          MaxEdits,  \* bound: schedule() calls in a behaviour
          Waiters    \* callers of wait()

ASSUME MaxEditsAssumption == MaxEdits \in Nat

VARIABLES pending,    \* the map; NoEdit where it has no entry
          issued,     \* edits scheduled so far
          cancelled,  \* edits whose token is cancelled
          elapsed,    \* the last edit whose deadline has passed
          on          \* the edit whose select! each waiter sleeps in

debounceVars == <<pending, issued, cancelled, elapsed, on>>

NoEdit == 0
EditIds == 1..MaxEdits

DebounceTypeOK ==
    /\ pending \in [Uris -> 0..MaxEdits]
    /\ issued \in 0..MaxEdits
    /\ cancelled \subseteq EditIds
    /\ elapsed \in 0..MaxEdits
    /\ on \in [Waiters -> 0..MaxEdits]

DebounceInit ==
    /\ pending = [u \in Uris |-> NoEdit]
    /\ issued = 0
    /\ cancelled = {}
    /\ elapsed = 0
    /\ on = [w \in Waiters |-> NoEdit]

-----------------------------------------------------------------------------

(* Mutant of Schedule: the map is given the number of the next edit.        *)
ScheduleOffByOne(u) ==
    /\ issued < MaxEdits
    /\ issued' = issued + 1
    /\ pending' = [pending EXCEPT ![u] = issued + 2]
    /\ UNCHANGED <<cancelled, elapsed, on>>

(* schedule(): the new edit takes the document's entry, the edit it         *)
(* displaces is cancelled.                                                  *)
Schedule(u) ==
    /\ issued < MaxEdits
    /\ issued' = issued + 1
    /\ pending' = [pending EXCEPT ![u] = issued + 1]
    /\ cancelled' = cancelled \cup ({pending[u]} \ {NoEdit})
    /\ UNCHANGED <<elapsed, on>>

(* Mutant of Cancel: the token is never cancelled.                          *)
CancelSilently(u) ==
    /\ pending' = [pending EXCEPT ![u] = NoEdit]
    /\ UNCHANGED <<issued, cancelled, elapsed, on>>

(* cancel(): the entry, if any, is removed and its edit cancelled.          *)
Cancel(u) ==
    /\ pending' = [pending EXCEPT ![u] = NoEdit]
    /\ cancelled' = cancelled \cup ({pending[u]} \ {NoEdit})
    /\ UNCHANGED <<issued, elapsed, on>>

(* Mutant of Finish: whatever edit the document has is removed.             *)
FinishAny(u, e) ==
    /\ pending' = [pending EXCEPT ![u] = NoEdit]
    /\ UNCHANGED <<issued, cancelled, elapsed, on>>

(* finish(): an edit removes its own entry, never a successor's.            *)
Finish(u, e) ==
    /\ pending' = [pending EXCEPT ![u] = IF @ = e THEN NoEdit ELSE @]
    /\ UNCHANGED <<issued, cancelled, elapsed, on>>

(* Drop: every edit still in the map is cancelled, and the map is gone.     *)
Drop ==
    /\ cancelled' = cancelled \cup ({pending[u] : u \in Uris} \ {NoEdit})
    /\ pending' = [u \in Uris |-> NoEdit]
    /\ UNCHANGED <<issued, elapsed, on>>

(* The document has no edit in its quiet period.                            *)
Quiet(u) == pending[u] <= elapsed

(* wait() reads the map awake: it returns when the document is quiet ...    *)
WaitReturns(w, u) ==
    /\ on[w] = NoEdit
    /\ Quiet(u)
    /\ UNCHANGED debounceVars

(* ... and otherwise sleeps on the edit it found, ...                       *)
WaitSleeps(w, u) ==
    /\ on[w] = NoEdit
    /\ ~Quiet(u)
    /\ on' = [on EXCEPT ![w] = pending[u]]
    /\ UNCHANGED <<pending, issued, cancelled, elapsed>>

(* Mutant of WaitWakes: only the cancellation is awaited.                   *)
WakesWhenCancelled(w) ==
    /\ on[w] \in cancelled
    /\ on' = [on EXCEPT ![w] = NoEdit]
    /\ UNCHANGED <<pending, issued, cancelled, elapsed>>

(* ... until that edit is cancelled or due; the loop then reads again.      *)
WaitWakes(w) ==
    /\ on[w] # NoEdit
    /\ on[w] \in cancelled \/ on[w] <= elapsed
    /\ on' = [on EXCEPT ![w] = NoEdit]
    /\ UNCHANGED <<pending, issued, cancelled, elapsed>>

(* The future of wait() is dropped with the task that polls it.             *)
WaitDropped(w) ==
    /\ on' = [on EXCEPT ![w] = NoEdit]
    /\ UNCHANGED <<pending, issued, cancelled, elapsed>>

(* Time: the oldest deadline ahead passes.                                  *)
Elapse ==
    /\ elapsed < issued
    /\ elapsed' = elapsed + 1
    /\ UNCHANGED <<pending, issued, cancelled, on>>

=============================================================================
