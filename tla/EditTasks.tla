----------------------------- MODULE EditTasks ------------------------------
(***************************************************************************)
(* The debounce in use: the protocol task schedules and cancels edits, one *)
(* spawned task per edit sleeps, publishes and finishes (did_change in     *)
(* crates/lspf-analysis/src/lib.rs), and requests wait for quiet.  What is *)
(* published is left out: LanguageServer has the whole of it and           *)
(* implements this specification.                                          *)
(***************************************************************************)
EXTENDS EditDebounce

CONSTANT NoUri  \* no document

ASSUME NoUriAssumption == NoUri \notin Uris

VARIABLES task,    \* where each edit's spawned task is
          uriOf,   \* the document each task captured
          asking,  \* the document each waiter asks about
          alive    \* the State has not been dropped

taskVars == <<task, uriOf, asking, alive>>
vars == <<debounceVars, taskVars>>

TypeOK ==
    /\ DebounceTypeOK
    /\ task \in [EditIds -> {"none", "sleeping", "publishing", "finishing", "done"}]
    /\ uriOf \in [EditIds -> Uris \cup {NoUri}]
    /\ asking \in [Waiters -> Uris \cup {NoUri}]
    /\ alive \in BOOLEAN

Init ==
    /\ DebounceInit
    /\ task = [e \in EditIds |-> "none"]
    /\ uriOf = [e \in EditIds |-> NoUri]
    /\ asking = [w \in Waiters |-> NoUri]
    /\ alive = TRUE

(* did_change: schedule the edit and spawn its task.                        *)
Change(u) ==
    /\ alive
    /\ Schedule(u)
    /\ task' = [task EXCEPT ![issued + 1] = "sleeping"]
    /\ uriOf' = [uriOf EXCEPT ![issued + 1] = u]
    /\ UNCHANGED <<asking, alive>>

(* did_open, did_save, did_close and did_change_configuration all cancel.   *)
Flush(u) ==
    /\ alive
    /\ Cancel(u)
    /\ UNCHANGED taskVars

(* Mutant of Wake: a select! that is not biased.                            *)
WakeUnbiased(e) ==
    /\ task[e] = "sleeping"
    /\ e <= elapsed
    /\ task' = [task EXCEPT ![e] = IF alive THEN "publishing" ELSE "finishing"]
    /\ UNCHANGED <<debounceVars, uriOf, asking, alive>>

(* The deadline branch of the select!, polled only while the edit stands:   *)
(* it is biased towards the cancellation.  Without a State it has nothing   *)
(* to publish.                                                              *)
Wake(e) ==
    /\ task[e] = "sleeping"
    /\ e <= elapsed
    /\ e \notin cancelled
    /\ task' = [task EXCEPT ![e] = IF alive THEN "publishing" ELSE "finishing"]
    /\ UNCHANGED <<debounceVars, uriOf, asking, alive>>

(* The publication is over, whatever came of it.                            *)
Published(e) ==
    /\ task[e] = "publishing"
    /\ task' = [task EXCEPT ![e] = "finishing"]
    /\ UNCHANGED <<debounceVars, uriOf, asking, alive>>

(* The cancellation branch: the deadline branch is dropped where it stands. *)
Stop(e) ==
    /\ task[e] \in {"sleeping", "publishing"}
    /\ e \in cancelled
    /\ task' = [task EXCEPT ![e] = "finishing"]
    /\ UNCHANGED <<debounceVars, uriOf, asking, alive>>

(* Mutant of End: the entry is left to the next edit to replace.            *)
EndWithoutFinish(e) ==
    /\ task[e] = "finishing"
    /\ task' = [task EXCEPT ![e] = "done"]
    /\ uriOf' = [uriOf EXCEPT ![e] = NoUri]
    /\ UNCHANGED <<debounceVars, asking, alive>>

(* After the select!: finish() through the weak State, if it still lives.   *)
End(e) ==
    /\ task[e] = "finishing"
    /\ IF alive THEN Finish(uriOf[e], e) ELSE UNCHANGED debounceVars
    /\ task' = [task EXCEPT ![e] = "done"]
    /\ uriOf' = [uriOf EXCEPT ![e] = NoUri]
    /\ UNCHANGED <<asking, alive>>

Ask(w, u) ==
    /\ alive
    /\ asking[w] = NoUri
    /\ asking' = [asking EXCEPT ![w] = u]
    /\ UNCHANGED <<debounceVars, task, uriOf, alive>>

Sleep(w) ==
    /\ asking[w] # NoUri
    /\ WaitSleeps(w, asking[w])
    /\ UNCHANGED taskVars

Rouse(w) == WaitWakes(w) /\ UNCHANGED taskVars

Proceed(w) ==
    /\ asking[w] # NoUri
    /\ WaitReturns(w, asking[w])
    /\ asking' = [asking EXCEPT ![w] = NoUri]
    /\ UNCHANGED <<task, uriOf, alive>>

(* The last strong reference goes: no request and no publishing task holds  *)
(* one; sleeping tasks hold the State weakly.                               *)
DropState ==
    /\ alive
    /\ \A w \in Waiters : asking[w] = NoUri
    /\ \A e \in EditIds : task[e] # "publishing"
    /\ Drop
    /\ alive' = FALSE
    /\ UNCHANGED <<task, uriOf, asking>>

Tick == Elapse /\ UNCHANGED taskVars

TaskStep(e) == Wake(e) \/ Published(e) \/ Stop(e) \/ End(e)
WaiterStep(w) == Sleep(w) \/ Rouse(w) \/ Proceed(w)

Next ==
    \/ \E u \in Uris : Change(u) \/ Flush(u)
    \/ \E e \in EditIds : TaskStep(e)
    \/ \E w \in Waiters : WaiterStep(w)
    \/ \E w \in Waiters, u \in Uris : Ask(w, u)
    \/ Tick
    \/ DropState

(* Tokio polls every woken task, and time passes.                           *)
Fairness ==
    /\ \A e \in EditIds : WF_vars(TaskStep(e))
    /\ \A w \in Waiters : WF_vars(WaiterStep(w))
    /\ WF_vars(Tick)

Spec == Init /\ [][Next]_vars
FairSpec == Spec /\ Fairness

-----------------------------------------------------------------------------

Live(e) == task[e] \in {"sleeping", "publishing"} /\ e \notin cancelled

LiveEditIsPending == \A e \in EditIds : Live(e) => pending[uriOf[e]] = e

PendingIsLive ==
    \A u \in Uris : pending[u] # NoEdit =>
        /\ uriOf[pending[u]] = u
        /\ pending[u] \notin cancelled
        /\ task[pending[u]] \in {"sleeping", "publishing", "finishing"}

(* A live edit is its document's entry in the map, so every document has at *)
(* most one and cancel() reaches it (edit_debounce.rs, schedule, finish);   *)
(* and the map holds no dead edit: an entry is of its document,             *)
(* uncancelled, and its task is still to call finish().  A dead one would   *)
(* make every later request wait for nothing, or never be removed.          *)
MapHoldsLiveEdits == LiveEditIsPending /\ PendingIsLive

(* Nobody sleeps for an edit that was never scheduled or that left the map  *)
(* without a wake-up: a sleeper's edit is the current entry of its          *)
(* document, or is cancelled, or is due.                                    *)
NoLostWakeup ==
    \A w \in Waiters : on[w] # NoEdit =>
        \/ pending[asking[w]] = on[w]
        \/ on[w] \in cancelled
        \/ on[w] <= elapsed

(* A task past its sleep has had its whole quiet period.                    *)
QuietBeforePublishing ==
    \A e \in EditIds : task[e] = "publishing" => e <= elapsed

(* A task never begins to publish an edit that was cancelled before.        *)
NoPublishAfterCancel ==
    [][\A e \in EditIds :
         (task[e] = "sleeping" /\ task'[e] = "publishing") => e \notin cancelled]_vars

(* Every edit's task ends, and the map's entries go with them.              *)
EditsRetire ==
    /\ \A e \in EditIds : task[e] = "sleeping" ~> task[e] = "done"
    /\ \A u \in Uris : pending[u] # NoEdit ~> pending[u] = NoEdit

(* Every waiter returns: edits are bounded, and each wakes its sleepers.    *)
WaitersReturn == \A w \in Waiters : asking[w] # NoUri ~> asking[w] = NoUri

=============================================================================
