-------------------------- MODULE EditTasksProofs ---------------------------
(***************************************************************************)
(* Safety of the debounce and its tasks for any number of documents, edits *)
(* and waiters.                                                            *)
(*                                                                         *)
(* LiveEditIsPending and PendingIsLive support each other (schedule() may  *)
(* cancel only what it displaces because the map is the list of live       *)
(* edits), and need to know in which order tasks come into being and end:  *)
(* that is Bookkeeping.                                                    *)
(***************************************************************************)
EXTENDS EditTasks, TLAPS

Active == {"sleeping", "publishing", "finishing"}

Bookkeeping ==
    /\ elapsed <= issued
    /\ \A e \in EditIds : e > issued <=> task[e] = "none"
    /\ \A e \in cancelled : e <= issued
    /\ \A u \in Uris : pending[u] <= issued
    /\ \A e \in EditIds : task[e] \in Active => uriOf[e] \in Uris
    /\ \A e \in EditIds : task[e] = "finishing" => e \in cancelled \/ e <= elapsed
    /\ ~alive => /\ \A u \in Uris : pending[u] = NoEdit
                 /\ \A e \in EditIds : task[e] # "publishing"
    /\ \A w \in Waiters : on[w] # NoEdit => asking[w] \in Uris

IInv ==
    /\ TypeOK
    /\ Bookkeeping
    /\ LiveEditIsPending
    /\ PendingIsLive
    /\ NoLostWakeup
    /\ QuietBeforePublishing

LEMMA InitEstablishes == Init => IInv
BY MaxEditsAssumption DEF Init, DebounceInit, IInv, TypeOK, DebounceTypeOK, Bookkeeping,
   LiveEditIsPending, Live, PendingIsLive, NoLostWakeup, QuietBeforePublishing,
   EditIds, NoEdit, Active

-----------------------------------------------------------------------------

(* schedule() keeps the map a list of live edits: what it displaces was     *)
(* this document's only live edit, and is cancelled.                        *)
LEMMA ChangePreserves == ASSUME NEW u \in Uris, IInv, Change(u) PROVE IInv'
<1> DEFINE n == issued + 1
<1> USE MaxEditsAssumption DEF EditIds, NoEdit
<1>1. /\ issued < MaxEdits /\ n \in EditIds /\ alive
      /\ issued' = n /\ pending' = [pending EXCEPT ![u] = n]
      /\ cancelled' = cancelled \cup ({pending[u]} \ {0})
      /\ task' = [task EXCEPT ![n] = "sleeping"]
      /\ uriOf' = [uriOf EXCEPT ![n] = u]
      /\ UNCHANGED <<elapsed, on, asking, alive>>
      /\ n \notin cancelled /\ task[n] = "none"
  BY DEF IInv, TypeOK, DebounceTypeOK, Bookkeeping, Change, Schedule
<1>2. TypeOK'
  <2>1. cancelled' \subseteq EditIds
    <3>1. cancelled \subseteq EditIds /\ pending[u] \in 0..MaxEdits
      BY DEF IInv, TypeOK, DebounceTypeOK
    <3>2. ASSUME NEW e \in cancelled' PROVE e \in EditIds
      BY <1>1, <3>1, <3>2
    <3>3. QED
      BY <3>2
  <2>2. pending' \in [Uris -> 0..MaxEdits] /\ issued' \in 0..MaxEdits
    BY <1>1 DEF IInv, TypeOK, DebounceTypeOK
  <2>3. task' \in [EditIds -> {"none", "sleeping", "publishing", "finishing", "done"}]
    BY <1>1 DEF IInv, TypeOK
  <2>4. uriOf' \in [EditIds -> Uris \cup {NoUri}]
    BY <1>1 DEF IInv, TypeOK
  <2>5. QED
    BY <1>1, <2>1, <2>2, <2>3, <2>4 DEF IInv, TypeOK, DebounceTypeOK
<1>3. Bookkeeping'
  BY <1>1 DEF IInv, TypeOK, DebounceTypeOK, Bookkeeping, Active
<1>4. LiveEditIsPending'
  <2> SUFFICES ASSUME NEW e \in EditIds, Live(e)' PROVE (pending[uriOf[e]] = e)'
    BY DEF LiveEditIsPending
  <2>1. CASE e = n
    BY <1>1, <2>1 DEF IInv, TypeOK, DebounceTypeOK
  <2>2. CASE e # n
    <3>1. (Live(e) /\ e # pending[u]) \/ pending[u] = 0
      BY <1>1, <2>2 DEF Live, IInv, TypeOK, DebounceTypeOK
    <3>2. Live(e) /\ uriOf'[e] = uriOf[e] /\ uriOf[e] \in Uris
      BY <1>1, <2>2 DEF Live, IInv, TypeOK, DebounceTypeOK, Bookkeeping, Active
    <3>3. pending[uriOf[e]] = e
      BY <3>2 DEF IInv, LiveEditIsPending
    <3>4. QED
      BY <1>1, <3>1, <3>2, <3>3 DEF IInv, TypeOK, DebounceTypeOK
  <2>3. QED
    BY <2>1, <2>2
<1>5. PendingIsLive'
  <2> SUFFICES ASSUME NEW v \in Uris, pending'[v] # 0
               PROVE  /\ uriOf'[pending'[v]] = v
                      /\ pending'[v] \notin cancelled'
                      /\ task'[pending'[v]] \in Active
    BY DEF PendingIsLive, Active
  <2>1. CASE v = u
    BY <1>1, <2>1 DEF IInv, TypeOK, DebounceTypeOK, Bookkeeping, Active
  <2>2. CASE v # u
    BY <1>1, <2>2 DEF IInv, TypeOK, DebounceTypeOK, Bookkeeping, PendingIsLive, Active
  <2>3. QED
    BY <2>1, <2>2
<1>6. NoLostWakeup'
  BY <1>1 DEF IInv, TypeOK, DebounceTypeOK, Bookkeeping, NoLostWakeup
<1>7. QuietBeforePublishing'
  BY <1>1 DEF IInv, TypeOK, DebounceTypeOK, QuietBeforePublishing
<1>8. QED
  BY <1>2, <1>3, <1>4, <1>5, <1>6, <1>7 DEF IInv

LEMMA FlushPreserves == ASSUME NEW u \in Uris, IInv, Flush(u) PROVE IInv'
<1> USE MaxEditsAssumption DEF EditIds, NoEdit, Flush, Cancel, taskVars, IInv, TypeOK,
        DebounceTypeOK
<1>1. TypeOK'
  <2>1. pending[u] \in 0..MaxEdits /\ pending' \in [Uris -> 0..MaxEdits]
    OBVIOUS
  <2>2. ASSUME NEW e \in cancelled' PROVE e \in EditIds
    BY <2>1, <2>2
  <2>3. QED
    BY <2>1, <2>2
<1>2. Bookkeeping'
  BY DEF Bookkeeping, Active
<1>3. LiveEditIsPending'
  BY DEF LiveEditIsPending, Live, Bookkeeping, Active
<1>4. PendingIsLive'
  BY DEF PendingIsLive
<1>5. NoLostWakeup'
  BY DEF NoLostWakeup, Bookkeeping
<1>6. QuietBeforePublishing'
  BY DEF QuietBeforePublishing
<1>7. QED
  BY <1>1, <1>2, <1>3, <1>4, <1>5, <1>6

(* The steps of a task leave the map alone but for its end, which removes   *)
(* an edit that is no longer live.                                          *)
LEMMA TaskPreserves == ASSUME NEW e \in EditIds, IInv, TaskStep(e) PROVE IInv'
<1> USE MaxEditsAssumption DEF EditIds, NoEdit, debounceVars, IInv, TypeOK, DebounceTypeOK,
        Bookkeeping, LiveEditIsPending, Live, PendingIsLive, NoLostWakeup,
        QuietBeforePublishing, Active
<1>1. CASE Wake(e)
  BY <1>1 DEF Wake
<1>2. CASE Published(e)
  BY <1>2 DEF Published
<1>3. CASE Stop(e)
  BY <1>3 DEF Stop
<1>4. CASE End(e)
  <2>1. /\ task[e] = "finishing" /\ uriOf[e] \in Uris
        /\ task' = [task EXCEPT ![e] = "done"]
        /\ uriOf' = [uriOf EXCEPT ![e] = NoUri]
        /\ pending' = [pending EXCEPT ![uriOf[e]] = IF @ = e THEN 0 ELSE @]
        /\ UNCHANGED <<issued, cancelled, elapsed, on, asking, alive>>
    BY <1>4 DEF End, Finish
  <2>2. TypeOK'
    BY <2>1
  <2>3. Bookkeeping'
    BY <2>1
  <2>4. LiveEditIsPending'
    BY <2>1
  <2>5. PendingIsLive'
    BY <2>1
  <2>6. NoLostWakeup'
    BY <2>1
  <2>7. QuietBeforePublishing'
    BY <2>1
  <2>8. QED
    BY <2>2, <2>3, <2>4, <2>5, <2>6, <2>7
<1>5. QED
  BY <1>1, <1>2, <1>3, <1>4 DEF TaskStep

LEMMA WaiterPreserves ==
    ASSUME NEW w \in Waiters, IInv, WaiterStep(w) \/ \E u \in Uris : Ask(w, u)
    PROVE  IInv'
<1> USE MaxEditsAssumption DEF EditIds, NoEdit, debounceVars, taskVars, IInv, TypeOK,
        DebounceTypeOK, Bookkeeping, LiveEditIsPending, Live, PendingIsLive, NoLostWakeup,
        QuietBeforePublishing, Active
<1>1. CASE Sleep(w)
  BY <1>1 DEF Sleep, WaitSleeps, Quiet
<1>2. CASE Rouse(w)
  BY <1>2 DEF Rouse, WaitWakes
<1>3. CASE Proceed(w)
  BY <1>3 DEF Proceed, WaitReturns
<1>4. ASSUME NEW u \in Uris, Ask(w, u) PROVE IInv'
  BY <1>4, NoUriAssumption DEF Ask
<1>5. QED
  BY <1>1, <1>2, <1>3, <1>4 DEF WaiterStep

LEMMA DropPreserves == ASSUME IInv, DropState PROVE IInv'
<1> USE MaxEditsAssumption DEF EditIds, NoEdit, IInv, TypeOK, DebounceTypeOK, DropState, Drop
<1>1. TypeOK'
  <2>1. pending' \in [Uris -> 0..MaxEdits]
    OBVIOUS
  <2>2. ASSUME NEW e \in cancelled' PROVE e \in EditIds
    <3>1. CASE e \in cancelled
      BY <3>1
    <3>2. CASE e \notin cancelled
      <4>1. PICK u \in Uris : e = pending[u] /\ e # 0
        BY <2>2, <3>2
      <4>2. QED
        BY <4>1
    <3>3. QED
      BY <3>1, <3>2
  <2>3. QED
    BY <2>1, <2>2
<1>2. Bookkeeping'
  BY DEF Bookkeeping, Active
<1>3. LiveEditIsPending'
  BY DEF LiveEditIsPending, Live, Bookkeeping, Active
<1>4. PendingIsLive' /\ QuietBeforePublishing'
  BY DEF PendingIsLive, QuietBeforePublishing
<1>5. NoLostWakeup'
  BY DEF NoLostWakeup, Bookkeeping
<1>6. QED
  BY <1>1, <1>2, <1>3, <1>4, <1>5

LEMMA TickPreserves == ASSUME IInv, Tick PROVE IInv'
BY MaxEditsAssumption DEF EditIds, NoEdit, Tick, Elapse, taskVars, IInv, TypeOK,
   DebounceTypeOK, Bookkeeping, LiveEditIsPending, Live, PendingIsLive, NoLostWakeup,
   QuietBeforePublishing, Active

LEMMA StepPreserves == IInv /\ [Next]_vars => IInv'
<1> SUFFICES ASSUME IInv, [Next]_vars PROVE IInv'
  OBVIOUS
<1>1. CASE UNCHANGED vars
  BY <1>1 DEF vars, debounceVars, taskVars, IInv, TypeOK, DebounceTypeOK, Bookkeeping,
     LiveEditIsPending, Live, PendingIsLive, NoLostWakeup, QuietBeforePublishing
<1>2. CASE Next
  BY <1>2, ChangePreserves, FlushPreserves, TaskPreserves, WaiterPreserves, DropPreserves,
     TickPreserves DEF Next
<1>3. QED
  BY <1>1, <1>2

-----------------------------------------------------------------------------

LEMMA Inductive == Spec => []IInv
BY InitEstablishes, StepPreserves, PTL DEF Spec

(* The variables of the debounce and its tasks keep their types.            *)
THEOREM TypeCorrect == Spec => []TypeOK
BY Inductive, PTL DEF IInv

(* At every moment the map holds exactly the live edits: each document has  *)
(* at most one, cancel() reaches it, and no entry is of a dead edit.        *)
THEOREM MapIsLiveEdits == Spec => []MapHoldsLiveEdits
BY Inductive, PTL DEF IInv, MapHoldsLiveEdits

(* A sleeping request will be woken: its edit is still in the map, or is    *)
(* cancelled, or is due.                                                    *)
THEOREM SleepersAreWoken == Spec => []NoLostWakeup
BY Inductive, PTL DEF IInv

(* No task publishes within the quiet period of its edit.                   *)
THEOREM QuietIsKept == Spec => []QuietBeforePublishing
BY Inductive, PTL DEF IInv

(* A cancelled edit never begins to publish.                                *)
THEOREM CancelledNeverPublish == Spec => NoPublishAfterCancel
<1> DEFINE Begins(e) == task[e] = "sleeping" /\ task'[e] = "publishing"
<1>1. IInv /\ [Next]_vars => [\A e \in EditIds : Begins(e) => e \notin cancelled]_vars
  <2> SUFFICES ASSUME IInv, Next, NEW e \in EditIds, Begins(e) PROVE e \notin cancelled
    BY DEF vars
  <2>1. task' # task
    OBVIOUS
  <2>2. CASE \E u \in Uris : Change(u)
    BY <2>2, MaxEditsAssumption
       DEF Change, Schedule, IInv, TypeOK, DebounceTypeOK, EditIds
  <2>3. CASE \E f \in EditIds : TaskStep(f)
    BY <2>3 DEF TaskStep, Wake, Published, Stop, End, IInv, TypeOK
  <2>4. QED
    BY <2>1, <2>2, <2>3 DEF Next, Flush, WaiterStep, Sleep, Rouse, Proceed, Ask, Tick,
       DropState, taskVars
<1>2. QED
  BY <1>1, Inductive, PTL DEF Spec, NoPublishAfterCancel

=============================================================================
