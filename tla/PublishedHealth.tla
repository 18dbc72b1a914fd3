--------------------------- MODULE PublishedHealth --------------------------
(***************************************************************************)
(* What the language server promises its client: the diagnostics on screen *)
(* are of the document and settings of the moment they appear, and a       *)
(* document that is not open ends up with none.  LanguageServer implements *)
(* this on a single-threaded runtime.                                      *)
(***************************************************************************)
CONSTANTS Uris, Settings, Cleared

VARIABLES buffer,   \* each document's text and version, Cleared when not open
          inForce,  \* the settings in force
          shown     \* what each document's diagnostics were computed from

vars == <<buffer, inForce, shown>>

Init ==
    /\ buffer = [u \in Uris |-> Cleared]
    /\ inForce \in Settings
    /\ shown = [u \in Uris |-> Cleared]

(* The user opens, edits or closes a document.                              *)
Edit(u) ==
    /\ buffer' = [buffer EXCEPT ![u] = buffer'[u]]
    /\ UNCHANGED <<inForce, shown>>

Configure ==
    /\ inForce' \in Settings
    /\ UNCHANGED <<buffer, shown>>

Publish(u) ==
    /\ buffer[u] # Cleared
    /\ shown' = [shown EXCEPT ![u] = [text |-> buffer[u].text,
                                      version |-> buffer[u].version,
                                      settings |-> inForce]]
    /\ UNCHANGED <<buffer, inForce>>

Clear(u) ==
    /\ buffer[u] = Cleared
    /\ shown' = [shown EXCEPT ![u] = Cleared]
    /\ UNCHANGED <<buffer, inForce>>

Next ==
    \/ \E u \in Uris : Edit(u) \/ Publish(u) \/ Clear(u)
    \/ Configure

Spec == Init /\ [][Next]_vars

=============================================================================
