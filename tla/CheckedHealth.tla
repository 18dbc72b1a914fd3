---------------------------- MODULE CheckedHealth ---------------------------
(***************************************************************************)
(* What the language server promises its client on any runtime.  What a    *)
(* publisher sends it has first found to be of the document as it was, and *)
(* then of the settings as they were; it sends each once, and is free to   *)
(* drop it.  Between those moments anything may happen: edits, closes,     *)
(* other settings, other publishers.                                       *)
(***************************************************************************)
CONSTANTS Uris, Settings, Publishers, Cleared

VARIABLES buffer,   \* each document's text and version, Cleared when not open
          inForce,  \* the settings in force
          hand,     \* what each publisher is about to send, or Cleared
          shown     \* what each document's diagnostics were computed from

vars == <<buffer, inForce, hand, shown>>

Init ==
    /\ buffer = [u \in Uris |-> Cleared]
    /\ inForce \in Settings
    /\ hand = [p \in Publishers |-> Cleared]
    /\ shown = [u \in Uris |-> Cleared]

(* The user opens, edits or closes a document.                              *)
Edit(u) ==
    /\ buffer' = [buffer EXCEPT ![u] = buffer'[u]]
    /\ UNCHANGED <<inForce, hand, shown>>

Configure ==
    /\ inForce' \in Settings
    /\ UNCHANGED <<buffer, hand, shown>>

Take(p, u, s) ==
    /\ hand[p] = Cleared
    /\ buffer[u] # Cleared
    /\ hand' = [hand EXCEPT ![p] = [uri |-> u, text |-> buffer[u].text,
                                    version |-> buffer[u].version,
                                    settings |-> s, stage |-> "found"]]
    /\ UNCHANGED <<buffer, inForce, shown>>

Approve(p) ==
    /\ hand[p] # Cleared /\ hand[p].settings = inForce
    /\ hand' = [hand EXCEPT ![p].stage = "approved"]
    /\ UNCHANGED <<buffer, inForce, shown>>

Drop(p) ==
    /\ hand' = [hand EXCEPT ![p] = Cleared]
    /\ UNCHANGED <<buffer, inForce, shown>>

Show(p) ==
    /\ hand[p] # Cleared /\ hand[p].stage = "approved"
    /\ shown' = [shown EXCEPT ![hand[p].uri] = [text |-> hand[p].text,
                                               version |-> hand[p].version,
                                               settings |-> hand[p].settings]]
    /\ hand' = [hand EXCEPT ![p] = Cleared]
    /\ UNCHANGED <<buffer, inForce>>

Clear(u) ==
    /\ buffer[u] = Cleared
    /\ shown' = [shown EXCEPT ![u] = Cleared]
    /\ UNCHANGED <<buffer, inForce, hand>>

Next ==
    \/ \E u \in Uris : Edit(u) \/ Clear(u)
    \/ \E p \in Publishers, u \in Uris, s \in Settings : Take(p, u, s)
    \/ \E p \in Publishers : Approve(p) \/ Drop(p) \/ Show(p)
    \/ Configure

Spec == Init /\ [][Next]_vars

=============================================================================
