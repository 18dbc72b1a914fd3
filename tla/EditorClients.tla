---------------------------- MODULE EditorClients -----------------------------
(***************************************************************************)
(* Three parts of the editor clients that keep what the server said, each  *)
(* on its own: the Code Health view and the gutter hovers of IntelliJ, and *)
(* the view and status bar of VS Code.  Nobody runs two of them against    *)
(* one server here: `client' is chosen at the start, and the others stay   *)
(* as they begin.                                                          *)
(***************************************************************************)
EXTENDS HealthPanel

CONSTANTS HoverUris, Positions, Stamps, Regimes, Ids, None,
          MaxHoverEvents, MaxFetches, MaxTreeEvents

ASSUME HoverAssumption == Stamps # {} /\ Regimes # {} /\ None \notin HoverUris

VARIABLES client,
          stamp, regime, sent, known, clearing, due, entries, workers,
          open, active, lang, inbox, reports, loaded, pending, fetches, asks, failed

Hovers == INSTANCE HealthHoverCache WITH Uris <- HoverUris, MaxEvents <- MaxHoverEvents
Tree == INSTANCE BreakdownTree WITH MaxEvents <- MaxTreeEvents

panelOnly == <<life, registered, serviceVars, editorVars, panel, session>>
hoverOnly == <<stamp, regime, sent, known, clearing, due, entries, workers>>
treeOnly == <<open, active, lang, inbox, reports, loaded, pending, fetches, asks, failed>>
allVars == <<client, vars, hoverOnly, treeOnly>>

InView(A) == client = "view" /\ A /\ UNCHANGED <<client, hoverOnly, treeOnly>>
InGutter(A) ==
    client = "gutter" /\ A /\ UNCHANGED <<client, text, unsent, panelOnly, treeOnly>>
InTree(A) == client = "tree" /\ A /\ UNCHANGED <<client, panelOnly, hoverOnly>>

ClientsInit ==
    /\ client \in {"view", "gutter", "tree"}
    /\ Init /\ Hovers!Init /\ Tree!Init

ClientsNext == InView(Next) \/ InGutter(Hovers!Next) \/ InTree(Tree!Next)

ClientsFairness ==
    /\ WF_allVars(InView(Asks)) /\ WF_allVars(InView(Service)) /\ WF_allVars(InView(View))
    /\ WF_allVars(InGutter(Hovers!WorkerStep)) /\ WF_allVars(InGutter(Hovers!Clear))
    /\ WF_allVars(InGutter(Hovers!Hear))
    /\ \A u \in HoverUris : WF_allVars(InGutter(Hovers!Published(u)))
    /\ WF_allVars(InTree(Tree!Host)) /\ WF_allVars(InTree(Tree!Server))

ClientsSpec == ClientsInit /\ [][ClientsNext]_allVars /\ ClientsFairness

(* Once a document's last change is published, a kept hover is about its    *)
(* text and scored under the settings of now; before that, and after a      *)
(* clear, it was asked for since the settings were sent (HealthHoverCache's *)
(* forget and clear).                                                       *)
HoverIsFresh == Hovers!HoverIsFresh

(* The rows on screen are about the active document (tree.ts, generation).  *)
TreeShowsActive == Tree!TreeShowsActive

(* When nothing more happens, each part ends up with what the server has,   *)
(* or says that it could not be had: no timeout, restart, coalesced or late *)
(* answer leaves one behind, and no hover asked for is left waiting.        *)
ClientsSettle == PanelSettles /\ Hovers!HoversArrive /\ Tree!TreeSettles

=============================================================================
