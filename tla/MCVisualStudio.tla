--------------------------- MODULE MCVisualStudio ----------------------------
(***************************************************************************)
(* The Visual Studio client's session, and the commands around its server, *)
(* each on its own: the session has a lifecycle of its own that is as much *)
(* of ServerLifecycle as it sees.  `subject' is chosen at the start.       *)
(***************************************************************************)
EXTENDS MCAnalysisSession, ServerLifecycle

VARIABLE subject

MCRequests == 1 .. 4
allVars == <<vars, lifecycleVars, subject>>

ClientInit == Init /\ LifecycleInit /\ subject \in {"session", "commands"}

ClientNext ==
    /\ UNCHANGED subject
    /\ \/ subject = "session" /\ Next /\ UNCHANGED lifecycleVars
       \/ subject = "commands" /\ LifecycleNext /\ UNCHANGED vars

ClientSpec == ClientInit /\ [][ClientNext]_allVars

=============================================================================
