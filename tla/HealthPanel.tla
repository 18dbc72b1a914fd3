----------------------------- MODULE HealthPanel -----------------------------
(***************************************************************************)
(* The Code Health view of the IntelliJ client: FunctionHealthSession.kt   *)
(* behind FunctionHealthPanel.kt, fed by FileHealthService.kt.             *)
(*                                                                         *)
(* The service is called on the platform's threads, everything else runs   *)
(* on the UI thread (EDT): listeners and coroutines there are atomic, and  *)
(* what the service announces reaches them through `edt'.  A request that  *)
(* is cancelled resumes only to unwind, and a past generation keeps it     *)
(* from storing: `jobs' holds what neither has stopped.                    *)
(*                                                                         *)
(* External: the platform, which tells of a stop before the next start,    *)
(* and the server, which publishes every document it is told of and        *)
(* answers with what it knows at that moment, late, or never.              *)
(***************************************************************************)
EXTENDS Naturals, Sequences

CONSTANTS Uris, NoUri, NoHealth,
          Unsupported,  \* documents the server has no report on
          MaxEvents     \* bound: what the user does, and stops of the server

ASSUME PanelAssumption == NoUri \notin Uris /\ NoHealth \notin Nat

VARIABLES life,           \* the server, as the platform sees it
          registered,     \* LspClientManager has a client
          text,           \* what the server has analysed of each document
          unsent,         \* documents whose summary is on its way
          serverRunning,  \* FileHealthService.serverRunning
          telling,        \* the event the service has yet to hand to the bus
          edt,            \* events waiting for the UI thread
          tabs, selected, \* the editors
          panel,          \* the view: made lazily, closed with its window
          session,        \* FunctionHealthSession
          events

platformVars == <<life, registered, text, unsent>>
serviceVars == <<serverRunning, telling, edt>>
editorVars == <<tabs, selected>>
vars == <<platformVars, serviceVars, editorVars, panel, session, events>>

Silence == [kind |-> "none", uri |-> NoUri]
Published(u) == [kind |-> "published", uri |-> u]
Stopped == [kind |-> "stopped", uri |-> NoUri]
Initialized == [kind |-> "initialized", uri |-> NoUri]
Events == {Published(u) : u \in Uris} \cup {Stopped, Initialized}

(* What a request has come to: nothing yet, an answer or a failure.         *)
Jobs == [uri : Uris, step : {"paused", "asking", "asked", "lost", "answered"},
         got : Nat \cup {NoHealth}, failed : BOOLEAN]
Sessions == [uri : Uris \cup {NoUri}, health : Nat \cup {NoHealth},
             unavailable : BOOLEAN, running : BOOLEAN, jobs : SUBSET Jobs]

TypeOK ==
    /\ life \in {"down", "starting", "up", "dying"}
    /\ registered \in BOOLEAN
    /\ text \in [Uris -> Nat]
    /\ unsent \subseteq Uris
    /\ serverRunning \in BOOLEAN
    /\ telling \in Events \cup {Silence}
    /\ edt \in Seq(Events)
    /\ tabs \subseteq Uris
    /\ selected \in tabs \cup {NoUri}
    /\ panel \in {"absent", "subscribed", "made", "closed"}
    /\ session \in Sessions
    /\ events \in Nat

NewSession == [uri |-> NoUri, health |-> NoHealth, unavailable |-> FALSE,
               running |-> TRUE, jobs |-> {}]

(* serverRunning starts out TRUE, before any server does.                   *)
Init ==
    /\ life = "down" /\ registered = FALSE
    /\ text = [u \in Uris |-> 1]
    /\ unsent = {}
    /\ serverRunning = TRUE /\ telling = Silence /\ edt = <<>>
    /\ tabs = {} /\ selected = NoUri
    /\ panel = "absent"
    /\ session = NewSession
    /\ events = 0

-----------------------------------------------------------------------------
(* FunctionHealthSession.kt *)

Job(uri, debounced) ==
    [uri |-> uri, step |-> IF debounced THEN "paused" ELSE "asking",
     got |-> NoHealth, failed |-> FALSE]

(* Mutant of Refresh: the request under way is left alone.                  *)
RefreshBeside(s, uri, debounced) ==
    IF uri # NoUri /\ s.running THEN [s EXCEPT !.jobs = @ \cup {Job(uri, debounced)}] ELSE s

(* refresh(): whatever was asked before is obsolete, also when nothing is   *)
(* asked in its place.                                                      *)
Refresh(s, uri, debounced) ==
    [s EXCEPT !.jobs = IF uri # NoUri /\ s.running THEN {Job(uri, debounced)} ELSE {}]

Reset(s, uri, unavailable) ==
    Refresh([s EXCEPT !.uri = uri, !.health = NoHealth, !.unavailable = unavailable], uri, FALSE)

Select(s, uri) ==
    IF uri = s.uri THEN s ELSE Reset(s, uri, uri # NoUri /\ ~s.running)

Republished(s, uri) == IF uri = s.uri THEN Refresh(s, uri, TRUE) ELSE s

ServerStopped(s) == Reset([s EXCEPT !.running = FALSE], s.uri, TRUE)

ServerInitialized(s, uri) == Reset([s EXCEPT !.running = TRUE], uri, FALSE)

Advance(j, k) == session' = [session EXCEPT !.jobs = (@ \ {j}) \cup {k}]

(* The quiet second after a publication is over.                            *)
PauseEnds(j) ==
    /\ j.step = "paused"
    /\ Advance(j, [j EXCEPT !.step = "asking"])
    /\ UNCHANGED <<platformVars, serviceVars, editorVars, panel, events>>

(* functionHealth(): without a client the answer is empty.                  *)
Load(j) ==
    /\ j.step = "asking"
    /\ Advance(j, [j EXCEPT !.step = IF registered THEN "asked" ELSE "answered"])
    /\ UNCHANGED <<platformVars, serviceVars, editorVars, panel, events>>

(* The server answers, with nothing for what it does not analyse.           *)
Answer(j) ==
    /\ j.step = "asked"
    /\ life = "up"
    /\ Advance(j, [j EXCEPT !.step = "answered",
                            !.got = IF j.uri \in tabs \ Unsupported THEN text[j.uri]
                                    ELSE NoHealth])
    /\ UNCHANGED <<platformVars, serviceVars, editorVars, panel, events>>

(* Mutant of TimeOut: no ten-second allowance, only load() may throw.       *)
FailOnly(j) ==
    /\ j.step = "lost"
    /\ Advance(j, [j EXCEPT !.step = "answered", !.failed = TRUE])
    /\ UNCHANGED <<platformVars, serviceVars, editorVars, panel, events>>

(* withTimeout runs out, or load() throws.                                  *)
TimeOut(j) ==
    /\ j.step \in {"asked", "lost"}
    /\ Advance(j, [j EXCEPT !.step = "answered", !.failed = TRUE])
    /\ UNCHANGED <<platformVars, serviceVars, editorVars, panel, events>>

(* The job is back on the UI thread.                                        *)
Store(j) ==
    /\ j.step = "answered"
    /\ session' = [session EXCEPT !.jobs = @ \ {j}, !.uri = j.uri,
                                  !.health = j.got, !.unavailable = j.failed]
    /\ UNCHANGED <<platformVars, serviceVars, editorVars, panel, events>>

-----------------------------------------------------------------------------
(* The server and the platform *)

Happens == events < MaxEvents /\ events' = events + 1

(* The server takes in a change of an open document.                        *)
Analyse(u) ==
    /\ Happens
    /\ life = "up"
    /\ u \in tabs
    /\ text' = [text EXCEPT ![u] = @ + 1]
    /\ unsent' = unsent \cup ({u} \ Unsupported)
    /\ UNCHANGED <<life, registered, serviceVars, editorVars, panel, session>>

Start ==
    /\ life = "down"
    /\ life' = "starting"
    /\ registered' = TRUE
    /\ UNCHANGED <<text, unsent, serviceVars, editorVars, panel, session, events>>

(* Whatever was asked of this server is lost with it.                       *)
Die ==
    /\ Happens
    /\ life \in {"starting", "up"}
    /\ life' = "dying"
    /\ unsent' = {}
    /\ \E r \in BOOLEAN : registered' = r
    /\ session' = [session EXCEPT !.jobs =
                     {[j EXCEPT !.step = IF @ = "asked" THEN "lost" ELSE @] : j \in session.jobs}]
    /\ UNCHANGED <<text, serviceVars, editorVars, panel>>

(* FileHealthService.kt: publish(), and reset() on a stop and a start.  The *)
(* flag is written first and announced after.                               *)
Publish(u) ==
    /\ u \in unsent
    /\ telling = Silence
    /\ unsent' = unsent \ {u}
    /\ telling' = Published(u)
    /\ UNCHANGED <<life, registered, text, serverRunning, edt, editorVars, panel, session, events>>

Stops ==
    /\ life = "dying"
    /\ telling = Silence
    /\ life' = "down"
    /\ registered' = FALSE
    /\ serverRunning' = FALSE
    /\ telling' = Stopped
    /\ UNCHANGED <<text, unsent, edt, editorVars, panel, session, events>>

Starts ==
    /\ life = "starting"
    /\ telling = Silence
    /\ life' = "up"
    /\ unsent' = tabs \ Unsupported
    /\ serverRunning' = TRUE
    /\ telling' = Initialized
    /\ UNCHANGED <<registered, text, edt, editorVars, panel, session, events>>

(* syncPublisher: the view, if it has subscribed, posts it to the UI thread.*)
Tell ==
    /\ telling # Silence
    /\ edt' = IF panel \in {"subscribed", "made"} THEN Append(edt, telling) ELSE edt
    /\ telling' = Silence
    /\ UNCHANGED <<platformVars, serverRunning, editorVars, panel, session, events>>

-----------------------------------------------------------------------------
(* FunctionHealthPanel.kt, on the UI thread *)

(* activeDocumentUri(): only a client knows the URI of a file.              *)
DocumentUri(file) == IF registered THEN file ELSE NoUri

Free == panel # "subscribed"

Subscribe ==
    /\ panel = "absent"
    /\ panel' = "subscribed"
    /\ UNCHANGED <<platformVars, serviceVars, editorVars, session, events>>

(* Mutant of Make: the connection's state is not looked at.                 *)
MakeUnaware ==
    /\ panel = "subscribed"
    /\ panel' = "made"
    /\ session' = Select(session, DocumentUri(selected))
    /\ UNCHANGED <<platformVars, serviceVars, editorVars, events>>

(* The rest of the constructor: "a view opened after a stop must not miss   *)
(* that connection state".                                                  *)
Make ==
    /\ panel = "subscribed"
    /\ panel' = "made"
    /\ session' = Select(IF serverRunning THEN session ELSE ServerStopped(session),
                         DocumentUri(selected))
    /\ UNCHANGED <<platformVars, serviceVars, editorVars, events>>

(* The window goes: close(), and what is still posted is ignored.           *)
Close ==
    /\ Happens
    /\ panel = "made"
    /\ panel' = "closed"
    /\ session' = [session EXCEPT !.jobs = {}]
    /\ edt' = <<>>
    /\ UNCHANGED <<platformVars, serverRunning, telling, editorVars>>

(* selectionChanged, which may be the opening of the file.                  *)
SelectFile(u) ==
    /\ Happens
    /\ Free
    /\ u # selected
    /\ selected' = u
    /\ tabs' = tabs \cup ({u} \ {NoUri})
    /\ unsent' = unsent \cup (IF life = "up" THEN {u} \ (tabs \cup Unsupported \cup {NoUri}) ELSE {})
    /\ session' = IF panel = "made" THEN Select(session, DocumentUri(u)) ELSE session
    /\ UNCHANGED <<life, registered, text, serviceVars, panel>>

(* fileClosed: forget() announces on the UI thread, at once, and selects    *)
(* nothing; so does the selection that goes with the file.                  *)
CloseFile(u) ==
    /\ Happens
    /\ Free
    /\ u \in tabs
    /\ tabs' = tabs \ {u}
    /\ selected' = IF selected = u THEN NoUri ELSE selected
    /\ unsent' = unsent \ {u}
    /\ session' = IF panel = "made" /\ selected = u THEN Select(session, NoUri) ELSE session
    /\ UNCHANGED <<life, registered, text, serviceVars, panel>>

(* A posted event has its turn.                                             *)
Handled(e) ==
    CASE e.kind = "published"   -> Republished(session, e.uri)
      [] e.kind = "stopped"     -> ServerStopped(session)
      [] e.kind = "initialized" -> ServerInitialized(session, DocumentUri(selected))

Handle ==
    /\ panel = "made"
    /\ edt # <<>>
    /\ edt' = Tail(edt)
    /\ session' = Handled(Head(edt))
    /\ UNCHANGED <<platformVars, serverRunning, telling, editorVars, panel, events>>

-----------------------------------------------------------------------------

Asks == \E j \in session.jobs : PauseEnds(j) \/ Load(j) \/ TimeOut(j) \/ Store(j)
Answers == \E j \in session.jobs : Answer(j)
Service == Stops \/ Tell \/ \E u \in Uris : Publish(u)
View == Make \/ Handle
Happening ==
    \/ Die \/ Close
    \/ \E u \in Uris : Analyse(u) \/ CloseFile(u)
    \/ \E u \in Uris \cup {NoUri} : SelectFile(u)

Next == Asks \/ Answers \/ Service \/ View \/ Happening \/ Start \/ Starts \/ Subscribe

(* Dispatchers run what is ready, a pause and the ten seconds run out, and  *)
(* the platform tells of what it has seen.  The server may take for ever to *)
(* start, and to answer.                                                    *)
Fairness == WF_vars(Asks) /\ WF_vars(Service) /\ WF_vars(View)

Spec == Init /\ [][Next]_vars
FairSpec == Spec /\ Fairness

-----------------------------------------------------------------------------

ConnectionEvents == {Stopped, Initialized}

(* The view is about the editor in front, or about none while no client     *)
(* knows the file; it has rows only while it believes the server to run;    *)
(* and it believes what the service does, once nothing about the connection *)
(* is on its way to it, whenever it was made.                               *)
PanelFollows ==
    panel = "made" =>
        /\ session.uri \in {selected, NoUri}
        /\ session.health # NoHealth => session.running /\ ~session.unavailable
        /\ telling \notin ConnectionEvents /\ (\A i \in DOMAIN edt : edt[i] \notin ConnectionEvents)
             => session.running = serverRunning

(* Rows are replaced only by rows of a text at least as new: a late answer  *)
(* never overwrites the answer to a later question (FunctionHealthSession's *)
(* generation).                                                             *)
PanelNeverGoesBack ==
    [][session'.uri = session.uri /\ session.health # NoHealth /\ session'.health # NoHealth
         => session'.health >= session.health]_vars

(* When nothing more happens, the view ends up with the functions of the    *)
(* selected document as it is, or says that they are unavailable; without a *)
(* server it shows no rows.                                                 *)
PanelUpToDate ==
    panel = "made" =>
        IF life # "up" THEN session.health = NoHealth
        ELSE /\ session.uri = selected
             /\ \/ session.unavailable
                \/ session.health = IF selected \in tabs \ Unsupported THEN text[selected]
                                    ELSE NoHealth
PanelSettles == <>[]PanelUpToDate

=============================================================================
