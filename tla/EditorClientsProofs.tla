------------------------- MODULE EditorClientsProofs --------------------------
(***************************************************************************)
(* The editor clients' views and hovers, for any number of documents,      *)
(* positions, requests, workers and events.                                *)
(*                                                                         *)
(* The IntelliJ view: a request that can still store is for the session's  *)
(* own document and was made while the server ran (SessionOk); there is    *)
(* none before the view is made nor after it is closed (Quiet); the last   *)
(* that was announced of the connection, as long as it is on its way to    *)
(* the view, says what the service's flag says (Heard); and there is one   *)
(* request at a time, asked no earlier than the rows in place (Ordered).   *)
(*                                                                         *)
(* Its gutter: an entry is known by an identity no worker of an earlier    *)
(* one has, so that a worker which finds its own entry in the map was      *)
(* answered since the map last lost anything of the document (HoverFits).  *)
(*                                                                         *)
(* The VS Code view: whatever changes the active document starts a new     *)
(* generation, so a request of the current one was made for the document   *)
(* that is still active (Following).                                       *)
(***************************************************************************)
EXTENDS EditorClients, SequenceTheorems, TLAPS

-----------------------------------------------------------------------------
(* The view of IntelliJ.                                                    *)

JobOk(j) ==
    /\ j.step # "answered" => j.got = NoHealth /\ ~j.failed
    /\ j.failed => j.got = NoHealth

SessionOk(s) ==
    /\ s.health # NoHealth => s.running /\ ~s.unavailable
    /\ \A j \in s.jobs : s.running /\ j.uri = s.uri /\ JobOk(j)

Quiet ==
    /\ panel # "made" => session.jobs = {}
    /\ panel \in {"absent", "subscribed"} => session = NewSession
    /\ panel \in {"absent", "closed"} => edt = <<>>

OfSelected == panel = "made" => session.uri \in {selected, NoUri}

Agrees(e, runs) == e \in ConnectionEvents => (e = Initialized <=> runs)
Heard ==
    /\ Agrees(telling, serverRunning)
    /\ telling \notin ConnectionEvents =>
         \A i \in DOMAIN edt :
           (\A k \in DOMAIN edt : k > i => edt[k] \notin ConnectionEvents) => Agrees(edt[i], serverRunning)
    /\ /\ panel = "made"
       /\ telling \notin ConnectionEvents
       /\ \A i \in DOMAIN edt : edt[i] \notin ConnectionEvents
       => session.running = serverRunning

PanelInv == TypeOK /\ SessionOk(session) /\ Quiet /\ OfSelected /\ Heard

-----------------------------------------------------------------------------
(* What the operations of FunctionHealthSession do to a session.            *)

LEMMA RefreshSession ==
    ASSUME NEW s \in Sessions, NEW debounced \in BOOLEAN,
           s.health # NoHealth => s.running /\ ~s.unavailable
    PROVE  LET r == Refresh(s, s.uri, debounced)
           IN  r \in Sessions /\ SessionOk(r) /\ r.uri = s.uri /\ r.running = s.running
<1>. DEFINE r == Refresh(s, s.uri, debounced)
            new == IF s.uri # NoUri /\ s.running THEN {Job(s.uri, debounced)} ELSE {}
<1>1. ASSUME NEW j \in new
      PROVE  j \in Jobs /\ s.running /\ j.uri = s.uri /\ JobOk(j)
  <2>1. j = Job(s.uri, debounced) /\ s.uri # NoUri /\ s.running
    OBVIOUS
  <2>2. s.uri \in Uris
    BY <2>1 DEF Sessions
  <2>3. j \in Jobs /\ j.uri = s.uri /\ j.got = NoHealth /\ j.failed = FALSE
    BY <2>1, <2>2 DEF Job, Jobs
  <2>. QED  BY <2>1, <2>3 DEF JobOk
<1>2. /\ r.jobs = new /\ r.uri = s.uri /\ r.running = s.running /\ r.health = s.health
      /\ r.unavailable = s.unavailable
  BY DEF Refresh, Sessions
<1>3. new \subseteq Jobs
  BY <1>1
<1>4. r \in Sessions
  <2>. HIDE DEF new
  <2>1. \A js \in SUBSET Jobs : [s EXCEPT !.jobs = js] \in Sessions
    BY DEF Sessions
  <2>2. r = [s EXCEPT !.jobs = new]
    BY DEF Refresh, new
  <2>. HIDE DEF r
  <2>. QED  BY <1>3, <2>1, <2>2
<1>. HIDE DEF r, new
<1>5. SessionOk(r)
  BY <1>1, <1>2 DEF SessionOk
<1>. QED  BY <1>2, <1>4, <1>5 DEF r

LEMMA ResetSession ==
    ASSUME NEW s \in Sessions, NEW uri \in Uris \cup {NoUri}, NEW unavailable \in BOOLEAN
    PROVE  LET r == Reset(s, uri, unavailable)
           IN  r \in Sessions /\ SessionOk(r) /\ r.uri = uri /\ r.running = s.running
<1>. DEFINE t == [s EXCEPT !.uri = uri, !.health = NoHealth, !.unavailable = unavailable]
<1>1. t \in Sessions /\ t.uri = uri /\ t.health = NoHealth /\ t.running = s.running
  BY DEF Sessions
<1>2. Reset(s, uri, unavailable) = Refresh(t, t.uri, FALSE)
  BY <1>1 DEF Reset
<1>. HIDE DEF t
<1>. QED  BY <1>1, <1>2, RefreshSession

LEMMA SelectSession ==
    ASSUME NEW s \in Sessions, SessionOk(s), NEW uri \in Uris \cup {NoUri}
    PROVE  LET r == Select(s, uri)
           IN  r \in Sessions /\ SessionOk(r) /\ r.uri = uri /\ r.running = s.running
<1>1. (uri # NoUri /\ ~s.running) \in BOOLEAN
  OBVIOUS
<1>. QED  BY <1>1, ResetSession DEF Select

LEMMA RepublishedSession ==
    ASSUME NEW s \in Sessions, SessionOk(s), NEW uri
    PROVE  LET r == Republished(s, uri)
           IN  r \in Sessions /\ SessionOk(r) /\ r.uri = s.uri /\ r.running = s.running
BY ZenonT(60), RefreshSession DEF Republished, SessionOk

LEMMA StoppedSession ==
    ASSUME NEW s \in Sessions
    PROVE  LET r == ServerStopped(s)
           IN  r \in Sessions /\ SessionOk(r) /\ r.uri = s.uri /\ ~r.running
<1>. DEFINE t == [s EXCEPT !.running = FALSE]
<1>1. t \in Sessions /\ ~t.running /\ s.uri \in Uris \cup {NoUri}
  BY DEF Sessions
<1>2. ServerStopped(s) = Reset(t, s.uri, TRUE)
  BY DEF ServerStopped
<1>. DEFINE r == Reset(t, s.uri, TRUE)
<1>. HIDE DEF t
<1>3. r \in Sessions /\ SessionOk(r) /\ r.uri = s.uri /\ r.running = t.running
  BY <1>1, ResetSession
<1>. HIDE DEF r
<1>. QED  BY <1>1, <1>2, <1>3, Zenon DEF r

LEMMA InitializedSession ==
    ASSUME NEW s \in Sessions, NEW uri \in Uris \cup {NoUri}
    PROVE  LET r == ServerInitialized(s, uri)
           IN  r \in Sessions /\ SessionOk(r) /\ r.uri = uri /\ r.running
<1>. DEFINE t == [s EXCEPT !.running = TRUE]
<1>1. t \in Sessions /\ t.running
  BY DEF Sessions
<1>2. ServerInitialized(s, uri) = Reset(t, uri, FALSE)
  BY DEF ServerInitialized
<1>. DEFINE r == Reset(t, uri, FALSE)
<1>. HIDE DEF t
<1>3. r \in Sessions /\ SessionOk(r) /\ r.uri = uri /\ r.running = t.running
  BY <1>1, ResetSession
<1>. HIDE DEF r
<1>. QED  BY <1>1, <1>2, <1>3, Zenon DEF r

LEMMA NewSessionOk == NewSession \in Sessions /\ SessionOk(NewSession) /\ NewSession.jobs = {}
BY DEF NewSession, Sessions, SessionOk

(* What a request that goes on does to its session.                         *)
LEMMA AdvanceSession ==
    ASSUME TypeOK, SessionOk(session), NEW j \in session.jobs, NEW k \in Jobs,
           k.uri = j.uri, JobOk(k), Advance(j, k)
    PROVE  /\ session' \in Sessions /\ SessionOk(session')
           /\ session'.uri = session.uri /\ session'.running = session.running
<1>. DEFINE js == (session.jobs \ {j}) \cup {k}
<1>1. session \in Sessions /\ js \in SUBSET Jobs
  BY DEF TypeOK, Sessions
<1>2. session' = [session EXCEPT !.jobs = js]
  BY DEF Advance
<1>3. \A i \in js : session.running /\ i.uri = session.uri /\ JobOk(i)
  BY DEF SessionOk
<1>. HIDE DEF js
<1>4. /\ session' \in Sessions /\ session'.jobs = js
      /\ session'.uri = session.uri /\ session'.running = session.running
      /\ session'.health = session.health /\ session'.unavailable = session.unavailable
  BY <1>1, <1>2 DEF Sessions
<1>. QED  BY <1>3, <1>4 DEF SessionOk

(* The steps of a request before it is back on the UI thread.               *)
LEMMA AskingStep ==
    ASSUME TypeOK, SessionOk(session), NEW j \in session.jobs,
           PauseEnds(j) \/ Load(j) \/ TimeOut(j) \/ Answer(j)
    PROVE  /\ session' \in Sessions /\ SessionOk(session')
           /\ session'.uri = session.uri /\ session'.running = session.running
<1>1. j \in Jobs /\ JobOk(j)
  BY DEF TypeOK, Sessions, SessionOk
<1>2. ASSUME NEW step \in {"paused", "asking", "asked", "lost", "answered"}
      PROVE  [j EXCEPT !.step = step] \in Jobs /\ [j EXCEPT !.step = step].uri = j.uri
             /\ [j EXCEPT !.step = step].step = step
             /\ [j EXCEPT !.step = step].got = j.got
             /\ [j EXCEPT !.step = step].failed = j.failed
  BY <1>1 DEF Jobs
<1>3. CASE PauseEnds(j) \/ Load(j)
  <2>1. PICK step \in {"asking", "asked", "answered"} : Advance(j, [j EXCEPT !.step = step])
    BY <1>3 DEF PauseEnds, Load
  <2>2. j.step # "answered"
    BY <1>3 DEF PauseEnds, Load
  <2>3. JobOk([j EXCEPT !.step = step])
    BY <1>1, <1>2, <2>2 DEF JobOk
  <2>. QED  BY <1>2, <2>1, <2>3, AdvanceSession
<1>4. CASE TimeOut(j)
  <2>. DEFINE k == [j EXCEPT !.step = "answered", !.failed = TRUE]
  <2>1. k \in Jobs /\ k.uri = j.uri /\ k.step = "answered" /\ k.got = j.got
    BY <1>1 DEF Jobs
  <2>2. j.got = NoHealth /\ Advance(j, k)
    BY <1>1, <1>4 DEF TimeOut, JobOk
  <2>. HIDE DEF k
  <2>3. JobOk(k)
    BY <2>1, <2>2 DEF JobOk
  <2>. QED  BY <2>1, <2>2, <2>3, AdvanceSession
<1>5. CASE Answer(j)
  <2>. DEFINE got == IF j.uri \in tabs \ Unsupported THEN text[j.uri] ELSE NoHealth
              k == [j EXCEPT !.step = "answered", !.got = got]
  <2>1. got \in Nat \cup {NoHealth}
    BY <1>1 DEF TypeOK, Jobs
  <2>2. ~j.failed /\ Advance(j, k)
    BY <1>1, <1>5 DEF Answer, JobOk
  <2>. HIDE DEF got
  <2>3. k \in Jobs /\ k.uri = j.uri /\ k.step = "answered" /\ k.failed = j.failed
    BY <1>1, <2>1 DEF Jobs
  <2>. HIDE DEF k
  <2>4. JobOk(k)
    BY <2>2, <2>3 DEF JobOk
  <2>. QED  BY <2>2, <2>3, <2>4, AdvanceSession
<1>. QED  BY <1>3, <1>4, <1>5

LEMMA StoreStep ==
    ASSUME TypeOK, SessionOk(session), NEW j \in session.jobs, Store(j)
    PROVE  /\ session' \in Sessions /\ SessionOk(session')
           /\ session'.uri = session.uri /\ session'.running = session.running
<1>. DEFINE js == session.jobs \ {j}
<1>1. session \in Sessions /\ j \in Jobs /\ js \in SUBSET session.jobs
  BY DEF TypeOK, Sessions
<1>2. j.uri = session.uri /\ session.running /\ (j.failed => j.got = NoHealth)
  BY DEF SessionOk, JobOk
<1>3. session' = [session EXCEPT !.jobs = js, !.uri = j.uri, !.health = j.got,
                                 !.unavailable = j.failed]
  BY DEF Store
<1>. HIDE DEF js
<1>4. /\ session' \in Sessions /\ session'.jobs = js /\ session'.uri = j.uri
      /\ session'.health = j.got /\ session'.unavailable = j.failed
      /\ session'.running = session.running
  BY <1>1, <1>3 DEF Sessions, Jobs
<1>. QED  BY <1>1, <1>2, <1>4 DEF SessionOk

LEMMA DieSession ==
    ASSUME TypeOK, SessionOk(session), Die
    PROVE  /\ session' \in Sessions /\ SessionOk(session')
           /\ session'.uri = session.uri /\ session'.running = session.running
<1>. DEFINE lost(j) == [j EXCEPT !.step = IF j.step = "asked" THEN "lost" ELSE j.step]
            js == {lost(j) : j \in session.jobs}
<1>1. session \in Sessions /\ session.jobs \subseteq Jobs
  BY DEF TypeOK, Sessions
<1>2. ASSUME NEW j \in session.jobs
      PROVE  lost(j) \in Jobs /\ lost(j).uri = j.uri /\ JobOk(lost(j))
  <2>1. j \in Jobs /\ JobOk(j)
    BY <1>1 DEF SessionOk
  <2>2. /\ lost(j) \in Jobs /\ lost(j).uri = j.uri /\ lost(j).got = j.got
        /\ lost(j).failed = j.failed
        /\ lost(j).step # "answered" => j.step # "answered"
    BY <2>1 DEF Jobs
  <2>. QED  BY <2>1, <2>2 DEF JobOk
<1>3. session' = [session EXCEPT !.jobs = js]
  BY DEF Die
<1>4. js \in SUBSET Jobs /\ \A k \in js : session.running /\ k.uri = session.uri /\ JobOk(k)
  BY <1>2 DEF SessionOk
<1>. HIDE DEF js
<1>5. /\ session' \in Sessions /\ session'.jobs = js /\ session'.uri = session.uri
      /\ session'.running = session.running /\ session'.health = session.health
      /\ session'.unavailable = session.unavailable
  BY <1>1, <1>3, <1>4 DEF Sessions
<1>. QED  BY <1>4, <1>5 DEF SessionOk

-----------------------------------------------------------------------------
(* The steps that touch the session, on the UI thread.                      *)

LEMMA MakeStep ==
    ASSUME TypeOK, Quiet, Make
    PROVE  /\ session' \in Sessions /\ SessionOk(session')
           /\ session'.uri \in {selected, NoUri} /\ session'.running = serverRunning
<1>. DEFINE s == IF serverRunning THEN session ELSE ServerStopped(session)
<1>1. session = NewSession
  BY DEF Make, Quiet
<1>2. session \in Sessions /\ SessionOk(session) /\ session.running = TRUE
  BY <1>1, NewSessionOk DEF NewSession
<1>3. s \in Sessions /\ SessionOk(s) /\ (s.running <=> serverRunning)
  <2>1. CASE serverRunning
    BY <1>2, <2>1
  <2>2. CASE ~serverRunning
    <3>1. s = ServerStopped(session)
      BY <2>2
    <3>. HIDE DEF s
    <3>. QED  BY <1>2, <2>2, <3>1, StoppedSession
  <2>. QED  BY <2>1, <2>2
<1>4. s.running \in BOOLEAN /\ serverRunning \in BOOLEAN
  BY <1>3 DEF Sessions, TypeOK
<1>5. session' = Select(s, DocumentUri(selected))
  BY DEF Make
<1>6. DocumentUri(selected) \in {selected, NoUri} /\ selected \in Uris \cup {NoUri}
  BY DEF DocumentUri, TypeOK
<1>. HIDE DEF s
<1>. QED  BY <1>3, <1>4, <1>5, <1>6, SelectSession

LEMMA SelectFileStep ==
    ASSUME TypeOK, SessionOk(session), NEW u \in Uris \cup {NoUri}, SelectFile(u)
    PROVE  /\ session' \in Sessions /\ SessionOk(session')
           /\ panel = "made" => session'.uri \in {u, NoUri}
           /\ panel # "made" => session' = session
           /\ session'.running = session.running
<1>1. DocumentUri(u) \in {u, NoUri}
  BY DEF DocumentUri
<1>2. session \in Sessions
  BY DEF TypeOK
<1>. QED  BY <1>1, <1>2, SelectSession DEF SelectFile

LEMMA CloseFileStep ==
    ASSUME TypeOK, SessionOk(session), NEW u \in Uris, CloseFile(u)
    PROVE  /\ session' \in Sessions /\ SessionOk(session')
           /\ IF panel = "made" /\ selected = u THEN session'.uri = NoUri
              ELSE session' = session
           /\ session'.running = session.running
<1>1. session \in Sessions
  BY DEF TypeOK
<1>. QED  BY <1>1, SelectSession DEF CloseFile

LEMMA HandleStep ==
    ASSUME TypeOK, SessionOk(session), OfSelected, Handle
    PROVE  /\ session' \in Sessions /\ SessionOk(session')
           /\ session'.uri \in {selected, NoUri}
           /\ Head(edt) = Stopped => ~session'.running
           /\ Head(edt) = Initialized => session'.running
           /\ Head(edt) \notin ConnectionEvents => session'.running = session.running
<1>. DEFINE e == Head(edt)
<1>1. e \in Events
  BY DEF Handle, TypeOK
<1>2. session \in Sessions /\ session.uri \in {selected, NoUri} /\ session' = Handled(e)
  BY DEF TypeOK, OfSelected, Handle
<1>3. DocumentUri(selected) \in {selected, NoUri} /\ selected \in Uris \cup {NoUri}
  BY DEF DocumentUri, TypeOK
<1>. HIDE DEF e
<1>4. CASE e = Stopped
  <2>1. session' = ServerStopped(session) /\ e # Initialized
    BY <1>2, <1>4 DEF Handled, Stopped, Initialized
  <2>. QED  BY <1>2, <1>4, <2>1, StoppedSession DEF e, ConnectionEvents
<1>5. CASE e = Initialized
  <2>1. session' = ServerInitialized(session, DocumentUri(selected)) /\ e # Stopped
    BY <1>2, <1>5 DEF Handled, Initialized, Stopped
  <2>. QED  BY <1>2, <1>3, <1>5, <2>1, InitializedSession DEF e, ConnectionEvents
<1>6. CASE \E u \in Uris : e = Published(u)
  <2>1. PICK u \in Uris : e = Published(u)
    BY <1>6
  <2>2. session' = Republished(session, u) /\ e # Stopped /\ e # Initialized
    BY <1>2, <2>1 DEF Handled, Published, Initialized, Stopped
  <2>. QED  BY <1>2, <2>2, RepublishedSession DEF e
<1>. QED  BY <1>1, <1>4, <1>5, <1>6 DEF Events

LEMMA CloseStep ==
    ASSUME TypeOK, SessionOk(session), Close
    PROVE  session' \in Sessions /\ SessionOk(session') /\ session'.jobs = {}
<1>1. /\ session' \in Sessions /\ session'.jobs = {} /\ session'.health = session.health
      /\ session'.unavailable = session.unavailable /\ session'.running = session.running
  BY DEF TypeOK, Close, Sessions
<1>. QED  BY <1>1 DEF SessionOk

(* What any step does to the session.                                       *)
LEMMA SessionStep ==
    ASSUME TypeOK, SessionOk(session), Quiet, OfSelected, Next
    PROVE  session' \in Sessions /\ SessionOk(session')
<1>1. session \in Sessions
  BY DEF TypeOK
<1>2. ASSUME UNCHANGED session PROVE session' \in Sessions /\ SessionOk(session')
  BY <1>1, <1>2
<1>3. CASE Asks \/ Answers
  BY <1>3, AskingStep, StoreStep DEF Asks, Answers
<1>4. CASE Service \/ Start \/ Starts \/ Subscribe \/ \E u \in Uris : Analyse(u)
  BY <1>2, <1>4 DEF Service, Start, Starts, Subscribe, Analyse, Stops, Tell, Publish
<1>. QED
  BY <1>3, <1>4, MakeStep, HandleStep, DieSession, CloseStep, SelectFileStep, CloseFileStep
  DEF Next, View, Happening

LEMMA TypedStep ==
    ASSUME TypeOK, SessionOk(session), Quiet, OfSelected, Next
    PROVE  TypeOK'
<1>. USE DEF platformVars, serviceVars, editorVars
<1>1. session' \in Sessions
  BY SessionStep
<1>2. Stopped \in Events /\ Initialized \in Events /\ \A u \in Uris : Published(u) \in Events
  BY DEF Events
<1>. HIDE DEF Sessions
<1>3. CASE UNCHANGED <<platformVars, serviceVars, editorVars, panel, events>>
  BY <1>1, <1>3 DEF TypeOK
<1>4. Happens => events' \in Nat
  BY DEF Happens, TypeOK
<1>5. CASE Die
  BY <1>1, <1>4, <1>5 DEF Die, TypeOK
<1>6. CASE Close
  <2>1. <<>> \in Seq(Events)
    OBVIOUS
  <2>. QED  BY <1>1, <1>4, <1>6, <2>1 DEF Close, TypeOK
<1>7. ASSUME NEW u \in Uris, Analyse(u) PROVE TypeOK'
  <2>1. text' \in [Uris -> Nat]
    BY <1>7 DEF Analyse, TypeOK
  <2>2. events' \in Nat
    BY <1>4, <1>7 DEF Analyse
  <2>3. unsent' \subseteq Uris
    BY <1>7 DEF Analyse, TypeOK
  <2>. QED  BY <1>1, <1>7, <2>1, <2>2, <2>3 DEF Analyse, TypeOK
<1>8. ASSUME NEW u \in Uris, CloseFile(u) PROVE TypeOK'
  <2>1. tabs' \subseteq Uris /\ unsent' \subseteq Uris /\ selected' \in tabs' \cup {NoUri}
    BY <1>8 DEF CloseFile, TypeOK
  <2>2. events' \in Nat
    BY <1>4, <1>8 DEF CloseFile
  <2>. QED  BY <1>1, <1>8, <2>1, <2>2 DEF CloseFile, TypeOK
<1>9. ASSUME NEW u \in Uris \cup {NoUri}, SelectFile(u) PROVE TypeOK'
  <2>1. tabs' \subseteq Uris /\ unsent' \subseteq Uris /\ selected' \in tabs' \cup {NoUri}
    BY <1>9 DEF SelectFile, TypeOK
  <2>2. events' \in Nat
    BY <1>4, <1>9 DEF SelectFile
  <2>. QED  BY <1>1, <1>9, <2>1, <2>2 DEF SelectFile, TypeOK
<1>10. CASE Tell
  <2>1. telling \in Events
    BY <1>10 DEF Tell, TypeOK
  <2>2. edt' \in Seq(Events)
    BY <1>10, <2>1 DEF Tell, TypeOK
  <2>. QED  BY <1>1, <1>10, <2>2 DEF Tell, TypeOK
<1>11. CASE Handle
  <2>1. edt' \in Seq(Events)
    BY <1>11 DEF Handle, TypeOK
  <2>. QED  BY <1>1, <1>11, <2>1 DEF Handle, TypeOK
<1>12. CASE Stops \/ Starts \/ Start \/ Subscribe \/ Make \/ \E u \in Uris : Publish(u)
  BY <1>1, <1>2, <1>12 DEF Stops, Starts, Start, Subscribe, Make, Publish, TypeOK
<1>13. CASE Asks \/ Answers
  BY <1>3, <1>13 DEF Asks, Answers, PauseEnds, Load, TimeOut, Store, Answer
<1>. QED
  BY <1>5, <1>6, <1>7, <1>8, <1>9, <1>10, <1>11, <1>12, <1>13
  DEF Next, Service, View, Happening

LEMMA QuietStep ==
    ASSUME TypeOK, Quiet, Next
    PROVE  Quiet'
<1>. USE DEF Quiet, platformVars, serviceVars, editorVars
<1>1. CASE UNCHANGED <<panel, session, edt>>
  BY <1>1
<1>2. CASE Asks \/ Answers
  <2>1. session.jobs # {} /\ panel = "made"
    BY <1>2 DEF Asks, Answers
  <2>2. panel' = panel
    BY <1>2 DEF Asks, Answers, PauseEnds, Load, TimeOut, Store, Answer
  <2>. QED  BY <2>1, <2>2
<1>3. CASE Die
  <2>1. UNCHANGED <<panel, edt>>
    BY <1>3 DEF Die
  <2>2. ASSUME session.jobs = {}, session \in Sessions PROVE session' = session
    BY <1>3, <2>2 DEF Die, Sessions
  <2>3. session \in Sessions
    BY DEF TypeOK
  <2>4. CASE panel = "made"
    BY <2>1, <2>4
  <2>5. CASE panel # "made"
    BY <2>1, <2>2, <2>3, <2>5
  <2>. QED  BY <2>4, <2>5
<1>4. CASE Close
  BY <1>4, CloseStep DEF Close, TypeOK, Sessions
<1>5. CASE Make \/ Handle
  BY <1>5 DEF Make, Handle
<1>6. CASE Tell
  BY <1>6 DEF Tell
<1>7. CASE Subscribe
  BY <1>7 DEF Subscribe
<1>8. ASSUME NEW u \in Uris \cup {NoUri}, SelectFile(u) PROVE Quiet'
  BY <1>8 DEF SelectFile
<1>9. ASSUME NEW u \in Uris, CloseFile(u) PROVE Quiet'
  BY <1>9 DEF CloseFile
<1>. QED
  BY <1>1, <1>2, <1>3, <1>4, <1>5, <1>6, <1>7, <1>8, <1>9
  DEF Next, Service, View, Happening, Start, Starts, Stops, Publish, Analyse

LEMMA SelectedStep ==
    ASSUME TypeOK, SessionOk(session), Quiet, OfSelected, Next
    PROVE  OfSelected'
<1>. USE DEF OfSelected, editorVars
<1>1. CASE panel' = panel /\ selected' = selected /\ session'.uri = session.uri
  BY <1>1
<1>2. CASE Asks \/ Answers
  <2>1. session'.uri = session.uri
    BY <1>2, AskingStep, StoreStep DEF Asks, Answers
  <2>2. panel' = panel /\ selected' = selected
    BY <1>2 DEF Asks, Answers, PauseEnds, Load, TimeOut, Store, Answer
  <2>. QED  BY <2>1, <2>2
<1>3. CASE Die
  BY <1>1, <1>3, DieSession DEF Die
<1>4. CASE Close \/ Subscribe
  BY <1>4 DEF Close, Subscribe
<1>5. CASE Make
  BY <1>5, MakeStep DEF Make
<1>6. CASE Handle
  BY <1>6, HandleStep DEF Handle
<1>7. ASSUME NEW u \in Uris \cup {NoUri}, SelectFile(u) PROVE OfSelected'
  BY <1>7, SelectFileStep DEF SelectFile
<1>8. ASSUME NEW u \in Uris, CloseFile(u) PROVE OfSelected'
  BY <1>8, CloseFileStep DEF CloseFile
<1>. QED
  BY <1>1, <1>2, <1>3, <1>4, <1>5, <1>6, <1>7, <1>8
  DEF Next, Service, View, Happening, Start, Starts, Stops, Publish, Tell, Analyse

(* A step that neither announces, posts nor handles an event, and leaves    *)
(* what the view believes, hears of nothing.                                *)
LEMMA HeardStep ==
    ASSUME TypeOK, SessionOk(session), Quiet, OfSelected, Heard, Next
    PROVE  Heard'
<1>. USE DEF platformVars, serviceVars, editorVars
<1>0. /\ Silence \notin ConnectionEvents
      /\ \A u \in Uris : Published(u) \notin ConnectionEvents
      /\ Stopped # Initialized /\ Stopped \in ConnectionEvents
      /\ Initialized \in ConnectionEvents
  BY DEF Silence, Published, Stopped, Initialized, ConnectionEvents
<1>1. CASE UNCHANGED <<serviceVars, panel>> /\ session'.running = session.running
  BY <1>1 DEF Heard, Agrees
<1>2. CASE Asks \/ Answers
  <2>1. session'.running = session.running
    BY <1>2, AskingStep, StoreStep DEF Asks, Answers
  <2>2. UNCHANGED <<serviceVars, panel>>
    BY <1>2 DEF Asks, Answers, PauseEnds, Load, TimeOut, Store, Answer
  <2>. QED  BY <1>1, <2>1, <2>2
<1>3. CASE Die
  BY <1>1, <1>3, DieSession DEF Die
<1>4. CASE Start \/ \E u \in Uris : Analyse(u)
  BY <1>1, <1>4 DEF Start, Analyse
<1>5. ASSUME NEW u \in Uris \cup {NoUri}, SelectFile(u) PROVE Heard'
  BY <1>1, <1>5, SelectFileStep DEF SelectFile
<1>6. ASSUME NEW u \in Uris, CloseFile(u) PROVE Heard'
  BY <1>1, <1>6, CloseFileStep DEF CloseFile
<1>7. ASSUME NEW u \in Uris, Publish(u) PROVE Heard'
  BY <1>0, <1>7 DEF Publish, Heard, Agrees
<1>8. CASE Stops
  <2>1. telling' \in ConnectionEvents /\ Agrees(telling', serverRunning')
    BY <1>0, <1>8 DEF Stops, Agrees
  <2>. QED  BY <2>1 DEF Heard
<1>9. CASE Starts
  <2>1. telling' \in ConnectionEvents /\ Agrees(telling', serverRunning')
    BY <1>0, <1>9 DEF Starts, Agrees
  <2>. QED  BY <2>1 DEF Heard
<1>10. CASE Subscribe \/ Close
  <2>1. edt' = <<>> /\ panel' # "made" /\ telling' = telling /\ serverRunning' = serverRunning
    BY <1>10 DEF Subscribe, Close, Quiet
  <2>. QED  BY <2>1 DEF Heard, Agrees
<1>11. CASE Make
  <2>1. panel' = "made" /\ UNCHANGED <<serviceVars>> /\ session'.running = serverRunning
    BY <1>11, MakeStep DEF Make
  <2>. QED  BY <2>1 DEF Heard, Agrees
<1>12. CASE Tell
  <2>1. telling' \notin ConnectionEvents /\ UNCHANGED <<serverRunning, panel, session>>
    BY <1>0, <1>12 DEF Tell
  <2>2. CASE panel \in {"subscribed", "made"}
    <3>. DEFINE n == Len(edt)
    <3>1. edt' = Append(edt, telling) /\ edt \in Seq(Events) /\ telling \in Events
      BY <1>12, <2>2 DEF Tell, TypeOK
    <3>2. /\ n \in Nat /\ DOMAIN edt = 1..n /\ DOMAIN edt' = 1..(n + 1)
          /\ edt'[n + 1] = telling /\ \A i \in 1..n : edt'[i] = edt[i]
      BY <3>1
    <3>3. ASSUME NEW i \in DOMAIN edt',
                 \A k \in DOMAIN edt' : k > i => edt'[k] \notin ConnectionEvents
          PROVE  Agrees(edt'[i], serverRunning)
      <4>1. CASE i = n + 1
        BY <2>1, <3>2, <4>1 DEF Heard, Agrees
      <4>2. CASE i \in 1..n
        <5>1. telling \notin ConnectionEvents
          BY <3>2, <3>3, <4>2
        <5>2. \A k \in DOMAIN edt : k > i => edt[k] \notin ConnectionEvents
          BY <3>2, <3>3
        <5>. QED  BY <2>1, <3>2, <4>2, <5>1, <5>2 DEF Heard, Agrees
      <4>. QED  BY <3>2, <4>1, <4>2
    <3>4. ASSUME panel = "made", \A i \in DOMAIN edt' : edt'[i] \notin ConnectionEvents
          PROVE  session.running = serverRunning
      <4>1. telling \notin ConnectionEvents
        BY <3>2, <3>4
      <4>2. \A i \in DOMAIN edt : edt[i] \notin ConnectionEvents
        BY <3>2, <3>4
      <4>. QED  BY <3>4, <4>1, <4>2 DEF Heard
    <3>. QED  BY <2>1, <3>3, <3>4 DEF Heard, Agrees
  <2>3. CASE panel \notin {"subscribed", "made"}
    <3>1. edt' = <<>>
      BY <1>12, <2>3 DEF Tell, Quiet, TypeOK
    <3>. QED  BY <2>1, <2>3, <3>1 DEF Heard, Agrees
  <2>. QED  BY <2>2, <2>3
<1>13. CASE Handle
  <2>. DEFINE n == Len(edt)
  <2>1. /\ UNCHANGED <<serverRunning, telling, panel>> /\ panel = "made"
        /\ edt' = Tail(edt) /\ edt # <<>> /\ edt \in Seq(Events)
    BY <1>13 DEF Handle, TypeOK
  <2>2. /\ n \in Nat /\ n >= 1 /\ DOMAIN edt = 1..n /\ DOMAIN edt' = 1..(n - 1)
        /\ Head(edt) = edt[1] /\ \A i \in 1..(n - 1) : edt'[i] = edt[i + 1]
    BY <2>1
  <2>3. ASSUME NEW i \in DOMAIN edt', telling \notin ConnectionEvents,
               \A k \in DOMAIN edt' : k > i => edt'[k] \notin ConnectionEvents
        PROVE  Agrees(edt'[i], serverRunning)
    <3>1. ASSUME NEW k \in DOMAIN edt, k > i + 1
          PROVE  edt[k] \notin ConnectionEvents
      <4>1. k - 1 \in DOMAIN edt' /\ k - 1 > i /\ edt'[k - 1] = edt[k]
        BY <2>2, <3>1
      <4>. QED  BY <2>3, <4>1
    <3>2. i + 1 \in DOMAIN edt /\ edt'[i] = edt[i + 1]
      BY <2>2
    <3>3. Agrees(edt[i + 1], serverRunning)
      BY <2>3, <3>1, <3>2 DEF Heard
    <3>. QED  BY <2>1, <3>2, <3>3 DEF Agrees
  <2>4. ASSUME telling \notin ConnectionEvents,
               \A i \in DOMAIN edt' : edt'[i] \notin ConnectionEvents
        PROVE  session'.running = serverRunning
    <3>1. ASSUME NEW k \in DOMAIN edt, k > 1
          PROVE  edt[k] \notin ConnectionEvents
      <4>1. k - 1 \in DOMAIN edt' /\ edt'[k - 1] = edt[k]
        BY <2>2, <3>1
      <4>. QED  BY <2>4, <4>1
    <3>2. 1 \in DOMAIN edt
      BY <2>2
    <3>3. Agrees(Head(edt), serverRunning)
      BY <2>2, <2>4, <3>1, <3>2 DEF Heard
    <3>4. session'.running \in BOOLEAN /\ serverRunning \in BOOLEAN
      BY SessionStep DEF Sessions, TypeOK
    <3>5. CASE Head(edt) \in ConnectionEvents
      BY <1>0, <1>13, <3>3, <3>4, <3>5, HandleStep DEF Agrees, ConnectionEvents
    <3>6. CASE Head(edt) \notin ConnectionEvents
      <4>1. \A i \in DOMAIN edt : edt[i] \notin ConnectionEvents
        BY <2>2, <3>1, <3>6
      <4>. QED  BY <1>13, <2>1, <2>4, <3>6, <4>1, HandleStep DEF Heard
    <3>. QED  BY <3>5, <3>6
  <2>5. Agrees(telling', serverRunning')
    BY <2>1 DEF Heard, Agrees
  <2>. QED  BY <2>1, <2>3, <2>4, <2>5 DEF Heard
<1>. QED
  BY <1>2, <1>3, <1>4, <1>5, <1>6, <1>7, <1>8, <1>9, <1>10, <1>11, <1>12, <1>13
  DEF Next, Service, View, Happening

LEMMA PanelInitial ==
    ASSUME Init
    PROVE  PanelInv /\ panel = "absent" /\ session = NewSession
<1>1. /\ <<>> \in Seq(Events) /\ [u \in Uris |-> 1] \in [Uris -> Nat] /\ 0 \in Nat
      /\ Silence \notin ConnectionEvents /\ DOMAIN <<>> = {}
  BY DEF Silence, ConnectionEvents, Stopped, Initialized
<1>2. TypeOK
  BY <1>1, NewSessionOk, Zenon DEF Init, TypeOK
<1>3. SessionOk(session) /\ Quiet /\ OfSelected
  BY NewSessionOk DEF Init, Quiet, OfSelected
<1>4. Heard
  BY <1>1 DEF Init, Heard, Agrees
<1>. QED  BY <1>2, <1>3, <1>4 DEF PanelInv, Init

LEMMA PanelNext ==
    ASSUME PanelInv, [Next]_vars
    PROVE  PanelInv'
<1>1. CASE Next
  BY <1>1, SessionStep, TypedStep, QuietStep, SelectedStep, HeardStep DEF PanelInv, SessionOk
<1>2. CASE UNCHANGED vars
  BY <1>2 DEF vars, platformVars, serviceVars, editorVars, PanelInv, TypeOK, SessionOk,
              Quiet, OfSelected, Heard, Agrees
<1>. QED  BY <1>1, <1>2

LEMMA PanelTells ==
    ASSUME PanelInv
    PROVE  PanelFollows
BY DEF PanelInv, SessionOk, OfSelected, Heard, PanelFollows


-----------------------------------------------------------------------------
(* The rows of the view never get older.  The session has at most one       *)
(* request under way, for its own document, so that what an answer says is  *)
(* at least as new as the rows in place.                                    *)

Single(jobs) == \A j, k \in jobs : j = k
Ordered ==
    /\ Single(session.jobs)
    /\ session.health # NoHealth =>
         session.uri \in Uris /\ session.health <= text[session.uri]
    /\ \A j \in session.jobs : j.got # NoHealth =>
         /\ j.got <= text[j.uri]
         /\ session.health # NoHealth => session.health <= j.got

(* A session that has asked afresh, and has at most the rows it had.        *)
Fresh(r) == Single(r.jobs) /\ \A j \in r.jobs : j.got = NoHealth
Renewed(r, s) ==
    r = s \/ (Fresh(r) /\ (r.health = NoHealth \/ (r.health = s.health /\ r.uri = s.uri)))

LEMMA RefreshRenews ==
    ASSUME NEW s \in Sessions, NEW uri, NEW debounced \in BOOLEAN
    PROVE  LET r == Refresh(s, uri, debounced)
           IN  Fresh(r) /\ r.health = s.health /\ r.uri = s.uri
<1>. DEFINE new == IF uri # NoUri /\ s.running THEN {Job(uri, debounced)} ELSE {}
<1>1. Single(new) /\ \A j \in new : j.got = NoHealth
  <2>1. \A j \in new : j = Job(uri, debounced)
    OBVIOUS
  <2>2. Job(uri, debounced).got = NoHealth
    BY DEF Job
  <2>. HIDE DEF new
  <2>. QED  BY <2>1, <2>2 DEF Single
<1>2. Refresh(s, uri, debounced) = [s EXCEPT !.jobs = new]
  BY DEF Refresh
<1>. HIDE DEF new
<1>. QED  BY <1>1, <1>2 DEF Fresh, Sessions

LEMMA ResetRenews ==
    ASSUME NEW s \in Sessions, NEW uri \in Uris \cup {NoUri}, NEW unavailable \in BOOLEAN
    PROVE  LET r == Reset(s, uri, unavailable)
           IN  Fresh(r) /\ r.health = NoHealth
<1>. DEFINE t == [s EXCEPT !.uri = uri, !.health = NoHealth, !.unavailable = unavailable]
<1>1. t \in Sessions /\ t.health = NoHealth /\ Reset(s, uri, unavailable) = Refresh(t, uri, FALSE)
  BY DEF Sessions, Reset
<1>. HIDE DEF t
<1>. DEFINE r == Refresh(t, uri, FALSE)
<1>2. FALSE \in BOOLEAN
  OBVIOUS
<1>3. Fresh(r) /\ r.health = t.health
  BY <1>1, <1>2, RefreshRenews
<1>. HIDE DEF r
<1>. QED  BY <1>1, <1>3 DEF r

LEMMA SelectRenews ==
    ASSUME NEW s \in Sessions, NEW uri \in Uris \cup {NoUri}
    PROVE  Renewed(Select(s, uri), s)
<1>1. (uri # NoUri /\ ~s.running) \in BOOLEAN
  OBVIOUS
<1>. QED  BY <1>1, ResetRenews DEF Select, Renewed

LEMMA StoppedRenews ==
    ASSUME NEW s \in Sessions
    PROVE  LET r == ServerStopped(s) IN  Fresh(r) /\ r.health = NoHealth
<1>. DEFINE t == [s EXCEPT !.running = FALSE]
<1>1. t \in Sessions /\ s.uri \in Uris \cup {NoUri} /\ ServerStopped(s) = Reset(t, s.uri, TRUE)
  BY DEF Sessions, ServerStopped
<1>. HIDE DEF t
<1>. QED  BY <1>1, ResetRenews

LEMMA InitializedRenews ==
    ASSUME NEW s \in Sessions, NEW uri \in Uris \cup {NoUri}
    PROVE  LET r == ServerInitialized(s, uri) IN  Fresh(r) /\ r.health = NoHealth
<1>. DEFINE t == [s EXCEPT !.running = TRUE]
<1>1. t \in Sessions /\ ServerInitialized(s, uri) = Reset(t, uri, FALSE)
  BY DEF Sessions, ServerInitialized
<1>. HIDE DEF t
<1>. QED  BY <1>1, ResetRenews

LEMMA MakeRenews ==
    ASSUME PanelInv, Make
    PROVE  Renewed(session', session)
<1>. DEFINE s == IF serverRunning THEN session ELSE ServerStopped(session)
<1>1. session = NewSession /\ session \in Sessions
  BY NewSessionOk DEF PanelInv, Make, Quiet
<1>2. s \in Sessions /\ (s = session \/ (Fresh(s) /\ s.health = NoHealth))
  BY <1>1, StoppedSession, StoppedRenews
<1>3. session' = Select(s, DocumentUri(selected)) /\ DocumentUri(selected) \in Uris \cup {NoUri}
  BY DEF Make, DocumentUri, PanelInv, TypeOK
<1>. HIDE DEF s
<1>4. Renewed(Select(s, DocumentUri(selected)), s)
  BY <1>2, <1>3, SelectRenews
<1>5. session.health = NoHealth
  BY <1>1 DEF NewSession
<1>. QED  BY <1>2, <1>3, <1>4, <1>5 DEF Renewed

LEMMA HandleRenews ==
    ASSUME PanelInv, Handle
    PROVE  Renewed(session', session)
<1>. DEFINE e == Head(edt)
<1>1. /\ session \in Sessions /\ session' = Handled(e) /\ e \in Events
      /\ DocumentUri(selected) \in Uris \cup {NoUri}
  BY DEF PanelInv, TypeOK, Handle, DocumentUri
<1>. HIDE DEF e
<1>2. CASE e = Stopped
  <2>1. session' = ServerStopped(session)
    BY <1>1, <1>2 DEF Handled, Stopped
  <2>. QED  BY <1>1, <2>1, StoppedRenews DEF Renewed
<1>3. CASE e = Initialized
  <2>1. session' = ServerInitialized(session, DocumentUri(selected))
    BY <1>1, <1>3 DEF Handled, Initialized
  <2>. QED  BY <1>1, <2>1, InitializedRenews DEF Renewed
<1>4. CASE \E u \in Uris : e = Published(u)
  <2>1. PICK u \in Uris : e = Published(u)
    BY <1>4
  <2>2. session' = Republished(session, u)
    BY <1>1, <2>1 DEF Handled, Published
  <2>. DEFINE r == Refresh(session, u, TRUE)
  <2>3. TRUE \in BOOLEAN
    OBVIOUS
  <2>4. Fresh(r) /\ r.health = session.health /\ r.uri = session.uri
    BY <1>1, <2>3, RefreshRenews
  <2>5. session' \in {r, session}
    BY <2>2 DEF Republished
  <2>. HIDE DEF r
  <2>. QED  BY <2>4, <2>5 DEF Renewed
<1>. QED  BY <1>1, <1>2, <1>3, <1>4 DEF Events

(* What a step may do to the session.                                       *)
Advances(j, k) ==
    /\ Advance(j, k)
    /\ k.uri = j.uri /\ k.got \in {j.got, NoHealth, text[j.uri]}

LEMMA AskingAdvances ==
    ASSUME PanelInv, NEW j \in session.jobs,
           PauseEnds(j) \/ Load(j) \/ TimeOut(j) \/ Answer(j)
    PROVE  \E k \in Jobs : Advances(j, k)
<1>1. j \in Jobs
  BY DEF PanelInv, TypeOK, Sessions
<1>2. CASE PauseEnds(j) \/ Load(j)
  <2>1. PICK step \in {"asking", "asked", "answered"} : Advance(j, [j EXCEPT !.step = step])
    BY <1>2 DEF PauseEnds, Load
  <2>2. [j EXCEPT !.step = step] \in Jobs /\ [j EXCEPT !.step = step].uri = j.uri
        /\ [j EXCEPT !.step = step].got = j.got
    BY <1>1, <2>1 DEF Jobs
  <2>. QED  BY <2>1, <2>2 DEF Advances
<1>3. CASE TimeOut(j)
  <2>1. /\ [j EXCEPT !.step = "answered", !.failed = TRUE] \in Jobs
        /\ [j EXCEPT !.step = "answered", !.failed = TRUE].uri = j.uri
        /\ [j EXCEPT !.step = "answered", !.failed = TRUE].got = j.got
    BY <1>1 DEF Jobs
  <2>. QED  BY <1>3, <2>1 DEF Advances, TimeOut
<1>4. CASE Answer(j)
  <2>. DEFINE got == IF j.uri \in tabs \ Unsupported THEN text[j.uri] ELSE NoHealth
              k == [j EXCEPT !.step = "answered", !.got = got]
  <2>1. got \in Nat \cup {NoHealth} /\ got \in {NoHealth, text[j.uri]}
    BY <1>1 DEF PanelInv, TypeOK, Jobs
  <2>2. Advance(j, k)
    BY <1>4 DEF Answer
  <2>. HIDE DEF got
  <2>3. k \in Jobs /\ k.uri = j.uri /\ k.got = got
    BY <1>1, <2>1 DEF Jobs
  <2>. HIDE DEF k
  <2>. QED  BY <2>1, <2>2, <2>3 DEF Advances
<1>. QED  BY <1>2, <1>3, <1>4

LEMMA SessionMoves ==
    ASSUME PanelInv, [Next]_vars
    PROVE  \/ Renewed(session', session)
           \/ \E j \in session.jobs, k \in Jobs : Advances(j, k)
           \/ \E j \in session.jobs : Store(j)
           \/ Die
<1>0. session \in Sessions
  BY DEF PanelInv, TypeOK
<1>1. CASE Asks \/ Answers
  BY <1>1, AskingAdvances DEF Asks, Answers
<1>2. CASE View
  BY <1>2, MakeRenews, HandleRenews DEF View
<1>3. ASSUME NEW u \in Uris \cup {NoUri}, SelectFile(u)
      PROVE  Renewed(session', session)
  BY <1>0, <1>3, SelectRenews DEF SelectFile, DocumentUri, Renewed
<1>4. ASSUME NEW u \in Uris, CloseFile(u)
      PROVE  Renewed(session', session)
  BY <1>0, <1>4, SelectRenews DEF CloseFile, Renewed
<1>5. CASE Close
  <2>1. session' = [session EXCEPT !.jobs = {}]
    BY <1>5 DEF Close
  <2>. QED  BY <1>0, <2>1 DEF Sessions, Renewed, Fresh, Single
<1>6. CASE UNCHANGED session
  BY <1>6 DEF Renewed
<1>. QED
  BY <1>1, <1>2, <1>3, <1>4, <1>5, <1>6
  DEF Next, Service, Happening, Stops, Tell, Publish, Analyse, Start, Starts, Subscribe, vars

LEMMA TextGrows ==
    ASSUME PanelInv, [Next]_vars
    PROVE  \A u \in Uris : text[u] \in Nat /\ text'[u] \in Nat /\ text[u] <= text'[u]
<1>0. text \in [Uris -> Nat]
  BY DEF PanelInv, TypeOK
<1>1. ASSUME NEW u \in Uris, Analyse(u)
      PROVE  \A v \in Uris : text'[v] \in Nat /\ text[v] <= text'[v]
  BY <1>0, <1>1 DEF Analyse
<1>2. ASSUME UNCHANGED text
      PROVE  \A v \in Uris : text'[v] \in Nat /\ text[v] <= text'[v]
  BY <1>0, <1>2
<1>. QED
  BY <1>0, <1>1, <1>2
  DEF Next, Asks, Answers, Service, View, Happening, PauseEnds, Load, TimeOut, Store, Answer,
      Stops, Tell, Publish, Make, Handle, Die, Close, CloseFile, SelectFile, Start, Starts,
      Subscribe, vars, platformVars

NoOlder ==
    session'.uri = session.uri /\ session.health # NoHealth /\ session'.health # NoHealth
      => session'.health >= session.health

LEMMA OrderedNext ==
    ASSUME PanelInv, Ordered, [Next]_vars
    PROVE  Ordered' /\ NoOlder
<1>0. /\ session \in Sessions /\ session.jobs \subseteq Jobs
      /\ \A j \in session.jobs : j.uri \in Uris /\ j.uri = session.uri /\ j.got \in Nat \cup {NoHealth}
      /\ session.health \in Nat \cup {NoHealth} /\ NoHealth \notin Nat
  BY PanelAssumption DEF PanelInv, TypeOK, Sessions, Jobs, SessionOk
<1>1. \A u \in Uris : text[u] \in Nat /\ text'[u] \in Nat /\ text[u] <= text'[u]
  BY TextGrows
<1>2. CASE Renewed(session', session)
  <2>1. CASE session' = session
    BY <1>0, <1>1, <2>1 DEF Ordered, NoOlder
  <2>2. CASE session' # session
    <3>1. /\ Fresh(session')
          /\ session'.health = NoHealth \/ (session'.health = session.health /\ session'.uri = session.uri)
      BY <1>2, <2>2 DEF Renewed
    <3>. QED  BY <1>0, <1>1, <3>1 DEF Ordered, NoOlder, Fresh
  <2>. QED  BY <2>1, <2>2
<1>3. ASSUME NEW j \in session.jobs, NEW k \in Jobs, Advances(j, k)
      PROVE  Ordered' /\ NoOlder
  <2>. DEFINE js == (session.jobs \ {j}) \cup {k}
  <2>1. js = {k}
    BY DEF Ordered, Single
  <2>2. session' = [session EXCEPT !.jobs = js]
    BY <1>3 DEF Advances, Advance
  <2>. HIDE DEF js
  <2>3. /\ session'.jobs = {k} /\ session'.uri = session.uri /\ session'.health = session.health
        /\ k.uri = j.uri /\ k.got \in {j.got, NoHealth, text[j.uri]}
    BY <1>0, <1>3, <2>1, <2>2 DEF Sessions, Advances
  <2>4. k.got # NoHealth => k.got <= text'[k.uri] /\ (session.health # NoHealth => session.health <= k.got)
    BY <1>0, <1>1, <2>3 DEF Ordered
  <2>. QED  BY <1>0, <1>1, <2>3, <2>4 DEF Ordered, Single, NoOlder
<1>4. ASSUME NEW j \in session.jobs, Store(j)
      PROVE  Ordered' /\ NoOlder
  <2>. DEFINE js == session.jobs \ {j}
  <2>1. js = {}
    BY DEF Ordered, Single
  <2>2. session' = [session EXCEPT !.jobs = js, !.uri = j.uri, !.health = j.got,
                                   !.unavailable = j.failed]
    BY <1>4 DEF Store
  <2>. HIDE DEF js
  <2>3. session'.jobs = {} /\ session'.uri = j.uri /\ session'.health = j.got
    BY <1>0, <2>1, <2>2 DEF Sessions
  <2>. QED  BY <1>0, <1>1, <2>3 DEF Ordered, Single, NoOlder
<1>5. CASE Die
  <2>. DEFINE lost(j) == [j EXCEPT !.step = IF j.step = "asked" THEN "lost" ELSE j.step]
              js == {lost(j) : j \in session.jobs}
  <2>1. \A j \in session.jobs : lost(j).uri = j.uri /\ lost(j).got = j.got
    BY <1>0 DEF Jobs
  <2>2. session' = [session EXCEPT !.jobs = js]
    BY <1>5 DEF Die
  <2>3. Single(js) /\ \A k \in js : \E j \in session.jobs : k.uri = j.uri /\ k.got = j.got
    BY <2>1 DEF Ordered, Single
  <2>. HIDE DEF js
  <2>4. session'.jobs = js /\ session'.uri = session.uri /\ session'.health = session.health
    BY <1>0, <2>2 DEF Sessions
  <2>. QED  BY <1>0, <1>1, <2>3, <2>4 DEF Ordered, NoOlder
<1>. QED  BY <1>2, <1>3, <1>4, <1>5, SessionMoves

-----------------------------------------------------------------------------
(* The view of VS Code.                                                     *)

Following ==
    /\ Tree!TreeShowsActive
    /\ \A f \in fetches : /\ f.current => f.uri = Tree!ActiveUri
                          /\ f.got # None => f.got.uri = f.uri

TreeInv == Tree!TypeOK /\ Following

-----------------------------------------------------------------------------

LEMMA ActiveIsOpen ==
    ASSUME Tree!TypeOK
    PROVE  Tree!ActiveUri # NoUri => Tree!ActiveUri \in Uris /\ Tree!ActiveUri \in open
BY DEF Tree!TypeOK, Tree!ActiveUri, Tree!Analyzable

(* A new generation follows whatever is active by then.                     *)
LEMMA InvalidateFollows ==
    ASSUME Tree!TypeOK, Following, Tree!Invalidate
    PROVE  /\ Following'
           /\ loaded' \in Tree!Rows \cup {None} /\ fetches' \subseteq Tree!Fetches
           /\ asks' \in BOOLEAN /\ failed' \in BOOLEAN
<1>1. loaded' = None /\ asks' = TRUE /\ failed' = FALSE
  BY DEF Tree!Invalidate
<1>2. \A g \in fetches' : \E f \in fetches :
        /\ g = [f EXCEPT !.current = FALSE] /\ f \in Tree!Fetches
  BY DEF Tree!Invalidate, Tree!TypeOK
<1>3. ASSUME NEW g \in fetches'
      PROVE  g \in Tree!Fetches /\ ~g.current /\ (g.got # None => g.got.uri = g.uri)
  <2>1. PICK f \in fetches : g = [f EXCEPT !.current = FALSE] /\ f \in Tree!Fetches
    BY <1>2
  <2>2. g \in Tree!Fetches /\ g.current = FALSE /\ g.got = f.got /\ g.uri = f.uri
    BY <2>1 DEF Tree!Fetches
  <2>3. f.got # None => f.got.uri = f.uri
    BY DEF Following
  <2>. QED  BY <2>2, <2>3
<1>. QED  BY <1>1, <1>3 DEF Following, Tree!TreeShowsActive

(* What asking for the rows does to the requests.                           *)
LEMMA GetChildrenFollows ==
    ASSUME Tree!TypeOK, Following, Tree!GetChildren, UNCHANGED <<loaded, active, lang>>
    PROVE  Following' /\ fetches' \subseteq Tree!Fetches
<1>1. Tree!ActiveUri' = Tree!ActiveUri
  BY DEF Tree!ActiveUri, Tree!Analyzable
<1>2. CASE UNCHANGED fetches
  BY <1>1, <1>2 DEF Following, Tree!TreeShowsActive, Tree!TypeOK
<1>3. CASE ~UNCHANGED fetches
  <2>. DEFINE f == [uri |-> Tree!ActiveUri, current |-> TRUE, step |-> "asked",
                    got |-> None, failed |-> FALSE]
  <2>1. fetches' = fetches \cup {f} /\ Tree!ActiveUri # NoUri
    BY <1>3 DEF Tree!GetChildren
  <2>2. f \in Tree!Fetches /\ f.uri = Tree!ActiveUri /\ f.got = None
    BY <2>1, ActiveIsOpen DEF Tree!Fetches
  <2>. HIDE DEF f
  <2>. QED  BY <1>1, <2>1, <2>2 DEF Following, Tree!TreeShowsActive, Tree!TypeOK
<1>. QED  BY <1>2, <1>3

LEMMA TreeTypedStep ==
    ASSUME Tree!TypeOK, Following, Tree!Next
    PROVE  Tree!TypeOK'
<1>. USE DEF Tree!TypeOK, Tree!editorVars, Tree!serverVars
<1>1. CASE Tree!Timer
  BY <1>1, InvalidateFollows DEF Tree!Timer
<1>2. CASE Tree!Ask
  BY <1>2, GetChildrenFollows DEF Tree!Ask
<1>3. CASE Tree!FileHealth
  <2>1. inbox # <<>> /\ inbox' = Tail(inbox) /\ Head(inbox) \in Tree!Rows /\ inbox' \in Seq(Tree!Rows)
    BY <1>3, HeadTailProperties DEF Tree!FileHealth
  <2>2. reports' \in [Uris -> Nat \cup {None}]
    BY <1>3, <2>1 DEF Tree!FileHealth, Tree!Rows
  <2>3. pending' \in BOOLEAN
    BY <1>3 DEF Tree!FileHealth, Tree!OnFileHealth
  <2>. QED  BY <1>3, <2>1, <2>2, <2>3 DEF Tree!FileHealth
<1>4. ASSUME NEW f \in fetches, Tree!Resume(f) PROVE Tree!TypeOK'
  BY <1>4 DEF Tree!Resume, Tree!Fetches
<1>5. ASSUME NEW u \in Uris, Tree!Send(u) PROVE Tree!TypeOK'
  <2>1. [uri |-> u, text |-> text[u]] \in Tree!Rows
    BY DEF Tree!Rows
  <2>. QED  BY <1>5, <2>1, AppendProperties DEF Tree!Send, Tree!treeVars
<1>6. ASSUME NEW f \in fetches, Tree!Answer(f) PROVE Tree!TypeOK'
  <2>. DEFINE got == IF f.uri \in open /\ lang[f.uri]
                     THEN [uri |-> f.uri, text |-> text[f.uri]] ELSE None
  <2>1. got \in Tree!Rows \cup {None} /\ f \in Tree!Fetches
    BY DEF Tree!Fetches, Tree!Rows
  <2>2. fetches' = (fetches \ {f}) \cup {[f EXCEPT !.step = "answered", !.got = got]}
    BY <1>6 DEF Tree!Answer
  <2>. HIDE DEF got
  <2>3. [f EXCEPT !.step = "answered", !.got = got] \in Tree!Fetches
    BY <2>1 DEF Tree!Fetches
  <2>. QED  BY <1>6, <2>2, <2>3 DEF Tree!Answer
<1>7. CASE Tree!AskUnasked
  BY <1>7, GetChildrenFollows DEF Tree!AskUnasked, Tree!Happens
<1>8. CASE Tree!Restart
  <2>1. \A f \in fetches : [f EXCEPT !.step = "answered",
                                    !.failed = f.failed \/ f.step = "asked"] \in Tree!Fetches
    <3>1. \A f \in Tree!Fetches, b \in BOOLEAN :
            [f EXCEPT !.step = "answered", !.failed = b] \in Tree!Fetches
      BY DEF Tree!Fetches
    <3>2. \A f \in fetches : f \in Tree!Fetches /\ (f.failed \/ f.step = "asked") \in BOOLEAN
      BY DEF Tree!Fetches
    <3>. QED  BY <3>1, <3>2
  <2>2. fetches' \subseteq Tree!Fetches
    BY <1>8, <2>1 DEF Tree!Restart
  <2>3. <<>> \in Seq(Tree!Rows)
    OBVIOUS
  <2>4. unsent' \subseteq Uris
    BY <1>8 DEF Tree!Restart
  <2>5. Tree!Happens
    BY <1>8 DEF Tree!Restart
  <2>6. events' \in Nat
    BY <2>5 DEF Tree!Happens
  <2>. QED  BY <1>8, <2>2, <2>3, <2>4, <2>6 DEF Tree!Restart
<1>9. ASSUME NEW u \in Uris, Tree!Analyse(u) PROVE Tree!TypeOK'
  BY <1>9 DEF Tree!Analyse, Tree!Happens, Tree!treeVars
<1>10. ASSUME NEW u \in Uris, Tree!CloseDocument(u) PROVE Tree!TypeOK'
  <2>1. loaded' \in Tree!Rows \cup {None} /\ fetches' \subseteq Tree!Fetches
        /\ asks' \in BOOLEAN /\ failed' \in BOOLEAN /\ pending' \in BOOLEAN
    BY <1>10, InvalidateFollows DEF Tree!CloseDocument, Tree!Refresh
  <2>. QED  BY <1>10, <2>1 DEF Tree!CloseDocument, Tree!Happens
<1>11. ASSUME NEW u \in Uris, Tree!ChangeLanguage(u) PROVE Tree!TypeOK'
  <2>1. loaded' \in Tree!Rows \cup {None} /\ fetches' \subseteq Tree!Fetches
        /\ asks' \in BOOLEAN /\ failed' \in BOOLEAN /\ pending' \in BOOLEAN
    BY <1>11, InvalidateFollows DEF Tree!ChangeLanguage, Tree!Refresh
  <2>2. lang' \in [Uris -> BOOLEAN] /\ reports' \in [Uris -> Nat \cup {None}]
    BY <1>11 DEF Tree!ChangeLanguage
  <2>. QED  BY <1>11, <2>1, <2>2 DEF Tree!ChangeLanguage, Tree!Happens
<1>12. ASSUME NEW u \in Uris \cup {NoUri}, Tree!Activate(u) PROVE Tree!TypeOK'
  <2>1. loaded' \in Tree!Rows \cup {None} /\ fetches' \subseteq Tree!Fetches
        /\ asks' \in BOOLEAN /\ failed' \in BOOLEAN /\ pending' \in BOOLEAN
    BY <1>12, InvalidateFollows DEF Tree!Activate, Tree!Refresh
  <2>2. open' \subseteq Uris /\ active' \in open' \cup {NoUri} /\ unsent' \subseteq Uris
    BY <1>12 DEF Tree!Activate
  <2>. QED  BY <1>12, <2>1, <2>2 DEF Tree!Activate, Tree!Happens
<1>13. ASSUME NEW f \in fetches, Tree!Fail(f) PROVE Tree!TypeOK'
  <2>1. [f EXCEPT !.step = "answered", !.failed = TRUE] \in Tree!Fetches
    BY DEF Tree!Fetches
  <2>2. events' \in Nat
    BY <1>13 DEF Tree!Fail, Tree!Happens
  <2>. QED  BY <1>13, <2>1, <2>2 DEF Tree!Fail
<1>. QED
  BY <1>1, <1>2, <1>3, <1>4, <1>5, <1>6, <1>7, <1>8, <1>9, <1>10, <1>11, <1>12, <1>13
  DEF Tree!Next, Tree!Host, Tree!Server, Tree!Happening

LEMMA FollowingStep ==
    ASSUME Tree!TypeOK, Following, Tree!Next
    PROVE  Following'
<1>. USE DEF Tree!TypeOK, Tree!editorVars
<1>1. CASE Tree!Timer
  BY <1>1, InvalidateFollows DEF Tree!Timer
<1>2. CASE Tree!Ask
  BY <1>2, GetChildrenFollows DEF Tree!Ask
<1>3. CASE UNCHANGED <<active, lang, loaded, fetches>>
  BY <1>3 DEF Following, Tree!TreeShowsActive, Tree!ActiveUri, Tree!Analyzable
<1>4. ASSUME NEW f \in fetches, Tree!Resume(f) PROVE Following'
  <2>1. Tree!ActiveUri' = Tree!ActiveUri
    BY <1>4 DEF Tree!Resume, Tree!ActiveUri, Tree!Analyzable
  <2>2. fetches' \subseteq fetches
    BY <1>4 DEF Tree!Resume
  <2>3. loaded' # None => loaded'.uri = Tree!ActiveUri
    BY <1>4 DEF Tree!Resume, Following, Tree!TreeShowsActive
  <2>. QED  BY <2>1, <2>2, <2>3 DEF Following, Tree!TreeShowsActive
<1>5. ASSUME NEW f \in fetches, NEW g, g.uri = f.uri, g.current = f.current,
             g.got # None => g.got.uri = g.uri,
             fetches' = (fetches \ {f}) \cup {g}, UNCHANGED <<active, lang, loaded>>
      PROVE  Following'
  BY <1>5 DEF Following, Tree!TreeShowsActive, Tree!ActiveUri, Tree!Analyzable
<1>6. ASSUME NEW f \in fetches, Tree!Answer(f) PROVE Following'
  <2>. DEFINE g == [f EXCEPT !.step = "answered",
                             !.got = IF f.uri \in open /\ lang[f.uri]
                                     THEN [uri |-> f.uri, text |-> text[f.uri]] ELSE None]
  <2>1. g.uri = f.uri /\ g.current = f.current /\ (g.got # None => g.got.uri = g.uri)
    BY DEF Tree!Fetches
  <2>2. fetches' = (fetches \ {f}) \cup {g} /\ UNCHANGED <<active, lang, loaded>>
    BY <1>6 DEF Tree!Answer
  <2>. HIDE DEF g
  <2>. QED  BY <1>5, <2>1, <2>2
<1>7. CASE Tree!AskUnasked
  BY <1>7, GetChildrenFollows DEF Tree!AskUnasked
<1>8. CASE Tree!Restart
  <2>1. \A g \in fetches' : \E f \in fetches :
          g.uri = f.uri /\ g.current = f.current /\ g.got = f.got
    BY <1>8 DEF Tree!Restart, Tree!Fetches
  <2>2. loaded' = loaded /\ Tree!ActiveUri' = Tree!ActiveUri
    BY <1>8 DEF Tree!Restart, Tree!ActiveUri, Tree!Analyzable
  <2>. QED  BY <2>1, <2>2 DEF Following, Tree!TreeShowsActive
<1>9. ASSUME Tree!Refresh PROVE Following'
  BY <1>9, InvalidateFollows DEF Tree!Refresh
<1>10. ASSUME NEW f \in fetches, Tree!Fail(f) PROVE Following'
  <2>. DEFINE g == [f EXCEPT !.step = "answered", !.failed = TRUE]
  <2>1. g.uri = f.uri /\ g.current = f.current /\ (g.got # None => g.got.uri = g.uri)
    BY DEF Tree!Fetches, Following
  <2>2. fetches' = (fetches \ {f}) \cup {g} /\ UNCHANGED <<active, lang, loaded>>
    BY <1>10 DEF Tree!Fail
  <2>. HIDE DEF g
  <2>. QED  BY <1>5, <2>1, <2>2
<1>. QED
  BY <1>1, <1>2, <1>3, <1>4, <1>6, <1>7, <1>8, <1>9, <1>10
  DEF Tree!Next, Tree!Host, Tree!Server, Tree!Happening, Tree!FileHealth, Tree!Send,
      Tree!Analyse, Tree!treeVars, Tree!serverVars,
      Tree!CloseDocument, Tree!ChangeLanguage, Tree!Activate

LEMMA TreeInitial ==
    ASSUME Tree!Init
    PROVE  TreeInv /\ loaded = None
<1>1. /\ <<>> \in Seq(Tree!Rows)
      /\ [u \in Uris |-> TRUE] \in [Uris -> BOOLEAN]
      /\ [u \in Uris |-> 1] \in [Uris -> Nat]
      /\ [u \in Uris |-> None] \in [Uris -> Nat \cup {None}]
      /\ 0 \in Nat
  OBVIOUS
<1>2. Tree!TypeOK
  BY <1>1, Zenon DEF Tree!Init, Tree!TypeOK
<1>3. Following /\ loaded = None
  BY DEF Tree!Init, Following, Tree!TreeShowsActive
<1>. QED  BY <1>2, <1>3 DEF TreeInv

LEMMA TreeNext ==
    ASSUME TreeInv, [Tree!Next]_(Tree!vars)
    PROVE  TreeInv'
<1>1. CASE Tree!Next
  BY <1>1, TreeTypedStep, FollowingStep DEF TreeInv
<1>2. CASE UNCHANGED Tree!vars
  BY <1>2 DEF Tree!vars, Tree!editorVars, Tree!serverVars, Tree!treeVars, TreeInv, Tree!TypeOK,
              Following, Tree!TreeShowsActive, Tree!ActiveUri, Tree!Analyzable
<1>. QED  BY <1>1, <1>2


-----------------------------------------------------------------------------
(* The gutter hovers.  What is kept, or was answered to a worker whose      *)
(* entry is still in the map, is about the text and settings of now, unless *)
(* these have changed and the publication is still to come.                 *)

Values == [asked : Regimes \cup {None}, regime : Regimes \cup {None}, text : Stamps \cup {None}]
EntryOk(e) ==
    e \in [id : Ids, stamp : Stamps, running : BOOLEAN, pending : {e.pending},
           values : [Positions -> Values \cup {None}]]
WorkerOk(w) ==
    w \in [id : Ids, uri : HoverUris, step : {"turn", "asked", "begun", "answered", "loaded"},
           at : {w.at}, got : Values]

HoverTyped ==
    /\ stamp \in [HoverUris -> Stamps] /\ regime \in Regimes
    /\ entries = [u \in HoverUris |-> entries[u]]
    /\ \A u \in HoverUris : entries[u] # None => EntryOk(entries[u])
    /\ \A w \in workers : WorkerOk(w)

FitsNow(u, value) ==
    /\ ~clearing => value.asked = regime
    /\ u \notin due => value.regime = regime /\ value.text = stamp[u]
KeptFits(u) == \A p \in Positions : entries[u].values[p] # None => FitsNow(u, entries[u].values[p])
WorkerFits(w) ==
    /\ w.step # "turn" /\ ~clearing => w.got.asked = regime
    /\ w.step \notin {"turn", "asked"} /\ w.uri \notin due => w.got.regime = regime
    /\ w.step \in {"answered", "loaded"} /\ w.uri \notin due => w.got.text = stamp[w.uri]

HoverFits ==
    /\ \A u \in HoverUris : entries[u] # None => KeptFits(u)
    /\ \A w \in workers : Hovers!Current(w) => WorkerFits(w)

KeptInv == HoverTyped /\ HoverFits

(* What the server has heard of, and has yet to hear of: for each document, *)
(* and for the settings (None), the last change on its way is to what is    *)
(* now; and nothing is on its way of a document that is not due.            *)
Changes == [of : {None}, to : Regimes] \cup [of : HoverUris, to : Stamps]
KnownTyped ==
    /\ stamp \in [HoverUris -> Stamps] /\ regime \in Regimes
    /\ sent \in Seq(Changes)
    /\ known \in [text : [HoverUris -> Stamps], regime : Regimes]

Now(x) == IF x = None THEN regime ELSE stamp[x]
Known(x) == IF x = None THEN known.regime ELSE known.text[x]
IsLast(i, x) == sent[i].of = x /\ \A j \in DOMAIN sent : j > i => sent[j].of # x
Comes(x) ==
    IF \E i \in DOMAIN sent : sent[i].of = x
    THEN \E i \in DOMAIN sent : IsLast(i, x) /\ sent[i].to = Now(x)
    ELSE Known(x) = Now(x)

KnownInv ==
    /\ KnownTyped
    /\ \A x \in HoverUris \cup {None} : Comes(x)
    /\ \A u \in HoverUris : u \notin due => \A i \in DOMAIN sent : sent[i].of \notin {u, None}

LEMMA KnownIsNow ==
    ASSUME KnownInv, NEW u \in HoverUris, u \notin due
    PROVE  known.regime = regime /\ known.text[u] = stamp[u]
<1>1. Comes(None) /\ Comes(u) /\ u # None
  BY HoverAssumption DEF KnownInv
<1>2. \A i \in DOMAIN sent : sent[i].of # u /\ sent[i].of # None
  BY DEF KnownInv
<1>. QED  BY <1>1, <1>2 DEF Comes, Known, Now

LEMMA HoverInitial ==
    ASSUME Hovers!Init
    PROVE  KeptInv /\ KnownInv
<1>1. KeptInv
  BY HoverAssumption DEF Hovers!Init, KeptInv, HoverTyped, HoverFits
<1>2. KnownTyped /\ sent = <<>> /\ known = [text |-> stamp, regime |-> regime]
  BY <1>1 DEF Hovers!Init, KnownTyped, KeptInv, HoverTyped
<1>3. DOMAIN sent = {}
  BY <1>2
<1>. QED  BY <1>1, <1>2, <1>3 DEF KnownInv, Comes, Known, Now

(* A change is sent behind all others.                                      *)
LEMMA ChangeIsSent ==
    ASSUME KnownInv, NEW x \in HoverUris \cup {None}, NEW to, [of |-> x, to |-> to] \in Changes,
           Hovers!Sends(x, to), known' = known, KnownTyped',
           Now(x)' = to, \A y \in HoverUris \cup {None} : y # x => Now(y)' = Now(y),
           \A u \in HoverUris : u \notin due' => u \notin due /\ x \notin {u, None}
    PROVE  KnownInv'
<1>1. /\ sent \in Seq(Changes) /\ Len(sent) \in Nat /\ DOMAIN sent = 1..Len(sent)
      /\ sent' = Append(sent, [of |-> x, to |-> to])
  BY DEF KnownInv, KnownTyped, Hovers!Sends
<1>2. /\ DOMAIN sent' = 1..(Len(sent) + 1)
      /\ sent'[Len(sent) + 1] = [of |-> x, to |-> to]
      /\ \A i \in DOMAIN sent : i \in DOMAIN sent' /\ sent'[i] = sent[i]
      /\ \A i \in DOMAIN sent' : i \in DOMAIN sent \/ i = Len(sent) + 1
  BY <1>1
<1>0. PICK n \in Nat : n = Len(sent) + 1
  BY <1>1
<1>3. /\ n \in Nat /\ n \in DOMAIN sent' /\ sent'[n].of = x /\ sent'[n].to = to
      /\ \A i \in DOMAIN sent : i < n
  BY <1>0, <1>1, <1>2
<1>4. Comes(x)'
  <2>1. IsLast(n, x)'
    BY <1>0, <1>1, <1>2, <1>3 DEF IsLast
  <2>. QED  BY <1>3, <2>1 DEF Comes
<1>5. ASSUME NEW y \in HoverUris \cup {None}, y # x PROVE Comes(y)'
  <2>1. Comes(y) /\ Known(y)' = Known(y) /\ Now(y)' = Now(y)
    BY <1>5 DEF KnownInv, Known
  <2>2. CASE \E i \in DOMAIN sent : sent[i].of = y
    <3>1. PICK i \in DOMAIN sent : IsLast(i, y) /\ sent[i].to = Now(y)
      BY <2>1, <2>2 DEF Comes
    <3>2. IsLast(i, y)'
      BY <1>0, <1>2, <1>3, <1>5, <3>1 DEF IsLast
    <3>. QED  BY <1>2, <2>1, <3>1, <3>2 DEF Comes, IsLast
  <2>3. CASE ~\E i \in DOMAIN sent : sent[i].of = y
    BY <1>0, <1>2, <1>3, <1>5, <2>1, <2>3 DEF Comes
  <2>. QED  BY <2>2, <2>3
<1>6. ASSUME NEW u \in HoverUris, u \notin due', NEW i \in DOMAIN sent'
      PROVE  sent'[i].of \notin {u, None}
  BY <1>0, <1>2, <1>3, <1>6 DEF KnownInv
<1>. QED  BY <1>4, <1>5, <1>6 DEF KnownInv

(* The server hears of the first.                                           *)
LEMMA ChangeIsHeard ==
    ASSUME KnownInv, Hovers!Hear
    PROVE  KnownInv'
<1>1. /\ KnownTyped /\ sent # <<>> /\ sent' = Tail(sent) /\ UNCHANGED <<stamp, regime, due>>
      /\ known' = IF Head(sent).of = None THEN [known EXCEPT !.regime = Head(sent).to]
                                          ELSE [known EXCEPT !.text[Head(sent).of] = Head(sent).to]
  BY DEF KnownInv, Hovers!Hear
<1>2. /\ Len(sent) \in Nat /\ Len(sent) > 0 /\ DOMAIN sent = 1..Len(sent)
      /\ Head(sent) = sent[1] /\ sent[1] \in Changes /\ sent' \in Seq(Changes)
      /\ DOMAIN sent' = 1..(Len(sent) - 1)
      /\ \A i \in DOMAIN sent' : i + 1 \in DOMAIN sent /\ sent'[i] = sent[i + 1]
  BY <1>1 DEF KnownTyped
<1>3. /\ \A i \in DOMAIN sent : i \in Nat /\ (i = 1 \/ (i > 1 /\ i - 1 \in DOMAIN sent' /\ sent'[i - 1] = sent[i]))
      /\ \A i \in DOMAIN sent' : i \in Nat /\ i > 0 /\ i + 1 \in DOMAIN sent /\ sent'[i] = sent[i + 1]
  BY <1>2
<1>4. KnownTyped'
  <2>1. sent[1].of = None => sent[1].to \in Regimes
    BY <1>2, HoverAssumption DEF Changes
  <2>2. sent[1].of # None => sent[1].of \in HoverUris /\ sent[1].to \in Stamps
    BY <1>2 DEF Changes
  <2>. QED  BY <1>1, <1>2, <2>1, <2>2 DEF KnownTyped
<1>5. ASSUME NEW x \in HoverUris \cup {None} PROVE Comes(x)'
  <2>1. Comes(x) /\ Now(x)' = Now(x)
    BY <1>1 DEF KnownInv, Now
  <2>2. Known(x)' = IF sent[1].of = x THEN sent[1].to ELSE Known(x)
    <3>1. sent[1].of \in HoverUris \cup {None}
      BY <1>2 DEF Changes
    <3>. QED  BY <1>1, <1>2, <3>1, HoverAssumption DEF Known, KnownTyped
  <2>3. CASE ~\E i \in DOMAIN sent : sent[i].of = x
    <3>1. ~\E i \in DOMAIN sent' : sent'[i].of = x
      BY <1>3, <2>3
    <3>2. Known(x)' = Now(x)'
      BY <1>2, <2>1, <2>2, <2>3 DEF Comes
    <3>. QED  BY <3>1, <3>2 DEF Comes
  <2>4. CASE \E i \in DOMAIN sent : sent[i].of = x
    <3>1. PICK i \in DOMAIN sent : IsLast(i, x) /\ sent[i].to = Now(x)
      BY <2>1, <2>4 DEF Comes
    <3>2. CASE i = 1
      <4>1. ~\E j \in DOMAIN sent' : sent'[j].of = x
        <5>1. ASSUME NEW j \in DOMAIN sent' PROVE sent'[j].of # x
          <6>1. j + 1 \in DOMAIN sent /\ sent'[j] = sent[j + 1] /\ j + 1 > 1
            BY <1>3
          <6>. QED  BY <3>1, <3>2, <6>1 DEF IsLast
        <5>. QED  BY <5>1
      <4>. QED  BY <2>1, <2>2, <3>1, <3>2, <4>1 DEF Comes, IsLast
    <3>3. CASE i # 1
      <4>1. i - 1 \in DOMAIN sent' /\ sent'[i - 1] = sent[i]
        BY <1>3, <3>3
      <4>2. IsLast(i - 1, x)'
        BY <1>3, <3>1, <4>1 DEF IsLast
      <4>. QED  BY <2>1, <3>1, <4>1, <4>2 DEF Comes, IsLast
    <3>. QED  BY <3>2, <3>3
  <2>. QED  BY <2>3, <2>4
<1>6. ASSUME NEW u \in HoverUris, u \notin due', NEW i \in DOMAIN sent'
      PROVE  sent'[i].of \notin {u, None}
  BY <1>1, <1>3, <1>6 DEF KnownInv
<1>. QED  BY <1>4, <1>5, <1>6 DEF KnownInv

LEMMA KnownNext ==
    ASSUME KnownInv, [Hovers!Next]_(Hovers!vars)
    PROVE  KnownInv'
<1>. USE DEF Hovers!documentVars
<1>1. ASSUME UNCHANGED <<stamp, regime, sent, known>>,
             \A u \in HoverUris : u \notin due' =>
                 u \notin due \/ \A i \in DOMAIN sent : sent[i].of \notin {u, None}
      PROVE  KnownInv'
  BY <1>1 DEF KnownInv, KnownTyped, Comes, Known, Now, IsLast
<1>2. CASE \/ Hovers!WorkerStep \/ \E w \in workers : Hovers!Fail(w)
           \/ \E u \in HoverUris, p \in Positions : Hovers!Get(u, p)
           \/ \E u \in HoverUris : Hovers!Forget(u)
           \/ UNCHANGED Hovers!vars
  <2>1. UNCHANGED <<stamp, regime, sent, known, due>>
    BY <1>2 DEF Hovers!WorkerStep, Hovers!Take, Hovers!TakeUp, Hovers!Capture, Hovers!Reply,
                Hovers!Store, Hovers!Fail, Hovers!Get, Hovers!Forget, Hovers!vars
  <2>. QED  BY <1>1, <2>1
<1>3. ASSUME NEW u \in HoverUris, Hovers!Published(u) PROVE KnownInv'
  <2>1. /\ UNCHANGED <<stamp, regime, sent, known>> /\ due' = due \ {u}
        /\ \A i \in DOMAIN sent : sent[i].of \notin {u, None}
    BY <1>3 DEF Hovers!Published
  <2>. QED  BY <1>1, <2>1
<1>4. CASE Hovers!Clear
  <2>1. UNCHANGED <<stamp, regime, sent, known, due>>
    BY <1>4 DEF Hovers!Clear
  <2>. QED  BY <1>1, <2>1
<1>5. ASSUME NEW u \in HoverUris, Hovers!Edit(u) PROVE KnownInv'
  <2>1. PICK s \in Stamps : stamp' = [stamp EXCEPT ![u] = s] /\ Hovers!Sends(u, s)
    BY <1>5 DEF Hovers!Edit
  <2>2. UNCHANGED <<regime, known>> /\ due' = due \cup {u} /\ u # None
    BY <1>5, HoverAssumption DEF Hovers!Edit
  <2>3. KnownTyped /\ [of |-> u, to |-> s] \in Changes
    BY DEF KnownInv, Changes
  <2>4. KnownTyped'
    BY <2>1, <2>2, <2>3 DEF KnownTyped, Hovers!Sends
  <2>5. Now(u)' = s /\ \A y \in HoverUris \cup {None} : y # u => Now(y)' = Now(y)
    BY <2>1, <2>2, <2>3 DEF Now, KnownTyped
  <2>. QED  BY <2>1, <2>2, <2>3, <2>4, <2>5, ChangeIsSent
<1>6. CASE Hovers!Reconfigure
  <2>1. PICK r \in Regimes : regime' = r /\ Hovers!Sends(None, r)
    BY <1>6 DEF Hovers!Reconfigure
  <2>2. UNCHANGED <<stamp, known>> /\ due' = HoverUris
    BY <1>6 DEF Hovers!Reconfigure
  <2>3. KnownTyped /\ [of |-> None, to |-> r] \in Changes
    BY DEF KnownInv, Changes
  <2>4. KnownTyped'
    BY <2>1, <2>2, <2>3 DEF KnownTyped, Hovers!Sends
  <2>5. Now(None)' = r /\ \A y \in HoverUris \cup {None} : y # None => Now(y)' = Now(y)
    BY <2>1, <2>2 DEF Now
  <2>. QED  BY <2>1, <2>2, <2>3, <2>4, <2>5, ChangeIsSent
<1>7. CASE Hovers!Hear
  BY <1>7, ChangeIsHeard
<1>. QED  BY <1>2, <1>3, <1>4, <1>5, <1>6, <1>7 DEF Hovers!Next

(* Entries go, and workers with them.                                       *)
LEMMA HoversShrink ==
    ASSUME KeptInv, NEW gone,
           stamp' \in [HoverUris -> Stamps], regime' \in Regimes,
           entries' = [u \in HoverUris |-> IF u \in gone THEN None ELSE entries[u]],
           workers' \subseteq workers,
           \A u \in HoverUris \ gone :
             /\ ~clearing' => ~clearing /\ regime' = regime
             /\ u \notin due' => u \notin due /\ stamp'[u] = stamp[u] /\ regime' = regime
    PROVE  KeptInv'
<1>. USE DEF KeptInv
<1>1. \A u \in HoverUris : entries'[u] # None => u \notin gone /\ entries'[u] = entries[u]
  OBVIOUS
<1>2. HoverTyped'
  BY <1>1 DEF HoverTyped, EntryOk, WorkerOk
<1>3. ASSUME NEW u \in HoverUris, NEW value, u \notin gone, FitsNow(u, value)
      PROVE  FitsNow(u, value)'
  BY <1>3 DEF FitsNow
<1>4. \A u \in HoverUris : entries'[u] # None => KeptFits(u)'
  BY <1>1, <1>3 DEF KeptFits, HoverFits
<1>5. ASSUME NEW w \in workers', Hovers!Current(w)'
      PROVE  WorkerFits(w)'
  <2>1. w.uri \in HoverUris /\ w \in workers
    BY DEF HoverTyped, WorkerOk
  <2>2. w.uri \notin gone /\ Hovers!Current(w) /\ WorkerFits(w)
    BY <1>1, <1>5, <2>1 DEF Hovers!Current, HoverFits
  <2>. QED  BY <2>1, <2>2 DEF WorkerFits
<1>. QED  BY <1>2, <1>4, <1>5 DEF HoverFits

LEMMA HoversStay ==
    ASSUME KeptInv, UNCHANGED entries, workers' \subseteq workers,
           stamp' \in [HoverUris -> Stamps], regime' \in Regimes,
           \A u \in HoverUris :
             /\ ~clearing' => ~clearing /\ regime' = regime
             /\ u \notin due' => u \notin due /\ stamp'[u] = stamp[u] /\ regime' = regime
    PROVE  KeptInv'
<1>. DEFINE gone == {}
<1>1. entries = [u \in HoverUris |-> entries[u]] /\ \A u \in HoverUris : u \notin gone
  BY DEF KeptInv, HoverTyped
<1>. HIDE DEF gone
<1>2. entries' = [u \in HoverUris |-> IF u \in gone THEN None ELSE entries[u]]
  BY <1>1
<1>. QED  BY <1>2, HoversShrink

Around == UNCHANGED <<stamp, regime, clearing, due>>

LEMMA FitsStill ==
    ASSUME Around, NEW u, NEW value
    PROVE  FitsNow(u, value)' <=> FitsNow(u, value)
BY DEF Around, FitsNow

(* An entry stays the one it is.                                            *)
LEMMA EntryKept ==
    ASSUME KeptInv, Around, NEW u \in HoverUris, entries[u] # None,
           NEW e, EntryOk(e), e.id = entries[u].id,
           \A p \in Positions : e.values[p] # None => FitsNow(u, e.values[p]),
           entries' = [entries EXCEPT ![u] = e],
           \A w \in workers' : w \in workers \/ (WorkerOk(w) /\ (Hovers!Current(w) => WorkerFits(w)))
    PROVE  KeptInv'
<1>. USE DEF KeptInv
<1>1. entries' = [v \in HoverUris |-> IF v = u THEN e ELSE entries[v]]
  BY DEF HoverTyped
<1>2. HoverTyped'
  BY <1>1 DEF HoverTyped, EntryOk, WorkerOk, Around
<1>3. \A v \in HoverUris : entries'[v] # None => KeptFits(v)'
  BY <1>1, FitsStill DEF KeptFits, HoverFits
<1>4. ASSUME NEW w \in workers', Hovers!Current(w)'
      PROVE  WorkerFits(w)'
  <2>1. WorkerOk(w)
    BY DEF HoverTyped
  <2>2. Hovers!Current(w)
    BY <1>1, <1>4, <2>1 DEF Hovers!Current, WorkerOk
  <2>3. WorkerFits(w)
    BY <2>2 DEF HoverFits
  <2>. QED  BY <2>3, FitsStill DEF WorkerFits, Around
<1>. QED  BY <1>2, <1>3, <1>4 DEF HoverFits

(* A worker goes on, or ends.                                               *)
LEMMA WorkersMove ==
    ASSUME KeptInv, Around, UNCHANGED entries,
           \A w \in workers' : w \in workers \/ (WorkerOk(w) /\ (Hovers!Current(w) => WorkerFits(w)))
    PROVE  KeptInv'
<1>. USE DEF KeptInv
<1>1. HoverTyped'
  BY DEF HoverTyped, EntryOk, WorkerOk, Around
<1>2. \A u \in HoverUris : entries'[u] # None => KeptFits(u)'
  BY FitsStill DEF KeptFits, HoverFits
<1>3. ASSUME NEW w \in workers', Hovers!Current(w)'
      PROVE  WorkerFits(w)'
  <2>1. WorkerFits(w)
    BY <1>3 DEF Hovers!Current, HoverFits
  <2>. QED  BY <2>1, FitsStill DEF WorkerFits, Around
<1>. QED  BY <1>1, <1>2, <1>3 DEF HoverFits

LEMMA GetFits ==
    ASSUME KeptInv, NEW u \in HoverUris, NEW p \in Positions, Hovers!Get(u, p)
    PROVE  KeptInv'
<1>. DEFINE fits == entries[u] # None /\ entries[u].stamp = stamp[u]
            id == CHOOSE i \in Ids : i \notin Hovers!Held
            entry == IF fits THEN entries[u] ELSE Hovers!NewEntry(id, stamp[u])
            work == [id |-> entry.id, uri |-> u, step |-> "turn", at |-> None,
                     got |-> Hovers!Nothing]
            e == [entry EXCEPT !.pending = Append(@, p), !.running = TRUE]
<1>. USE DEF KeptInv
<1>1. /\ entries' = [entries EXCEPT ![u] = e]
      /\ workers' \subseteq workers \cup {work}
      /\ ~fits => Ids # Hovers!Held
      /\ Around
  BY DEF Hovers!Get, Around, Hovers!Survivors, Hovers!documentVars
<1>2. Hovers!Held \subseteq Ids
  BY DEF Hovers!Held, HoverTyped, EntryOk, WorkerOk
<1>3. CASE fits
  <2>1. entry = entries[u] /\ EntryOk(entry)
    BY <1>3 DEF HoverTyped
  <2>2. EntryOk(e) /\ e.id = entries[u].id /\ e.values = entries[u].values
    BY <2>1 DEF EntryOk
  <2>3. WorkerOk(work) /\ work.id \in Ids /\ work.step = "turn"
    BY <2>1 DEF EntryOk, WorkerOk, Values, Hovers!Nothing
  <2>4. WorkerFits(work)
    BY <2>3 DEF WorkerFits
  <2>5. \A q \in Positions : e.values[q] # None => FitsNow(u, e.values[q])
    BY <1>3, <2>2 DEF HoverFits, KeptFits
  <2>. HIDE DEF e, work, entry
  <2>. QED  BY <1>1, <1>3, <2>2, <2>3, <2>4, <2>5, EntryKept
<1>4. CASE ~fits
  <2>1. id \in Ids /\ id \notin Hovers!Held
    BY <1>1, <1>2, <1>4
  <2>2. entry = [id |-> id, stamp |-> stamp[u], running |-> FALSE, pending |-> <<>>,
                 values |-> [q \in Positions |-> None]]
    BY <1>4 DEF Hovers!NewEntry
  <2>. HIDE DEF id, fits
  <2>. HIDE DEF entry
  <2>8. stamp[u] \in Stamps /\ [q \in Positions |-> None] \in [Positions -> Values \cup {None}]
    BY DEF HoverTyped
  <2>9. EntryOk(e) /\ e.id = id /\ e.values = [q \in Positions |-> None]
    <3>1. EntryOk(entry) /\ entry.id = id /\ entry.values = [q \in Positions |-> None]
      BY <2>1, <2>2, <2>8 DEF EntryOk
    <3>. QED  BY <3>1 DEF EntryOk
  <2>10. WorkerOk(work) /\ work.id = id /\ work.uri = u /\ work.step = "turn"
    <3>1. entry.id = id
      BY <2>2
    <3>. QED  BY <2>1, <3>1 DEF WorkerOk, Values, Hovers!Nothing
  <2>. HIDE DEF e, work
  <2>3. /\ EntryOk(e) /\ e.id = id /\ e.values = [q \in Positions |-> None]
        /\ WorkerOk(work) /\ work.id = id /\ work.uri = u /\ work.step = "turn"
    BY <2>9, <2>10
  <2>4. entries' = [v \in HoverUris |-> IF v = u THEN e ELSE entries[v]]
    BY <1>1 DEF HoverTyped
  <2>5. HoverTyped'
    BY <1>1, <2>3, <2>4 DEF HoverTyped, Around, EntryOk, WorkerOk
  <2>6. \A v \in HoverUris : entries'[v] # None => KeptFits(v)'
    BY <1>1, <2>3, <2>4, FitsStill DEF KeptFits, HoverFits
  <2>7. ASSUME NEW w \in workers', Hovers!Current(w)'
        PROVE  WorkerFits(w)'
    <3>1. CASE w = work
      BY <2>3, <3>1 DEF WorkerFits
    <3>2. CASE w # work
      <4>1. w \in workers /\ w.uri \in HoverUris /\ w.id # id
        BY <1>1, <2>1, <3>2 DEF Hovers!Held, HoverTyped, WorkerOk
      <4>2. Hovers!Current(w)
        BY <2>3, <2>4, <2>7, <4>1 DEF Hovers!Current
      <4>3. WorkerFits(w)
        BY <4>1, <4>2 DEF HoverFits
      <4>. QED  BY <1>1, <4>3, FitsStill DEF WorkerFits, Around
    <3>. QED  BY <3>1, <3>2
  <2>. QED  BY <2>5, <2>6, <2>7 DEF HoverFits
<1>. QED  BY <1>3, <1>4

LEMMA WorkerStepFits ==
    ASSUME KeptInv, KnownInv, NEW w \in workers,
           \/ Hovers!Take(w) \/ Hovers!TakeUp(w) \/ Hovers!Capture(w)
           \/ Hovers!Reply(w) \/ Hovers!Store(w)
    PROVE  KeptInv'
<1>. USE DEF KeptInv
<1>0. /\ Around /\ WorkerOk(w) /\ w.uri \in HoverUris
      /\ Hovers!Current(w) => /\ entries[w.uri] # None /\ entries[w.uri].id = w.id
                              /\ EntryOk(entries[w.uri]) /\ KeptFits(w.uri) /\ WorkerFits(w)
  BY DEF Hovers!Take, Hovers!TakeUp, Hovers!Capture, Hovers!Reply, Hovers!Store, Around,
         HoverTyped, WorkerOk, Hovers!Current, HoverFits, Hovers!documentVars
<1>1. ASSUME workers' = workers \ {w}, UNCHANGED entries
      PROVE  KeptInv'
  BY <1>0, <1>1, WorkersMove
<1>2. ASSUME NEW k, WorkerOk(k), k.id = w.id, k.uri = w.uri, Hovers!Current(w) => WorkerFits(k),
             workers' = (workers \ {w}) \cup {k}, UNCHANGED entries
      PROVE  KeptInv'
  <2>1. Hovers!Current(k) => WorkerFits(k)
    BY <1>2 DEF Hovers!Current
  <2>. QED  BY <1>0, <1>2, <2>1, WorkersMove
<1>3. CASE Hovers!Take(w)
  <2>1. CASE ~Hovers!Current(w)
    BY <1>1, <1>3, <2>1 DEF Hovers!Take
  <2>2. CASE Hovers!Current(w) /\ entries[w.uri].pending = <<>>
    <3>. DEFINE e == [entries[w.uri] EXCEPT !.running = FALSE]
    <3>1. entries' = [entries EXCEPT ![w.uri] = e] /\ workers' \subseteq workers
      BY <1>3, <2>2 DEF Hovers!Take
    <3>2. EntryOk(e) /\ e.id = entries[w.uri].id /\ e.values = entries[w.uri].values
      BY <1>0, <2>2 DEF EntryOk
    <3>. HIDE DEF e
    <3>. QED  BY <1>0, <2>2, <3>1, <3>2, EntryKept DEF KeptFits
  <2>3. CASE Hovers!Current(w) /\ entries[w.uri].pending # <<>>
    <3>. DEFINE k == [w EXCEPT !.step = "asked", !.at = Head(entries[w.uri].pending),
                               !.got.asked = regime]
    <3>1. workers' = (workers \ {w}) \cup {k} /\ UNCHANGED entries
      BY <1>3, <2>3 DEF Hovers!Take
    <3>2. /\ WorkerOk(k) /\ k.id = w.id /\ k.uri = w.uri /\ k.step = "asked"
          /\ k.got.asked = regime
      BY <1>0 DEF WorkerOk, HoverTyped, Values
    <3>. HIDE DEF k
    <3>3. WorkerFits(k)
      BY <1>0, <2>3, <3>2 DEF WorkerFits
    <3>. QED  BY <1>2, <3>1, <3>2, <3>3
  <2>. QED  BY <2>1, <2>2, <2>3
<1>7. CASE Hovers!TakeUp(w)
  <2>. DEFINE k == [w EXCEPT !.step = "begun", !.got.regime = known.regime]
  <2>1. workers' = (workers \ {w}) \cup {k} /\ UNCHANGED entries /\ w.step = "asked"
    BY <1>7 DEF Hovers!TakeUp
  <2>2. /\ WorkerOk(k) /\ k.id = w.id /\ k.uri = w.uri /\ k.step = "begun"
        /\ k.got.asked = w.got.asked /\ k.got.regime = known.regime
    BY <1>0 DEF WorkerOk, Values, KnownInv, KnownTyped
  <2>. HIDE DEF k
  <2>3. w.uri \notin due => known.regime = regime
    BY <1>0, KnownIsNow
  <2>4. Hovers!Current(w) => WorkerFits(k)
    BY <1>0, <2>1, <2>2, <2>3 DEF WorkerFits
  <2>. QED  BY <1>2, <2>1, <2>2, <2>4
<1>4. CASE Hovers!Capture(w)
  <2>. DEFINE k == [w EXCEPT !.step = "answered", !.got.text = known.text[w.uri]]
  <2>1. workers' = (workers \ {w}) \cup {k} /\ UNCHANGED entries /\ w.step = "begun"
    BY <1>4 DEF Hovers!Capture
  <2>2. /\ WorkerOk(k) /\ k.id = w.id /\ k.uri = w.uri /\ k.step = "answered"
        /\ k.got.asked = w.got.asked /\ k.got.regime = w.got.regime
        /\ k.got.text = known.text[w.uri]
    BY <1>0 DEF WorkerOk, Values, KnownInv, KnownTyped
  <2>. HIDE DEF k
  <2>3. w.uri \notin due => known.text[w.uri] = stamp[w.uri]
    BY <1>0, KnownIsNow
  <2>4. Hovers!Current(w) => WorkerFits(k)
    BY <1>0, <2>1, <2>2, <2>3 DEF WorkerFits
  <2>. QED  BY <1>2, <2>1, <2>2, <2>4
<1>5. CASE Hovers!Reply(w)
  <2>. DEFINE k == [w EXCEPT !.step = "loaded"]
  <2>1. workers' = (workers \ {w}) \cup {k} /\ UNCHANGED entries /\ w.step = "answered"
    BY <1>5 DEF Hovers!Reply
  <2>2. WorkerOk(k) /\ k.id = w.id /\ k.uri = w.uri /\ k.step = "loaded" /\ k.got = w.got
    BY <1>0 DEF WorkerOk
  <2>. HIDE DEF k
  <2>3. Hovers!Current(w) => WorkerFits(k)
    BY <1>0, <2>1, <2>2 DEF WorkerFits
  <2>. QED  BY <1>2, <2>1, <2>2, <2>3
<1>6. CASE Hovers!Store(w)
  <2>1. CASE ~Hovers!Current(w)
    BY <1>1, <1>6, <2>1 DEF Hovers!Store
  <2>2. CASE Hovers!Current(w)
    <3>. DEFINE e == Hovers!Kept(entries[w.uri], w)
                k == Hovers!Turn(w)
    <3>1. /\ workers' = (workers \ {w}) \cup {k} /\ entries' = [entries EXCEPT ![w.uri] = e]
          /\ w.step = "loaded"
      BY <1>6, <2>2 DEF Hovers!Store
    <3>2. WorkerOk(k) /\ k.step = "turn"
      BY <1>0 DEF WorkerOk, Hovers!Turn, Hovers!Nothing, Values
    <3>3. WorkerFits(k)
      BY <3>2 DEF WorkerFits
    <3>4. w.got \in Values /\ FitsNow(w.uri, w.got)
      BY <1>0, <2>2, <3>1 DEF WorkerOk, WorkerFits, FitsNow
    <3>5. /\ EntryOk(e) /\ e.id = entries[w.uri].id
          /\ \A q \in Positions : e.values[q] \in {w.got, entries[w.uri].values[q]}
      BY <1>0, <2>2, <3>4 DEF EntryOk, Hovers!Kept
    <3>. HIDE DEF e, k
    <3>6. \A q \in Positions : e.values[q] # None => FitsNow(w.uri, e.values[q])
      BY <1>0, <2>2, <3>4, <3>5 DEF KeptFits
    <3>. QED  BY <1>0, <2>2, <3>1, <3>2, <3>3, <3>5, <3>6, EntryKept
  <2>. QED  BY <2>1, <2>2
<1>. QED  BY <1>3, <1>4, <1>5, <1>6, <1>7

LEMMA KeptNext ==
    ASSUME KeptInv, KnownInv, [Hovers!Next]_(Hovers!vars)
    PROVE  KeptInv'
<1>. USE DEF KeptInv, Hovers!documentVars
<1>0. /\ stamp \in [HoverUris -> Stamps] /\ regime \in Regimes
      /\ entries = [u \in HoverUris |-> entries[u]]
  BY DEF HoverTyped
<1>1. ASSUME NEW gone, Hovers!Without(gone)
      PROVE  /\ entries' = [u \in HoverUris |-> IF u \in gone THEN None ELSE entries[u]]
             /\ workers' \subseteq workers
  BY <1>1 DEF Hovers!Without, Hovers!Survivors
<1>2. CASE Hovers!WorkerStep
  BY <1>2, WorkerStepFits DEF Hovers!WorkerStep
<1>3. ASSUME NEW w \in workers, Hovers!Fail(w)
      PROVE  KeptInv'
  <2>1. /\ entries' = IF Hovers!Current(w) THEN [entries EXCEPT ![w.uri] = None] ELSE entries
        /\ workers' \subseteq workers /\ UNCHANGED <<stamp, regime, clearing, due>>
    BY <1>3 DEF Hovers!Fail
  <2>2. CASE Hovers!Current(w)
    <3>1. entries' = [u \in HoverUris |-> IF u \in {w.uri} THEN None ELSE entries[u]]
      BY <1>0, <2>1, <2>2
    <3>. QED  BY <1>0, <2>1, <3>1, HoversShrink
  <2>3. CASE ~Hovers!Current(w)
    BY <1>0, <2>1, <2>3, HoversStay
  <2>. QED  BY <2>2, <2>3
<1>4. ASSUME NEW u \in HoverUris, NEW p \in Positions, Hovers!Get(u, p)
      PROVE  KeptInv'
  BY <1>4, GetFits
<1>5. ASSUME NEW u \in HoverUris, Hovers!Published(u)
      PROVE  KeptInv'
  <2>1. Hovers!Without({u}) /\ due' = due \ {u} /\ UNCHANGED <<stamp, regime, clearing>>
    BY <1>5 DEF Hovers!Published
  <2>. QED  BY <1>0, <1>1, <2>1, HoversShrink
<1>6. ASSUME NEW u \in HoverUris, Hovers!Forget(u)
      PROVE  KeptInv'
  <2>1. Hovers!Without({u}) /\ UNCHANGED <<stamp, regime, clearing, due>>
    BY <1>6 DEF Hovers!Forget
  <2>. QED  BY <1>0, <1>1, <2>1, HoversShrink
<1>7. ASSUME NEW u \in HoverUris, Hovers!Edit(u)
      PROVE  KeptInv'
  <2>1. /\ stamp' \in [HoverUris -> Stamps]
        /\ \A v \in HoverUris \ {u} : stamp'[v] = stamp[v]
        /\ due' = due \cup {u} /\ UNCHANGED <<regime, clearing, entries, workers>>
    BY <1>0, <1>7 DEF Hovers!Edit
  <2>. QED  BY <1>0, <2>1, HoversStay
<1>8. CASE Hovers!Clear
  <2>1. Hovers!Without(HoverUris) /\ UNCHANGED <<stamp, regime>>
    BY <1>8 DEF Hovers!Clear
  <2>. QED  BY <1>0, <1>1, <2>1, HoversShrink
<1>9. CASE Hovers!Reconfigure
  <2>1. /\ regime' \in Regimes /\ clearing' = TRUE /\ due' = HoverUris
        /\ UNCHANGED <<stamp, entries, workers>>
    BY <1>9 DEF Hovers!Reconfigure
  <2>. QED  BY <1>0, <2>1, HoversStay
<1>10. CASE UNCHANGED Hovers!vars
  <2>1. UNCHANGED <<stamp, regime, clearing, due, entries, workers>>
    BY <1>10 DEF Hovers!vars
  <2>. QED  BY <2>1, WorkersMove DEF Around
<1>11. CASE Hovers!Hear
  <2>1. UNCHANGED <<stamp, regime, clearing, due, entries, workers>>
    BY <1>11 DEF Hovers!Hear
  <2>. QED  BY <2>1, WorkersMove DEF Around
<1>. QED
  BY <1>2, <1>3, <1>4, <1>5, <1>6, <1>7, <1>8, <1>9, <1>10, <1>11 DEF Hovers!Next

HoverInv == KeptInv /\ KnownInv

LEMMA HoverNext ==
    ASSUME HoverInv, [Hovers!Next]_(Hovers!vars)
    PROVE  HoverInv'
BY KeptNext, KnownNext DEF HoverInv

LEMMA HoverTells ==
    ASSUME HoverInv
    PROVE  HoverIsFresh
BY DEF HoverInv, KeptInv, HoverFits, KeptFits, FitsNow, HoverIsFresh, Hovers!HoverIsFresh

-----------------------------------------------------------------------------
(* The clients beside each other: each keeps its invariant, and those that  *)
(* are not run stay as they began.                                          *)

ClientsInv ==
    /\ IF client = "view" THEN PanelInv /\ Ordered ELSE panel = "absent" /\ session = NewSession
    /\ IF client = "gutter" THEN HoverInv ELSE \A u \in HoverUris : entries[u] = None
    /\ IF client = "tree" THEN TreeInv ELSE loaded = None

LEMMA ClientsInitial ==
    ASSUME ClientsInit
    PROVE  ClientsInv
<1>1. PanelInv /\ panel = "absent" /\ session = NewSession
  BY PanelInitial DEF ClientsInit
<1>2. Ordered
  BY <1>1 DEF NewSession, Ordered, Single
<1>3. HoverInv /\ \A u \in HoverUris : entries[u] = None
  BY HoverInitial DEF ClientsInit, Hovers!Init, HoverInv
<1>4. TreeInv /\ loaded = None
  BY TreeInitial DEF ClientsInit
<1>. QED  BY <1>1, <1>2, <1>3, <1>4 DEF ClientsInv

LEMMA ClientsStep ==
    ASSUME ClientsInv, [ClientsNext]_allVars
    PROVE  ClientsInv' /\ [NoOlder]_vars
<1>. USE DEF panelOnly, hoverOnly, treeOnly, serviceVars, editorVars
<1>1. CASE InView(Next)
  <2>1. client = "view" /\ Next /\ client' = client /\ UNCHANGED <<entries, loaded>>
    BY <1>1 DEF InView
  <2>2. PanelInv' /\ Ordered' /\ NoOlder
    BY <2>1, PanelNext, OrderedNext DEF ClientsInv
  <2>. QED  BY <2>1, <2>2 DEF ClientsInv
<1>2. CASE InGutter(Hovers!Next)
  <2>1. client = "gutter" /\ Hovers!Next /\ client' = client /\ UNCHANGED <<panel, session, loaded>>
    BY <1>2 DEF InGutter
  <2>2. HoverInv'
    BY <2>1, HoverNext DEF ClientsInv
  <2>3. NoOlder
    BY <2>1 DEF ClientsInv, NewSession, NoOlder
  <2>. QED  BY <2>1, <2>2, <2>3 DEF ClientsInv
<1>3. CASE InTree(Tree!Next)
  <2>1. client = "tree" /\ Tree!Next /\ client' = client /\ UNCHANGED <<panel, session, entries>>
    BY <1>3 DEF InTree
  <2>2. TreeInv'
    BY <2>1, TreeNext DEF ClientsInv
  <2>3. NoOlder
    BY <2>1 DEF ClientsInv, NewSession, NoOlder
  <2>. QED  BY <2>1, <2>2, <2>3 DEF ClientsInv
<1>4. CASE UNCHANGED allVars
  <2>1. /\ client' = client /\ UNCHANGED vars /\ UNCHANGED <<panel, session, entries, loaded>>
        /\ UNCHANGED Hovers!vars /\ UNCHANGED Tree!vars
    BY <1>4 DEF allVars, vars, platformVars, Hovers!vars, Hovers!documentVars, Tree!vars, Tree!editorVars,
                Tree!serverVars, Tree!treeVars
  <2>2. PanelInv /\ Ordered => PanelInv' /\ Ordered'
    BY <2>1, PanelNext, OrderedNext
  <2>3. HoverInv => HoverInv'
    BY <2>1, HoverNext
  <2>4. TreeInv => TreeInv'
    BY <2>1, TreeNext
  <2>. QED  BY <2>1, <2>2, <2>3, <2>4 DEF ClientsInv
<1>. QED  BY <1>1, <1>2, <1>3, <1>4 DEF ClientsNext

LEMMA ClientsInductive == ClientsSpec => []ClientsInv
BY ClientsInitial, ClientsStep, PTL DEF ClientsSpec

-----------------------------------------------------------------------------

ClientsTyped ==
    /\ client = "view" => TypeOK
    /\ client = "gutter" => HoverTyped /\ KnownTyped
    /\ client = "tree" => Tree!TypeOK

(* The view, the gutter and the tree keep their types, for any number of    *)
(* documents, requests, positions and workers (FunctionHealthPanel.kt,      *)
(* HealthHoverCache.kt, tree.ts).                                           *)
THEOREM ClientsTypeCorrect == ClientsSpec => []ClientsTyped
<1>1. ClientsInv => ClientsTyped
  BY DEF ClientsInv, ClientsTyped, PanelInv, HoverInv, KeptInv, KnownInv, TreeInv
<1>. QED  BY <1>1, ClientsInductive, PTL

(* The view is about the editor in front, has rows only while it believes   *)
(* the server to run, and believes what the service does whenever it was    *)
(* made (FunctionHealthPanel.kt reads the state it may have missed).        *)
THEOREM ViewFollows == ClientsSpec => []PanelFollows
<1>1. ClientsInv => PanelFollows
  BY PanelTells DEF ClientsInv, PanelFollows
<1>. QED  BY <1>1, ClientsInductive, PTL

(* The rows of the view are replaced only by rows at least as new: an       *)
(* answer to an earlier question never overwrites that to a later one       *)
(* (FunctionHealthSession.kt cancels what is obsolete, and compares         *)
(* generations).                                                            *)
THEOREM RowsOnlyGetNewer == ClientsSpec => PanelNeverGoesBack
<1>1. ClientsInv /\ [ClientsNext]_allVars =>
        [session'.uri = session.uri /\ session.health # NoHealth /\ session'.health # NoHealth
           => session'.health >= session.health]_vars
  BY ClientsStep DEF NoOlder
<1>. QED  BY <1>1, ClientsInductive, PTL DEF ClientsSpec, PanelNeverGoesBack

(* However late the worker's answer came and whatever replaced its entry, a *)
(* hover the gutter keeps is of the text and the settings of now once the   *)
(* document's last change is published; before that, and once the cache has *)
(* been cleared, it was asked for since the settings were sent, which they  *)
(* may have overtaken (HealthHoverCache.kt compares the entry before it     *)
(* stores).                                                                 *)
THEOREM HoversAreFresh == ClientsSpec => []HoverIsFresh
<1>1. ClientsInv => HoverIsFresh
  BY HoverTells DEF ClientsInv, HoverIsFresh, Hovers!HoverIsFresh
<1>. QED  BY <1>1, ClientsInductive, PTL

(* The rows of the VS Code view are those of the active document, however   *)
(* late the answers come (the generation of tree.ts).                       *)
THEOREM RowsFollowTheEditor == ClientsSpec => []TreeShowsActive
<1>1. ClientsInv => TreeShowsActive
  BY DEF ClientsInv, TreeInv, Following, TreeShowsActive, Tree!TreeShowsActive
<1>. QED  BY <1>1, ClientsInductive, PTL

=============================================================================
