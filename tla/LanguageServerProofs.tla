------------------------ MODULE LanguageServerProofs ------------------------
(***************************************************************************)
(* The language server for any number of documents, edits, requests and    *)
(* settings, on either runtime.  Whatever it renders or answers was scored *)
(* with the settings it captured, its handlers never sit out a quiet       *)
(* period, and it implements EditTasks.  A close leaves nothing behind but *)
(* what it overtook, and the server implements CheckedHealth.              *)
(*                                                                         *)
(* The cache's part is taken over from AnalysisCacheProofs.  The rest of   *)
(* the invariant says, of one actor at a time, what its place in the code  *)
(* tells of its document, settings and call (JobOk), and that the document *)
(* a handler waits for has no pending edit (QuietHandler).  Of a document  *)
(* that is gone and that its close overtook nobody on, no actor ever gets  *)
(* hold again (LeftAlone).                                                 *)
(***************************************************************************)
EXTENDS LanguageServer, TLAPS

Calls == INSTANCE AnalysisCacheProofs WITH Callers <- Actors, Documents <- Uris

Reporting == {"wait", "capture", "lookup", "analyze", "check"}
Sending == {"settings", "status", "diags"}
Resting == {"idle", "sleep", "finish", "done"}
Handling == {"open", "change", "close", "forget", "clear"}
Places == Reporting \cup Sending \cup Resting \cup Handling \cup {"config"}

JobsTyped ==
    job \in [Actors -> [pc : Places, uri : Uris \cup {NoUri},
                        settings : Settings \cup {NoSettings}, snap : Docs \cup {NoDoc}]]

EditsTyped ==
    /\ pending \in [Uris -> 0 .. MaxEdits]
    /\ issued \in 0 .. MaxEdits
    /\ elapsed \in 0 .. MaxEdits
    /\ on \in [Actors -> 0 .. MaxEdits]

DocsTyped ==
    /\ doc \in [Uris -> Docs \cup {NoDoc}]
    /\ open \subseteq Uris /\ todo \subseteq Uris
    /\ configured \in Settings \cup {NoSettings}

(* Where each kind of actor can be.                                         *)
RoleOk(a) ==
    /\ a \in EditIds => job[a].pc \in Reporting \cup Sending \cup Resting
    /\ a \in Requests => job[a].pc \in Reporting \cup {"idle"}
    /\ a = Handler => job[a].pc \notin {"sleep", "finish", "done"}

(* What an actor's place says.                                              *)
JobOk(a) ==
    /\ RoleOk(a)
    /\ job[a].pc \in Reporting \cup Sending \cup Handling \cup {"sleep", "finish"} =>
           job[a].uri \in Uris
    /\ job[a].pc \in Reporting \cup Sending \cup {"config"} => job[a].settings \in Settings
    /\ job[a].pc = "lookup" => job[a].snap \in Docs
    /\ ~alive => job[a].pc \in Resting
    /\ job[a].pc \in {"analyze", "check"} \cup Sending =>
           call[a].asked.config = HealthOf[job[a].settings]
    /\ job[a].pc \in {"check"} \cup Sending => call[a].answer # NoKey

QuietHandler ==
    /\ on[Handler] = 0
    /\ job[Handler].pc = "wait" => pending[job[Handler].uri] = 0

ServerInv ==
    /\ JobsTyped /\ EditsTyped /\ DocsTyped
    /\ \A a \in Actors : JobOk(a)
    /\ Calls!IInv
    /\ QuietHandler

-----------------------------------------------------------------------------
(* The cache: each of its steps is one AnalysisCacheProofs speaks of.       *)

LEMMA CacheAssumed == NoEntry \notin EntryIds /\ NoKey \notin Keys /\ NoCaller \notin Actors
BY ServerAssumption

LEMMA SameCache ==
    /\ Cache!CacheInit <=> Calls!CacheInit
    /\ Cache!DropCache <=> Calls!DropCache
    /\ \A u \in Uris : Cache!Forget(u) <=> Calls!Forget(u)
    /\ \A a \in Actors, u \in Uris, k \in Keys : Cache!Lookup(a, u, k) <=> Calls!Lookup(a, u, k)
    /\ \A a \in Actors : /\ Cache!Begin(a) <=> Calls!Begin(a)
                         /\ Cache!Complete(a) <=> Calls!Complete(a)
                         /\ Cache!Join(a) <=> Calls!Join(a)
                         /\ Cache!Abandon(a) <=> Calls!Abandon(a)
                         /\ Cache!Release(a) <=> Calls!Release(a)
<1> USE DEF Cache!Held, Calls!Held, Cache!Sweep, Calls!Sweep, Cache!Freed, Calls!Freed,
            Cache!NoCall, Calls!NoCall
<1>1. Cache!CacheInit <=> Calls!CacheInit
  BY DEF Cache!CacheInit, Calls!CacheInit
<1>2. (Cache!DropCache <=> Calls!DropCache)
      /\ \A u \in Uris : Cache!Forget(u) <=> Calls!Forget(u)
  BY DEF Cache!DropCache, Calls!DropCache, Cache!Forget, Calls!Forget
<1>3. \A a \in Actors, u \in Uris, k \in Keys : Cache!Lookup(a, u, k) <=> Calls!Lookup(a, u, k)
  BY DEF Cache!Lookup, Calls!Lookup
<1>4. \A a \in Actors : /\ Cache!Begin(a) <=> Calls!Begin(a)
                        /\ Cache!Complete(a) <=> Calls!Complete(a)
                        /\ Cache!Join(a) <=> Calls!Join(a)
  BY DEF Cache!Begin, Calls!Begin, Cache!Complete, Calls!Complete, Cache!Join, Calls!Join
<1>5. \A a \in Actors : /\ Cache!Abandon(a) <=> Calls!Abandon(a)
                        /\ Cache!Release(a) <=> Calls!Release(a)
  BY DEF Cache!Abandon, Calls!Abandon, Cache!Release, Calls!Release
<1> QED BY <1>1, <1>2, <1>3, <1>4, <1>5

(* What the server may do to the cache.                                     *)
CacheStep ==
    \/ UNCHANGED cacheVars
    \/ Cache!DropCache
    \/ \E u \in Uris : Cache!Forget(u)
    \/ \E a \in Actors, u \in Uris, k \in Keys : Cache!Lookup(a, u, k)
    \/ \E a \in Actors : \/ Cache!Begin(a) \/ Cache!Complete(a) \/ Cache!Join(a)
                         \/ Cache!Abandon(a) \/ Cache!Release(a)

LEMMA CacheStepPreserves == Calls!IInv /\ CacheStep => Calls!IInv'
<1> SUFFICES ASSUME Calls!IInv, CacheStep PROVE Calls!IInv'
  OBVIOUS
<1>1. CASE UNCHANGED cacheVars
  BY <1>1
  DEF cacheVars, Calls!IInv, Calls!CacheTypeOK, Calls!Matched, Calls!Filled,
      Calls!InitialiserIsCalling, Calls!AnswersTheQuestion
<1>2. CASE Cache!DropCache \/ \E u \in Uris : Cache!Forget(u)
  BY <1>2, CacheAssumed, SameCache, Calls!ForgetPreserves
<1>3. CASE \E a \in Actors, u \in Uris, k \in Keys : Cache!Lookup(a, u, k)
  BY <1>3, CacheAssumed, SameCache, Calls!LookupPreserves
<1>4. ASSUME NEW a \in Actors, Cache!Begin(a) PROVE Calls!IInv'
  BY <1>4, CacheAssumed, SameCache, Calls!BeginPreserves
<1>5. ASSUME NEW a \in Actors, Cache!Complete(a) \/ Cache!Join(a) \/ Cache!Abandon(a)
      PROVE  Calls!IInv'
  BY <1>5, CacheAssumed, SameCache, Calls!LeavingPreserves
<1>6. ASSUME NEW a \in Actors, Cache!Release(a) PROVE Calls!IInv'
  BY <1>6, CacheAssumed, SameCache, Calls!ReleasePreserves
<1> QED BY <1>1, <1>2, <1>3, <1>4, <1>5, <1>6 DEF CacheStep

-----------------------------------------------------------------------------
(* Actors                                                                   *)

LEMMA ActorsApart ==
    /\ Handler \in Actors /\ EditIds \subseteq Actors /\ Requests \subseteq Actors
    /\ Handler \notin EditIds /\ Handler \notin Requests
    /\ \A e \in EditIds : e \notin Requests
BY ServerAssumption DEF Handler, EditIds, Requests, Actors

USE DEF lifeVars

LEMMA InForceTyped == DocsTyped => InForce \in Settings
BY ServerAssumption DEF DocsTyped, InForce

LEMMA WentTo ==
    ASSUME JobsTyped, NEW a \in Actors, NEW p, Goto(a, p)
    PROVE  job' = [job EXCEPT ![a] = Job(p, job[a].uri, job[a].settings, job[a].snap)]
<1>1. job[a] = Job(job[a].pc, job[a].uri, job[a].settings, job[a].snap)
  BY DEF JobsTyped, Job
<1>2. [job[a] EXCEPT !.pc = p] = Job(p, job[a].uri, job[a].settings, job[a].snap)
  BY <1>1 DEF Job
<1> QED BY <1>2 DEF Goto

(* One actor moves, and whatever its call does, the others' calls stay.     *)
LEMMA OneMoves ==
    ASSUME JobsTyped, \A b \in Actors : JobOk(b),
           NEW a \in Actors, NEW p \in Places, NEW u \in Uris \cup {NoUri},
           NEW s \in Settings \cup {NoSettings}, NEW d \in Docs \cup {NoDoc},
           job' = [job EXCEPT ![a] = Job(p, u, s, d)],
           \A b \in Actors \ {a} : call'[b] = call[b],
           alive' = alive,
           a \in EditIds => p \in Reporting \cup Sending \cup Resting,
           a \in Requests => p \in Reporting \cup {"idle"},
           a = Handler => p \notin {"sleep", "finish", "done"},
           p \in Reporting \cup Sending \cup Handling \cup {"sleep", "finish"} => u \in Uris,
           p \in Reporting \cup Sending \cup {"config"} => s \in Settings,
           p = "lookup" => d \in Docs,
           ~alive => p \in Resting,
           p \in {"analyze", "check"} \cup Sending => call'[a].asked.config = HealthOf[s],
           p \in {"check"} \cup Sending => call'[a].answer # NoKey
    PROVE  JobsTyped' /\ \A b \in Actors : JobOk(b)'
<1>1. /\ job'[a].pc = p /\ job'[a].uri = u /\ job'[a].settings = s /\ job'[a].snap = d
      /\ \A b \in Actors \ {a} : job'[b] = job[b]
  BY DEF JobsTyped, Job
<1>2. JobsTyped'
  BY DEF JobsTyped, Job
<1>3. JobOk(a)'
  BY <1>1 DEF JobOk, RoleOk
<1>4. ASSUME NEW b \in Actors \ {a} PROVE JobOk(b)'
  BY <1>1, <1>4 DEF JobOk, RoleOk
<1> QED BY <1>2, <1>3, <1>4

-----------------------------------------------------------------------------
(* The places: one lemma per group of steps                                 *)

JobsFine == JobsTyped /\ \A b \in Actors : JobOk(b)

LEMMA CallsTyped ==
    ASSUME Calls!IInv
    PROVE  call \in [Actors -> [entry : EntryIds \cup {NoEntry}, asked : Keys \cup {NoKey},
                                answer : Keys \cup {NoKey}]]
BY DEF Calls!IInv, Calls!CacheTypeOK

(* The handler takes up a notification, or its next document.               *)
LEMMA HandlerMoves ==
    ASSUME ServerInv, NEW p \in Handling \cup {"wait", "config", "idle"},
           NEW u \in Uris \cup {NoUri}, NEW s \in Settings \cup {NoSettings},
           job' = [job EXCEPT ![Handler] = Job(p, u, s, NoDoc)],
           p \in Handling \cup {"wait"} => u \in Uris,
           p \in {"wait", "config"} => s \in Settings,
           alive, UNCHANGED <<call, alive>>
    PROVE  JobsFine'
<1>1. /\ p \in Places
      /\ p \notin {"sleep", "finish", "done", "lookup", "analyze", "check"} \cup Sending
      /\ p \in Reporting => p = "wait"
  BY DEF Places, Handling, Reporting, Resting, Sending
<1>2. /\ p \in Reporting \cup Sending \cup Handling \cup {"sleep", "finish"} => u \in Uris
      /\ p \in Reporting \cup Sending \cup {"config"} => s \in Settings
      /\ p \notin {"analyze", "check"} \cup Sending
  BY <1>1
<1>3. JobsTyped' /\ \A b \in Actors : JobOk(b)'
  BY <1>1, <1>2, ActorsApart, OneMoves DEF ServerInv
<1> QED BY <1>3 DEF JobsFine

LEMMA NotifyJobs ==
    ASSUME ServerInv, ClientNotifies
    PROVE  JobsFine' /\ DocsTyped'
<1> USE DEF ServerInv
<1>1. ASSUME NEW u \in Uris, NEW d \in Docs \cup {NoDoc},
             NEW p \in {"open", "change", "close"}, Receive(u, d, p)
      PROVE  JobsFine' /\ DocsTyped'
  <2>1. JobsFine'
    BY <1>1, HandlerMoves DEF Receive, Deliver, Handling, cacheVars
  <2> QED BY <1>1, <2>1 DEF Receive, DocsTyped
<1>2. ASSUME NEW u \in Uris, DidSave(u) PROVE JobsFine' /\ DocsTyped'
  <2>1. JobsFine'
    BY <1>2, HandlerMoves, InForceTyped DEF DidSave, Publishing, Deliver, Handling, cacheVars
  <2> QED BY <1>2, <2>1 DEF DidSave, DocsTyped, docVars
<1>3. ASSUME NEW u \in Uris, NEW l \in Languages, NEW t \in Texts, DidOpen(u, l, t)
      PROVE  JobsFine' /\ DocsTyped'
  <2>1. [lang |-> l, text |-> t, version |-> 1] \in Docs
    BY ServerAssumption DEF Docs
  <2> QED BY <1>1, <1>3, <2>1 DEF DidOpen
<1>4. ASSUME NEW u \in Uris, NEW t \in Texts, DidChange(u, t) PROVE JobsFine' /\ DocsTyped'
  <2>1. PICK d : /\ d = [lang |-> doc[u].lang, text |-> t, version |-> doc[u].version + 1]
                 /\ Receive(u, d, "change")
    BY <1>4 DEF DidChange
  <2>2. doc[u] \in Docs /\ doc[u].version < MaxVersion
    BY <1>4 DEF DidChange, DocsTyped
  <2>3. d \in Docs
    BY <2>1, <2>2, ServerAssumption DEF Docs
  <2> QED BY <1>1, <2>1, <2>3
<1>5. ASSUME NEW u \in Uris, DidClose(u) PROVE JobsFine' /\ DocsTyped'
  BY <1>1, <1>5 DEF DidClose
<1>6. ASSUME NEW s \in Settings, DidChangeConfiguration(s) PROVE JobsFine' /\ DocsTyped'
  <2>1. JobsFine'
    BY <1>6, HandlerMoves DEF DidChangeConfiguration, Deliver, Handling, cacheVars
  <2> QED BY <1>6, <2>1 DEF DidChangeConfiguration, DocsTyped
<1> QED BY <1>2, <1>3, <1>4, <1>5, <1>6 DEF ClientNotifies

(* did_open, did_change, did_close and the loop over the open documents.    *)
LEMMA HandlerJobs ==
    ASSUME ServerInv,
           \/ OnOpen \/ OnChange \/ OnClose \/ ForgetClosed \/ ClearDiagnostics
           \/ \E u \in Uris : Republish(u)
           \/ Republished
    PROVE  JobsFine' /\ DocsTyped'
<1> USE DEF ServerInv
<1>0. JobOk(Handler) /\ (job[Handler].pc \in Handling \cup {"config"} => alive)
  BY ActorsApart DEF JobOk, Handling, Resting
<1>1. CASE OnOpen
  <2>1. job[Handler].uri \in Uris /\ alive
    BY <1>0, <1>1 DEF OnOpen, At, JobOk, Handling
  <2>2. JobsFine'
    BY <1>1, <2>1, HandlerMoves, InForceTyped DEF OnOpen, Publishing, cacheVars
  <2> QED BY <1>1, <2>1, <2>2 DEF OnOpen, DocsTyped
<1>2. CASE OnChange
  <2>1. PICK u \in Uris : u = job[Handler].uri
    BY <1>0, <1>2 DEF OnChange, At, JobOk, Handling
  <2>2. PICK e \in EditIds : e = issued + 1 /\ e \in Actors /\ e # Handler /\ e \notin Requests
    BY <1>2, ActorsApart, ServerAssumption
    DEF OnChange, Edits!Schedule, EditsTyped, EditIds
  <2> DEFINE freed == [job EXCEPT ![Handler] = NoJob]
  <2>3. job' = [freed EXCEPT ![e] = Job("sleep", u, NoSettings, NoDoc)]
    BY <1>2, <2>1, <2>2 DEF OnChange
  <2>4. /\ job'[Handler] = NoJob /\ job'[e] = Job("sleep", u, NoSettings, NoDoc)
        /\ \A b \in Actors \ {Handler, e} : job'[b] = job[b]
    BY <2>2, <2>3, ActorsApart DEF JobsTyped
  <2>5. JobsTyped'
    BY <2>1, <2>2, <2>3, ActorsApart DEF JobsTyped, NoJob, Job, Places, Resting
  <2>6. UNCHANGED <<call, alive>>
    BY <1>2 DEF OnChange, cacheVars
  <2>7. JobOk(Handler)' /\ JobOk(e)'
    <3>1. job'[Handler].pc = "idle"
      BY <2>4 DEF NoJob, Job
    <3>2. job'[e].pc = "sleep" /\ job'[e].uri \in Uris
      BY <2>1, <2>4 DEF Job
    <3>3. JobOk(Handler)'
      BY <3>1, ActorsApart DEF JobOk, RoleOk, Reporting, Sending, Handling, Resting
    <3>4. JobOk(e)'
      BY <2>2, <3>2 DEF JobOk, RoleOk, Reporting, Sending, Handling, Resting
    <3> QED BY <3>3, <3>4
  <2>8. ASSUME NEW b \in Actors \ {Handler, e} PROVE JobOk(b)'
    BY <2>4, <2>6, <2>8 DEF JobOk, RoleOk
  <2>9. JobsFine'
    BY <2>5, <2>7, <2>8 DEF JobsFine
  <2>10. DocsTyped'
    BY <1>2 DEF OnChange, DocsTyped, docVars
  <2> QED BY <2>9, <2>10
<1>3. CASE OnClose \/ ForgetClosed
  <2>1. job[Handler].uri \in Uris /\ alive
    BY <1>0, <1>3 DEF OnClose, ForgetClosed, At, JobOk, Handling
  <2>2. PICK p \in {"forget", "clear"} :
            job' = [job EXCEPT ![Handler] = Job(p, job[Handler].uri, job[Handler].settings,
                                                job[Handler].snap)]
    BY <1>3, ActorsApart, WentTo DEF OnClose, ForgetClosed
  <2>3. call' = call /\ alive' = alive
    BY <1>3 DEF OnClose, ForgetClosed, Cache!Forget, cacheVars
  <2>4. JobsFine'
    <3>1. job[Handler].settings \in Settings \cup {NoSettings}
          /\ job[Handler].snap \in Docs \cup {NoDoc}
      BY ActorsApart DEF JobsTyped
    <3>2. p \in Places /\ p \in Handling
          /\ p \notin Reporting \cup Sending \cup {"config", "sleep", "finish", "done"}
      BY DEF Places, Handling, Reporting, Sending
    <3> QED BY <2>1, <2>2, <2>3, <3>1, <3>2, ActorsApart, OneMoves DEF JobsFine, Reporting
  <2> QED BY <1>3, <2>1, <2>4 DEF OnClose, ForgetClosed, DocsTyped, docVars
<1>4. CASE ClearDiagnostics
  <2>1. JobsFine'
    BY <1>0, <1>4, HandlerMoves DEF ClearDiagnostics, At, Handling, NoJob, cacheVars
  <2> QED BY <1>4, <2>1 DEF ClearDiagnostics, DocsTyped, docVars
<1>5. ASSUME NEW u \in Uris, Republish(u) PROVE JobsFine' /\ DocsTyped'
  <2>1. job[Handler].settings \in Settings /\ alive
    BY <1>0, <1>5 DEF Republish, At, JobOk
  <2>2. JobsFine'
    BY <1>5, <2>1, HandlerMoves DEF Republish, Publishing, cacheVars
  <2> QED BY <1>5, <2>2 DEF Republish, DocsTyped, docVars
<1>6. CASE Republished
  <2>1. JobsFine'
    BY <1>0, <1>6, HandlerMoves DEF Republished, At, Handling, NoJob, cacheVars
  <2> QED BY <1>6, <2>1 DEF Republished, DocsTyped, docVars
<1> QED BY <1>1, <1>2, <1>3, <1>4, <1>5, <1>6

(* An actor goes on to another place with what it has.                      *)
LEMMA Goes ==
    ASSUME ServerInv, NEW a \in Actors,
           NEW p \in {"capture", "check", "settings", "status", "diags", "finish"},
           Goto(a, p), alive' = alive,
           \A b \in Actors \ {a} : call'[b] = call[b],
           job[a].pc \in Reporting \cup Sending \/ p = "finish",
           p \in Sending => a \notin Requests,
           p = "finish" => a \in EditIds /\ job[a].uri \in Uris,
           p \in {"check"} \cup Sending =>
               /\ call'[a].asked.config = HealthOf[job[a].settings]
               /\ call'[a].answer # NoKey
    PROVE  JobsFine'
<1>1. JobsTyped /\ JobOk(a)
  BY DEF ServerInv
<1>2. job' = [job EXCEPT ![a] = Job(p, job[a].uri, job[a].settings, job[a].snap)]
  BY <1>1, WentTo
<1>3. /\ job[a].uri \in Uris /\ job[a].settings \in Settings \cup {NoSettings}
      /\ job[a].snap \in Docs \cup {NoDoc}
      /\ p # "finish" => job[a].settings \in Settings /\ alive
  BY <1>1 DEF JobOk, JobsTyped, Reporting, Sending, Resting
<1>4. p \in Places /\ p \notin {"lookup", "analyze", "config"} /\ (p \in Resting <=> p = "finish")
      /\ (p \in Sending \/ p = "finish" \/ p \in Reporting)
      /\ (p = "finish" => p \notin Reporting \cup Sending)
      /\ (p \in Sending <=> p \in {"settings", "status", "diags"})
  BY DEF Places, Reporting, Sending, Resting
<1>5. a \in EditIds => p \in Reporting \cup Sending \cup Resting
  BY <1>4
<1>6. a \in Requests => p \in Reporting \cup {"idle"}
  BY <1>4, ActorsApart
<1>7. a = Handler => p \notin {"sleep", "finish", "done"}
  BY ActorsApart
<1>8. JobsTyped' /\ \A b \in Actors : JobOk(b)'
  BY <1>1, <1>2, <1>3, <1>4, <1>5, <1>6, <1>7, OneMoves DEF ServerInv
<1> QED BY <1>8 DEF JobsFine

(* publish() and report_for() come back.                                    *)
LEMMA Returns ==
    ASSUME ServerInv, NEW a \in Actors, Return(a), alive' = alive,
           job[a].pc \in Reporting \cup Sending
    PROVE  JobsFine'
<1>1. JobsTyped /\ JobOk(a) /\ \A b \in Actors \ {a} : call'[b] = call[b]
  BY CallsTyped DEF ServerInv, Return, Cache!Release
<1>2. job[a].uri \in Uris /\ job[a].settings \in Settings /\ alive
  BY <1>1 DEF JobOk, Reporting, Sending, Resting
<1>3. CASE a = Handler /\ todo # {}
  <2>1. job' = [job EXCEPT ![Handler] = Job("config", NoUri, job[a].settings, NoDoc)]
    BY <1>3 DEF Return
  <2>2. "config" \in Places /\ "config" \notin Reporting \cup Sending \cup Handling
    BY DEF Places, Reporting, Sending, Handling
  <2>3. JobsTyped' /\ \A b \in Actors : JobOk(b)'
    BY <1>1, <1>2, <1>3, <2>1, <2>2, ActorsApart, OneMoves DEF ServerInv
  <2> QED BY <2>3 DEF JobsFine
<1>4. CASE a \in EditIds
  <2>1. job' = [job EXCEPT ![a] = Job("finish", job[a].uri, NoSettings, NoDoc)]
    BY <1>4, ActorsApart DEF Return
  <2>2. "finish" \in Places /\ "finish" \in Resting /\ "finish" \notin Reporting \cup Sending
    BY DEF Places, Reporting, Sending, Resting
  <2>3. JobsTyped' /\ \A b \in Actors : JobOk(b)'
    BY <1>1, <1>2, <1>4, <2>1, <2>2, ActorsApart, OneMoves DEF ServerInv
  <2> QED BY <2>3 DEF JobsFine
<1>5. CASE ~(a = Handler /\ todo # {}) /\ a \notin EditIds
  <2>1. job' = [job EXCEPT ![a] = Job("idle", NoUri, NoSettings, NoDoc)]
    BY <1>5 DEF Return, NoJob
  <2>2. "idle" \in Places /\ "idle" \in Resting
        /\ "idle" \notin Reporting \cup Sending \cup Handling
    BY DEF Places, Reporting, Sending, Resting, Handling
  <2>3. JobsTyped' /\ \A b \in Actors : JobOk(b)'
    BY <1>1, <1>5, <2>1, <2>2, OneMoves DEF ServerInv
  <2> QED BY <2>3 DEF JobsFine
<1> QED BY <1>3, <1>4, <1>5

LEMMA ReportJobs ==
    ASSUME ServerInv, NEW a \in Actors, ReportStep(a)
    PROVE  JobsFine' /\ DocsTyped'
<1>1. JobsTyped /\ JobOk(a) /\ DocsTyped /\ Calls!IInv
  BY DEF ServerInv
<1>2. DocsTyped' /\ alive' = alive
  BY <1>1 DEF ReportStep, Waits, Capture, LookUp, Analyze, DocsTyped, docVars
<1>3. CASE Waits(a)
  <2>1. job[a].pc = "wait" /\ call' = call
    BY <1>3 DEF Waits, At, cacheVars
  <2>2. CASE Goto(a, "capture")
    BY <1>2, <2>1, <2>2, Goes DEF Reporting, Sending
  <2>3. CASE UNCHANGED job
    BY <1>2, <2>1, <2>3 DEF ServerInv, JobsFine, JobsTyped, JobOk, RoleOk
  <2> QED BY <1>3, <2>2, <2>3 DEF Waits
<1>4. CASE Capture(a)
  <2>1. job[a].pc = "capture" /\ job[a].pc \in Reporting
    BY <1>4 DEF Capture, At, Reporting
  <2>2. CASE Return(a)
    BY <1>2, <2>1, <2>2, Returns
  <2>3. CASE /\ doc[job[a].uri] # NoDoc
             /\ job' = [job EXCEPT ![a] = Job("lookup", job[a].uri, job[a].settings,
                                              doc[job[a].uri])]
             /\ UNCHANGED cacheVars
    <3>1. job[a].uri \in Uris /\ job[a].settings \in Settings /\ alive
      BY <1>1, <2>1 DEF JobOk, Reporting, Resting
    <3>2. doc[job[a].uri] \in Docs
      BY <1>1, <2>3, <3>1 DEF DocsTyped
    <3>3. "lookup" \in Places /\ "lookup" \in Reporting /\ "lookup" \notin Sending
      BY DEF Places, Reporting, Sending
    <3>4. call' = call
      BY <2>3 DEF cacheVars
    <3>5. JobsTyped' /\ \A b \in Actors : JobOk(b)'
      BY <1>2, <2>3, <3>1, <3>2, <3>3, <3>4, OneMoves DEF ServerInv
    <3> QED BY <1>2, <3>5 DEF JobsFine
  <2> QED BY <1>2, <1>4, <2>2, <2>3 DEF Capture
<1>5. CASE LookUp(a)
  <2>1. job[a].pc = "lookup"
    BY <1>5 DEF LookUp, At
  <2>2. job[a].uri \in Uris /\ job[a].settings \in Settings /\ job[a].snap \in Docs /\ alive
    BY <1>1, <2>1 DEF JobOk, Reporting, Resting
  <2>3. PICK k : /\ k = [lang |-> job[a].snap.lang, text |-> job[a].snap.text,
                         version |-> job[a].snap.version, config |-> HealthOf[job[a].settings]]
                 /\ Cache!Lookup(a, job[a].uri, k)
                 /\ job' = [job EXCEPT ![a] = Job("analyze", job[a].uri, job[a].settings, NoDoc)]
    BY <1>5 DEF LookUp
  <2>4. PICK i : call' = [call EXCEPT ![a] = [Cache!NoCall EXCEPT !.entry = i, !.asked = k]]
    BY <2>3 DEF Cache!Lookup
  <2>5. call'[a].asked = k /\ \A b \in Actors \ {a} : call'[b] = call[b]
    BY <1>1, <2>4, CallsTyped DEF Cache!NoCall
  <2>6. "analyze" \in Places /\ "analyze" \in Reporting /\ "analyze" \notin Sending
    BY DEF Places, Reporting, Sending
  <2>7. call'[a].asked.config = HealthOf[job[a].settings]
    BY <2>3, <2>5
  <2>8. JobsTyped' /\ \A b \in Actors : JobOk(b)'
    BY <1>2, <2>2, <2>3, <2>5, <2>6, <2>7, OneMoves DEF ServerInv
  <2> QED BY <1>2, <2>8 DEF JobsFine
<1>6. CASE Analyze(a)
  <2>1. job[a].pc = "analyze" /\ call[a].asked.config = HealthOf[job[a].settings]
    BY <1>1, <1>6 DEF Analyze, At, JobOk
  <2>2. CASE Cache!Begin(a) /\ UNCHANGED job
    BY <1>2, <2>2 DEF ServerInv, JobsFine, JobsTyped, JobOk, RoleOk, Cache!Begin
  <2>3. CASE (Cache!Complete(a) \/ Cache!Join(a)) /\ Goto(a, "check")
    <3>1. PICK v : v # NoKey /\ call' = [call EXCEPT ![a].entry = NoEntry, ![a].answer = v]
      BY <1>1, <2>3
      DEF Cache!Complete, Cache!Join, Calls!IInv, Calls!CacheTypeOK, Calls!Matched
    <3>2. /\ call'[a].answer = v /\ call'[a].asked = call[a].asked
          /\ \A b \in Actors \ {a} : call'[b] = call[b]
      BY <1>1, <3>1, CallsTyped
    <3> QED BY <1>2, <2>1, <2>3, <3>1, <3>2, Goes DEF Reporting, Sending
  <2> QED BY <1>2, <1>6, <2>2, <2>3 DEF Analyze
<1> QED BY <1>3, <1>4, <1>5, <1>6 DEF ReportStep

LEMMA PublishJobs ==
    ASSUME ServerInv, NEW a \in Actors, a \notin Requests, PublishStep(a)
    PROVE  JobsFine' /\ DocsTyped'
<1>1. JobOk(a) /\ DocsTyped
  BY DEF ServerInv
<1>2. DocsTyped' /\ alive' = alive
  BY <1>1
  DEF PublishStep, Check, CheckSettings, NotifyFileHealth, PublishDiagnostics, DocsTyped, docVars
<1>3. /\ job[a].pc \in {"check"} \cup Sending
      /\ job[a].pc \in Reporting \cup Sending
  BY DEF PublishStep, Check, CheckSettings, NotifyFileHealth, PublishDiagnostics, At, Reporting,
         Sending
<1>4. CASE Return(a)
  BY <1>2, <1>3, <1>4, Returns
<1>5. ASSUME NEW p \in Sending, Goto(a, p), call' = call
      PROVE  JobsFine'
  <2>1. call'[a].asked.config = HealthOf[job[a].settings] /\ call'[a].answer # NoKey
    BY <1>1, <1>3, <1>5 DEF JobOk
  <2>2. p \in {"settings", "status", "diags"}
    BY <1>5 DEF Sending
  <2> QED BY <1>2, <1>3, <1>5, <2>1, <2>2, Goes
<1>6. Return(a) \/ \E p \in Sending : Goto(a, p) /\ call' = call
  BY DEF PublishStep, Check, CheckSettings, NotifyFileHealth, PublishDiagnostics, cacheVars,
         Sending
<1> QED BY <1>2, <1>4, <1>5, <1>6

LEMMA TaskJobs ==
    ASSUME ServerInv, NEW e \in EditIds, Wake(e) \/ Stop(e) \/ End(e)
    PROVE  JobsFine' /\ DocsTyped'
<1>1. JobsTyped /\ JobOk(e) /\ DocsTyped /\ Calls!IInv
      /\ e \in Actors /\ e # Handler /\ e \notin Requests
  BY ActorsApart DEF ServerInv
<1>2. DocsTyped' /\ alive' = alive
  BY <1>1 DEF Wake, Stop, End, DocsTyped, docVars
<1>3. job[e].uri \in Uris /\ \A b \in Actors \ {e} : call'[b] = call[b]
  <2>1. job[e].uri \in Uris
    BY <1>1 DEF Wake, Stop, End, At, JobOk, Reporting
  <2>2. \A b \in Actors \ {e} : call'[b] = call[b]
    BY <1>1, CallsTyped DEF Wake, Stop, End, Cache!Abandon, cacheVars
  <2> QED BY <2>1, <2>2
<1>4. /\ "wait" \in Places /\ "wait" \in Reporting /\ "wait" \notin Sending
      /\ \A p \in {"finish", "done"} : p \in Places /\ p \in Resting
                                      /\ p \notin Reporting \cup Sending
  BY DEF Places, Reporting, Sending, Resting
<1>5. CASE Wake(e) /\ alive
  <2>1. job' = [job EXCEPT ![e] = Job("wait", job[e].uri, InForce, NoDoc)]
    BY <1>5 DEF Wake
  <2>2. JobsTyped' /\ \A b \in Actors : JobOk(b)'
    BY <1>1, <1>2, <1>3, <1>4, <1>5, <2>1, InForceTyped, OneMoves DEF ServerInv
  <2> QED BY <1>2, <2>2 DEF JobsFine
<1>6. CASE Wake(e) /\ ~alive
  <2>1. Goto(e, "finish")
    BY <1>6 DEF Wake
  <2>2. "finish" \notin {"check"} \cup Sending
    BY DEF Sending
  <2> QED BY <1>1, <1>2, <1>3, <2>1, <2>2, Goes
<1>7. CASE Stop(e)
  <2>1. job' = [job EXCEPT ![e] = Job("finish", job[e].uri, NoSettings, NoDoc)]
    BY <1>7 DEF Stop
  <2>2. JobsTyped' /\ \A b \in Actors : JobOk(b)'
    BY <1>1, <1>2, <1>3, <1>4, <2>1, OneMoves DEF ServerInv
  <2> QED BY <1>2, <2>2 DEF JobsFine
<1>8. CASE End(e)
  <2>1. job' = [job EXCEPT ![e] = Job("done", NoUri, NoSettings, NoDoc)]
    BY <1>8 DEF End
  <2>2. "done" \notin Handling
    BY DEF Handling
  <2>3. JobsTyped' /\ \A b \in Actors : JobOk(b)'
    BY <1>1, <1>2, <1>3, <1>4, <2>1, <2>2, OneMoves DEF ServerInv
  <2> QED BY <1>2, <2>3 DEF JobsFine
<1> QED BY <1>5, <1>6, <1>7, <1>8

LEMMA JobsStep ==
    ASSUME ServerInv, [Next]_vars
    PROVE  JobsFine' /\ DocsTyped'
<1>1. CASE HandlerStep
  BY <1>1, ActorsApart, HandlerJobs, ReportJobs, PublishJobs DEF HandlerStep
<1>2. ASSUME NEW e \in EditIds, TaskStep(e) PROVE JobsFine' /\ DocsTyped'
  BY <1>2, ActorsApart, TaskJobs, ReportJobs, PublishJobs DEF TaskStep
<1>3. ASSUME NEW r \in Requests, RequestStep(r) PROVE JobsFine' /\ DocsTyped'
  <2>1. CASE ReportStep(r)
    BY <2>1, ActorsApart, ReportJobs
  <2>2. CASE Reply(r)
    <3>1. job[r].pc \in Reporting /\ r \in Actors /\ Return(r) /\ alive' = alive
      BY <2>2, ActorsApart DEF Reply, At, Reporting
    <3>2. DocsTyped'
      BY <2>2 DEF Reply, ServerInv, DocsTyped, docVars
    <3> QED BY <3>1, <3>2, Returns
  <2> QED BY <1>3, <2>1, <2>2 DEF RequestStep
<1>4. ASSUME NEW r \in Requests, NEW u \in Uris, Request(r, u)
      PROVE  JobsFine' /\ DocsTyped'
  <2>1. /\ job' = [job EXCEPT ![r] = Job("wait", u, InForce, NoDoc)]
        /\ r \in Actors /\ r \notin EditIds /\ r # Handler
        /\ alive /\ alive' = alive /\ call' = call
    BY <1>4, ActorsApart DEF Request, cacheVars
  <2>2. "wait" \in Places /\ "wait" \in Reporting /\ "wait" \notin Sending
    BY DEF Places, Reporting, Sending
  <2>3. JobsTyped' /\ \A b \in Actors : JobOk(b)'
    BY <2>1, <2>2, InForceTyped, OneMoves DEF ServerInv
  <2> QED BY <1>4, <2>3 DEF Request, JobsFine, ServerInv, DocsTyped, docVars
<1>5. CASE DropState
  BY <1>5
  DEF DropState, Cache!DropCache, ServerInv, JobsFine, JobsTyped, JobOk, RoleOk, Resting,
      DocsTyped, docVars
<1>6. CASE Tick \/ UNCHANGED vars
  BY <1>6
  DEF Tick, vars, cacheVars, docVars, ServerInv, JobsFine, JobsTyped, JobOk, RoleOk, DocsTyped
<1> QED BY <1>1, <1>2, <1>3, <1>4, <1>5, <1>6, NotifyJobs DEF Next, Server

-----------------------------------------------------------------------------
(* The cache and the debounce in the server's steps                         *)

LEMMA CallsStep ==
    ASSUME ServerInv, [Next]_vars
    PROVE  CacheStep
<1>1. CASE \E a \in Actors : LookUp(a)
  <2>1. PICK a \in Actors : LookUp(a)
    BY <1>1
  <2>2. JobsTyped /\ JobOk(a) /\ job[a].pc = "lookup"
    BY <2>1 DEF ServerInv, LookUp, At
  <2>3. job[a].uri \in Uris /\ job[a].settings \in Settings /\ job[a].snap \in Docs
    BY <2>2 DEF JobOk, Reporting
  <2>4. PICK k : /\ k = [lang |-> job[a].snap.lang, text |-> job[a].snap.text,
                         version |-> job[a].snap.version, config |-> HealthOf[job[a].settings]]
                 /\ Cache!Lookup(a, job[a].uri, k)
    BY <2>1 DEF LookUp
  <2>5. k \in Keys
    BY <2>3, <2>4 DEF Docs, Keys
  <2> QED BY <2>3, <2>4, <2>5 DEF CacheStep
<1>2. CASE \E a \in Actors : Waits(a) \/ Capture(a) \/ Analyze(a) \/ PublishStep(a) \/ Reply(a)
  BY <1>2
  DEF Waits, Capture, Analyze, PublishStep, Check, CheckSettings, NotifyFileHealth,
      PublishDiagnostics, Reply,
      Return, CacheStep
<1>3. CASE \/ OnOpen \/ OnChange \/ OnClose \/ ClearDiagnostics \/ Republished
           \/ \E u \in Uris : Republish(u)
  BY <1>3 DEF OnOpen, OnChange, OnClose, ClearDiagnostics, Republished, Republish, CacheStep
<1>4. CASE ForgetClosed
  <2>1. JobOk(Handler) /\ job[Handler].pc = "forget"
    BY <1>4, ActorsApart DEF ServerInv, ForgetClosed, At
  <2>2. job[Handler].uri \in Uris
    BY <2>1 DEF JobOk, Handling
  <2> QED BY <1>4, <2>2 DEF ForgetClosed, CacheStep
<1>5. CASE \E e \in EditIds : Wake(e) \/ Stop(e) \/ End(e)
  BY <1>5, ActorsApart DEF Wake, Stop, End, CacheStep
<1>6. CASE ClientNotifies \/ \E r \in Requests, u \in Uris : Request(r, u)
  BY <1>6
  DEF ClientNotifies, DidOpen, DidChange, DidClose, DidSave, DidChangeConfiguration, Receive,
      Request, CacheStep
<1>7. CASE DropState \/ Tick \/ UNCHANGED vars
  BY <1>7 DEF DropState, Tick, vars, CacheStep
<1> QED
  BY <1>1, <1>2, <1>3, <1>4, <1>5, <1>6, <1>7, ActorsApart
  DEF Next, Server, HandlerStep, TaskStep, RequestStep, ReportStep

(* A step that leaves the edits alone, or only takes entries off the map.   *)
LEMMA Undisturbed ==
    ASSUME ServerInv, UNCHANGED <<issued, elapsed, on>>,
           pending' \in [Uris -> 0 .. MaxEdits],
           \A u \in Uris : pending'[u] \in {pending[u], 0},
           job'[Handler] = job[Handler] \/ job'[Handler].pc # "wait"
    PROVE  EditsTyped' /\ QuietHandler'
<1>1. EditsTyped /\ QuietHandler /\ JobOk(Handler)
  BY ActorsApart DEF ServerInv
<1>2. job[Handler].pc = "wait" => job[Handler].uri \in Uris
  BY <1>1 DEF JobOk, Reporting
<1> QED BY <1>1, <1>2 DEF EditsTyped, QuietHandler

(* A flush, by whichever handler: its document has no edit to wait for.     *)
LEMMA Flushed ==
    ASSUME ServerInv, NEW u \in Uris, Edits!Cancel(u),
           job'[Handler].pc = "wait" => job'[Handler].uri = u
    PROVE  EditsTyped' /\ QuietHandler'
<1>1. pending' = [pending EXCEPT ![u] = 0] /\ UNCHANGED <<issued, elapsed, on>>
  BY DEF Edits!Cancel, Edits!NoEdit
<1> QED BY <1>1, ServerAssumption DEF ServerInv, EditsTyped, QuietHandler

LEMMA HandlerEdits ==
    ASSUME ServerInv,
           \/ OnOpen \/ OnChange \/ OnClose \/ ForgetClosed \/ ClearDiagnostics
           \/ \E u \in Uris : Republish(u) \/ DidSave(u)
           \/ Republished
    PROVE  EditsTyped' /\ QuietHandler'
<1>1. JobsTyped /\ JobOk(Handler) /\ EditsTyped /\ QuietHandler /\ Handler \in Actors
  BY ActorsApart DEF ServerInv
<1>2. CASE OnOpen \/ OnClose
  <2>1. job[Handler].uri \in Uris
    BY <1>1, <1>2 DEF OnOpen, OnClose, At, JobOk, Handling
  <2>2. Edits!Cancel(job[Handler].uri)
    BY <1>2 DEF OnOpen, OnClose
  <2>3. job'[Handler].uri = job[Handler].uri
    BY <1>1, <1>2 DEF OnOpen, OnClose, Publishing, Goto, Job, JobsTyped
  <2> QED BY <2>1, <2>2, <2>3, Flushed
<1>3. ASSUME NEW u \in Uris, Republish(u) \/ DidSave(u) PROVE EditsTyped' /\ QuietHandler'
  <2>1. Edits!Cancel(u) /\ job'[Handler].uri = u
    BY <1>1, <1>3 DEF Republish, DidSave, Publishing, Job, JobsTyped
  <2> QED BY <2>1, Flushed
<1>4. CASE OnChange
  <2>1. PICK u : Edits!Schedule(u)
    BY <1>4 DEF OnChange
  <2>2. /\ pending' = [pending EXCEPT ![u] = issued + 1]
        /\ issued' = issued + 1 /\ issued < MaxEdits
        /\ UNCHANGED <<elapsed, on>>
    BY <2>1 DEF Edits!Schedule
  <2>3. EditsTyped'
    <3>1. issued + 1 \in 0 .. MaxEdits
      BY <1>1, <2>2, ServerAssumption DEF EditsTyped
    <3> QED BY <1>1, <2>2, <3>1 DEF EditsTyped
  <2>4. issued + 1 \in EditIds
    BY <1>1, <2>2, ServerAssumption DEF EditsTyped, EditIds
  <2>5. job'[Handler] = NoJob
    BY <1>1, <1>4, <2>4, ActorsApart DEF OnChange, JobsTyped
  <2> QED BY <1>1, <2>2, <2>3, <2>5 DEF QuietHandler, NoJob, Job
<1>5. CASE ForgetClosed \/ ClearDiagnostics \/ Republished
  <2>1. job'[Handler].pc \in {"clear", "idle"} /\ UNCHANGED editVars
    BY <1>1, <1>5
    DEF ForgetClosed, ClearDiagnostics, Republished, Goto, NoJob, Job, JobsTyped
  <2> QED BY <1>1, <2>1, Undisturbed DEF editVars, EditsTyped
<1> QED BY <1>2, <1>3, <1>4, <1>5

(* report_for()'s wait: the handler's document is quiet, it reads the map   *)
(* once.                                                                    *)
LEMMA WaitsEdits ==
    ASSUME ServerInv, NEW a \in Actors, Waits(a)
    PROVE  EditsTyped' /\ QuietHandler'
<1>1. JobsTyped /\ JobOk(a) /\ JobOk(Handler) /\ EditsTyped /\ QuietHandler /\ Handler \in Actors
  BY ActorsApart DEF ServerInv
<1>2. job[a].pc = "wait" /\ job[a].uri \in Uris
  BY <1>1 DEF Waits, At, JobOk, Reporting
<1>3. CASE Edits!WaitReturns(a, job[a].uri) /\ Goto(a, "capture")
  <2>1. UNCHANGED <<pending, issued, elapsed, on>>
    BY <1>3 DEF Edits!WaitReturns, Edits!debounceVars
  <2>2. job'[Handler] = job[Handler] \/ job'[Handler].pc # "wait"
    BY <1>1, <1>3 DEF Goto, JobsTyped
  <2> QED BY <1>1, <2>1, <2>2, Undisturbed DEF EditsTyped
<1>4. CASE Edits!WaitSleeps(a, job[a].uri) /\ UNCHANGED job
  <2>1. /\ on' = [on EXCEPT ![a] = pending[job[a].uri]] /\ UNCHANGED <<pending, issued, elapsed>>
        /\ ~(pending[job[a].uri] <= elapsed)
    BY <1>4 DEF Edits!WaitSleeps, Edits!Quiet
  <2>2. a # Handler
    BY <1>1, <1>2, <2>1, ServerAssumption DEF QuietHandler, EditsTyped
  <2> QED BY <1>1, <1>2, <1>4, <2>1, <2>2 DEF EditsTyped, QuietHandler
<1>5. CASE Edits!WaitWakes(a) /\ UNCHANGED job
  <2>1. on' = [on EXCEPT ![a] = 0] /\ UNCHANGED <<pending, issued, elapsed>>
    BY <1>5 DEF Edits!WaitWakes, Edits!NoEdit
  <2> QED BY <1>1, <1>5, <2>1, ServerAssumption DEF EditsTyped, QuietHandler
<1> QED BY <1>3, <1>4, <1>5 DEF Waits

LEMMA TaskEdits ==
    ASSUME ServerInv, NEW e \in EditIds, Wake(e) \/ Stop(e) \/ End(e)
    PROVE  EditsTyped' /\ QuietHandler'
<1>1. JobsTyped /\ EditsTyped /\ QuietHandler /\ JobOk(Handler) /\ e \in Actors /\ e # Handler
      /\ Handler \in Actors
  BY ActorsApart DEF ServerInv
<1>2. job'[Handler] = job[Handler]
  BY <1>1 DEF Wake, Stop, End, Goto, JobsTyped
<1>3. CASE Wake(e)
  BY <1>1, <1>2, <1>3, Undisturbed DEF Wake, editVars, EditsTyped
<1>4. CASE Stop(e)
  <2>1. on' = [on EXCEPT ![e] = 0] /\ UNCHANGED <<pending, issued, elapsed>>
    BY <1>4 DEF Stop, Edits!WaitDropped, Edits!NoEdit
  <2> QED BY <1>1, <1>2, <2>1, ServerAssumption DEF EditsTyped, QuietHandler
<1>5. CASE End(e)
  <2>1. UNCHANGED <<issued, elapsed, on>>
    BY <1>5 DEF End, Edits!Finish, editVars
  <2>2. pending' \in [Uris -> 0 .. MaxEdits] /\ \A u \in Uris : pending'[u] \in {pending[u], 0}
    BY <1>1, <1>5, ServerAssumption DEF End, Edits!Finish, Edits!NoEdit, editVars, EditsTyped
  <2> QED BY <1>2, <2>1, <2>2, Undisturbed
<1> QED BY <1>3, <1>4, <1>5

(* The steps that are no business of the debounce.                          *)
LEMMA OtherEdits ==
    ASSUME ServerInv, NEW a \in Actors,
           \/ Capture(a) \/ LookUp(a) \/ Analyze(a) \/ Reply(a) \/ PublishStep(a)
    PROVE  EditsTyped' /\ QuietHandler'
<1>1. JobsTyped /\ EditsTyped /\ Handler \in Actors
  BY ActorsApart DEF ServerInv
<1>2. UNCHANGED editVars
  BY DEF Capture, LookUp, Analyze, Reply, PublishStep, Check, CheckSettings, NotifyFileHealth,
         PublishDiagnostics
<1>3. job'[Handler] = job[Handler] \/ job'[Handler].pc # "wait"
  <2>1. CASE Return(a)
    BY <1>1, <2>1 DEF Return, Job, NoJob, JobsTyped
  <2>2. ASSUME NEW p \in {"check"} \cup Sending, Goto(a, p)
        PROVE  job'[Handler] = job[Handler] \/ job'[Handler].pc # "wait"
    BY <1>1, <2>2 DEF Goto, JobsTyped, Sending
  <2>3. ASSUME NEW p \in {"lookup", "analyze"}, NEW d,
               job' = [job EXCEPT ![a] = Job(p, job[a].uri, job[a].settings, d)]
        PROVE  job'[Handler] = job[Handler] \/ job'[Handler].pc # "wait"
    BY <1>1, <2>3 DEF Job, JobsTyped
  <2>4. CASE UNCHANGED job
    BY <2>4
  <2> QED
    BY <2>1, <2>2, <2>3, <2>4
    DEF Capture, LookUp, Analyze, Reply, PublishStep, Check, CheckSettings, NotifyFileHealth,
        PublishDiagnostics, Sending
<1> QED BY <1>1, <1>2, <1>3, Undisturbed DEF editVars, EditsTyped

LEMMA EditsStep ==
    ASSUME ServerInv, [Next]_vars
    PROVE  EditsTyped' /\ QuietHandler'
<1>1. JobsTyped /\ EditsTyped /\ Handler \in Actors
  BY ActorsApart DEF ServerInv
<1>2. CASE ClientNotifies
  <2>1. ASSUME NEW u \in Uris, NEW d, NEW p \in {"open", "change", "close"}, Receive(u, d, p)
        PROVE  EditsTyped' /\ QuietHandler'
    <3>1. UNCHANGED editVars /\ job'[Handler].pc # "wait"
      BY <1>1, <2>1 DEF Receive, Job, JobsTyped
    <3> QED BY <1>1, <3>1, Undisturbed DEF editVars, EditsTyped
  <2>2. ASSUME NEW s \in Settings, DidChangeConfiguration(s)
        PROVE  EditsTyped' /\ QuietHandler'
    <3>1. UNCHANGED editVars /\ job'[Handler].pc # "wait"
      BY <1>1, <2>2 DEF DidChangeConfiguration, Job, JobsTyped
    <3> QED BY <1>1, <3>1, Undisturbed DEF editVars, EditsTyped
  <2>3. ASSUME NEW u \in Uris, NEW t \in Texts,
               DidChange(u, t) \/ \E l \in Languages : DidOpen(u, l, t)
        PROVE  EditsTyped' /\ QuietHandler'
    BY <2>1, <2>3 DEF DidChange, DidOpen
  <2>4. ASSUME NEW u \in Uris, DidClose(u)
        PROVE  EditsTyped' /\ QuietHandler'
    BY <2>1, <2>4 DEF DidClose
  <2> QED BY <1>2, <2>2, <2>3, <2>4, HandlerEdits DEF ClientNotifies
<1>3. CASE \E r \in Requests, u \in Uris : Request(r, u)
  <2>1. UNCHANGED editVars /\ job'[Handler] = job[Handler]
    BY <1>1, <1>3, ActorsApart DEF Request, JobsTyped
  <2> QED BY <1>1, <2>1, Undisturbed DEF editVars, EditsTyped
<1>4. CASE DropState
  <2>1. pending' = [u \in Uris |-> 0] /\ UNCHANGED <<issued, elapsed, on, job>>
    BY <1>4 DEF DropState, Edits!Drop, Edits!NoEdit
  <2> QED BY <1>1, <2>1, ServerAssumption, Undisturbed
<1>5. CASE Tick
  <2>1. elapsed < issued /\ elapsed' = elapsed + 1 /\ UNCHANGED <<pending, issued, on, job>>
    BY <1>5 DEF Tick, Edits!Elapse
  <2> QED BY <1>1, <2>1, ServerAssumption DEF ServerInv, EditsTyped, QuietHandler
<1>6. CASE UNCHANGED vars
  BY <1>1, <1>6, Undisturbed DEF vars, editVars, EditsTyped
<1> QED
  BY <1>2, <1>3, <1>4, <1>5, <1>6, ActorsApart, HandlerEdits, WaitsEdits, TaskEdits, OtherEdits
  DEF Next, Server, HandlerStep, TaskStep, RequestStep, ReportStep

-----------------------------------------------------------------------------
(* The invariant, and what follows from it                                  *)

LEMMA ServerInitial == Init => ServerInv
<1> SUFFICES ASSUME Init PROVE ServerInv
  OBVIOUS
<1>1. job = [a \in Actors |-> NoJob] /\ alive = TRUE
  BY DEF Init
<1>2. JobsTyped /\ \A a \in Actors : JobOk(a)
  BY <1>1 DEF JobsTyped, JobOk, RoleOk, NoJob, Job, Places, Reporting, Sending, Resting, Handling
<1>3. EditsTyped /\ QuietHandler
  BY <1>1, ActorsApart, ServerAssumption
  DEF Init, Edits!DebounceInit, Edits!NoEdit, EditsTyped, QuietHandler, NoJob, Job
<1>4. DocsTyped
  BY DEF Init, DocsTyped
<1>5. Calls!IInv
  BY CacheAssumed, SameCache, Calls!InitEstablishes DEF Init
<1> QED BY <1>2, <1>3, <1>4, <1>5 DEF ServerInv

LEMMA ServerInductive == ServerInv /\ [Next]_vars => ServerInv'
BY JobsStep, CallsStep, EditsStep, CacheStepPreserves DEF ServerInv, JobsFine

LEMMA ServerInvariant == Spec => []ServerInv
BY ServerInitial, ServerInductive, PTL DEF Spec

(* Whatever publish() renders or a request is answered with was scored with *)
(* the settings captured when it started: report() answers the question it  *)
(* was asked, and the question was put with those settings, whichever call  *)
(* computed the entry and whatever did_change_configuration did since.      *)
THEOREM RenderedAsCaptured == Spec => []ScoredWithItsSettings
<1>1. ServerInv => ScoredWithItsSettings
  <2> SUFFICES ASSUME ServerInv, NEW a \in Actors, job[a].pc \in {"check"} \cup Sending
               PROVE  Analyzed(a).config = HealthOf[job[a].settings]
    BY DEF ScoredWithItsSettings, Sending
  <2>1. JobOk(a) /\ Calls!AnswersTheQuestion
    BY DEF ServerInv, Calls!IInv
  <2>2. call[a].answer # NoKey /\ call[a].asked.config = HealthOf[job[a].settings]
    BY <2>1 DEF JobOk, Sending
  <2>3. call[a].answer = call[a].asked
    BY <2>1, <2>2 DEF Calls!AnswersTheQuestion
  <2> QED BY <2>2, <2>3 DEF Analyzed
<1> QED BY <1>1, ServerInvariant, PTL

(* No handler ever sleeps in wait(): each flushes its document's edit       *)
(* before it publishes, and no other handler runs that could schedule       *)
(* another while it reads the map.                                          *)
THEOREM HandlersRunThrough == Spec => []HandlerNeverWaits
<1>1. ServerInv => HandlerNeverWaits
  BY DEF ServerInv, QuietHandler, HandlerNeverWaits, Edits!NoEdit
<1> QED BY <1>1, ServerInvariant, PTL

-----------------------------------------------------------------------------
(* Refinement: what EditTasks sees of a step                                *)

Asks(r) == IF job[r].pc = "wait" THEN job[r].uri ELSE NoUri
OnMap == [r \in Requests |-> on[r]]
TaskMap == [e \in EditIds |-> TaskOf(e)]
UriMap == [e \in EditIds |-> job[e].uri]
AskMap == [r \in Requests |-> Asks(r)]

LEMMA TaskOfPlace ==
    ASSUME NEW e
    PROVE  /\ job[e].pc = "idle" => TaskOf(e) = "none"
           /\ job[e].pc = "sleep" => TaskOf(e) = "sleeping"
           /\ job[e].pc = "finish" => TaskOf(e) = "finishing"
           /\ job[e].pc = "done" => TaskOf(e) = "done"
           /\ job[e].pc \in Reporting \cup Sending => TaskOf(e) = "publishing"
BY DEF TaskOf, Reporting, Sending

LEMMA TaskOfNextPlace ==
    ASSUME NEW e
    PROVE  /\ job'[e].pc = "sleep" => TaskOf(e)' = "sleeping"
           /\ job'[e].pc = "finish" => TaskOf(e)' = "finishing"
           /\ job'[e].pc = "done" => TaskOf(e)' = "done"
           /\ job'[e].pc \in Reporting \cup Sending => TaskOf(e)' = "publishing"
BY DEF TaskOf, Reporting, Sending

LEMMA Unmoved ==
    ASSUME NEW b, job'[b] = job[b]
    PROVE  TaskOf(b)' = TaskOf(b) /\ Asks(b)' = Asks(b)
BY DEF TaskOf, Asks

LEMMA NothingSeen ==
    ASSUME UNCHANGED <<pending, issued, cancelled, elapsed, alive>>,
           \A r \in Requests : on'[r] = on[r] /\ Asks(r)' = Asks(r),
           \A e \in EditIds : TaskOf(e)' = TaskOf(e) /\ job'[e].uri = job[e].uri
    PROVE  UNCHANGED Tasks!vars
<1>1. OnMap' = OnMap /\ TaskMap' = TaskMap /\ UriMap' = UriMap /\ AskMap' = AskMap
  BY DEF OnMap, TaskMap, UriMap, AskMap
<1> QED
  BY <1>1
  DEF Tasks!vars, Tasks!debounceVars, Tasks!taskVars, OnMap, TaskMap, UriMap, AskMap, Asks

(* One task moves.                                                          *)
LEMMA TaskSeen ==
    ASSUME NEW e \in EditIds, NEW t, TaskOf(e)' = t,
           \A b \in Actors \ {e, Handler} : job'[b] = job[b]
    PROVE  /\ TaskMap' = [TaskMap EXCEPT ![e] = t]
           /\ UriMap' = [UriMap EXCEPT ![e] = job'[e].uri]
           /\ AskMap' = AskMap
<1>1. \A b \in Actors \ {e, Handler} : TaskOf(b)' = TaskOf(b) /\ Asks(b)' = Asks(b)
  BY Unmoved
<1>2. \A d \in EditIds \ {e} : TaskOf(d)' = TaskOf(d) /\ job'[d].uri = job[d].uri
  BY <1>1, ActorsApart
<1>3. \A r \in Requests : Asks(r)' = Asks(r)
  BY <1>1, ActorsApart
<1> QED BY <1>2, <1>3 DEF TaskMap, UriMap, AskMap

(* The handler moves, and no edit is scheduled.                             *)
LEMMA HandlerUnseen ==
    ASSUME UNCHANGED <<issued, elapsed, on>>, \A b \in Actors \ {Handler} : job'[b] = job[b]
    PROVE  /\ OnMap' = OnMap /\ TaskMap' = TaskMap /\ UriMap' = UriMap /\ AskMap' = AskMap
           /\ \A r \in Requests : Asks(r)' = Asks(r)
           /\ \A e \in EditIds : TaskOf(e)' = TaskOf(e) /\ job'[e].uri = job[e].uri
BY Unmoved, ActorsApart DEF OnMap, TaskMap, UriMap, AskMap

TasksStep == Tasks!Next \/ UNCHANGED Tasks!vars

LEMMA FlushSeen ==
    ASSUME ServerInv, NEW u \in Uris, Edits!Cancel(u), alive, alive' = alive,
           \A b \in Actors \ {Handler} : job'[b] = job[b]
    PROVE  Tasks!Next
<1>1. OnMap' = OnMap /\ TaskMap' = TaskMap /\ UriMap' = UriMap /\ AskMap' = AskMap
  BY HandlerUnseen DEF Edits!Cancel
<1>2. Tasks!Cancel(u)
  BY <1>1 DEF Edits!Cancel, Tasks!Cancel, Edits!NoEdit, Tasks!NoEdit, OnMap
<1>3. UNCHANGED Tasks!taskVars
  BY <1>1 DEF Tasks!taskVars, TaskMap, UriMap, AskMap, Asks
<1>4. Tasks!Flush(u)
  BY <1>2, <1>3 DEF Tasks!Flush
<1> QED BY <1>4 DEF Tasks!Next

LEMMA HandlerSeen ==
    ASSUME ServerInv,
           \/ OnOpen \/ OnChange \/ OnClose \/ ForgetClosed \/ ClearDiagnostics
           \/ \E u \in Uris : Republish(u)
           \/ Republished \/ ClientNotifies
    PROVE  TasksStep
<1>1. JobsTyped /\ JobOk(Handler) /\ EditsTyped /\ Handler \in Actors
  BY ActorsApart DEF ServerInv
<1>2. ASSUME NEW j, job' = [job EXCEPT ![Handler] = j]
      PROVE  \A b \in Actors \ {Handler} : job'[b] = job[b]
  BY <1>1, <1>2 DEF JobsTyped
<1>3. CASE OnOpen \/ OnClose
  <2>1. job[Handler].uri \in Uris /\ alive /\ alive' = alive
    BY <1>1, <1>3 DEF OnOpen, OnClose, At, JobOk, Handling, Resting
  <2>2. Edits!Cancel(job[Handler].uri)
    BY <1>3 DEF OnOpen, OnClose
  <2>3. \A b \in Actors \ {Handler} : job'[b] = job[b]
    BY <1>2, <1>3 DEF OnOpen, OnClose, Publishing, Goto
  <2> QED BY <2>1, <2>2, <2>3, FlushSeen DEF TasksStep
<1>4. ASSUME NEW u \in Uris, Republish(u) \/ DidSave(u) PROVE TasksStep
  <2>1. alive /\ alive' = alive /\ Edits!Cancel(u)
    BY <1>1, <1>4 DEF Republish, DidSave, Deliver, At, JobOk, Resting
  <2>2. \A b \in Actors \ {Handler} : job'[b] = job[b]
    BY <1>2, <1>4 DEF Republish, DidSave, Publishing
  <2> QED BY <2>1, <2>2, FlushSeen DEF TasksStep
<1>5. CASE OnChange
  <2>1. PICK u \in Uris : u = job[Handler].uri
    BY <1>1, <1>5 DEF OnChange, At, JobOk, Handling
  <2>2. Edits!Schedule(u) /\ alive /\ alive' = alive
    BY <1>1, <1>5, <2>1 DEF OnChange, At, JobOk, Resting
  <2>3. PICK e \in EditIds : e = issued + 1 /\ e \in Actors /\ e # Handler
    BY <1>1, <2>2, ActorsApart, ServerAssumption DEF Edits!Schedule, EditsTyped, EditIds
  <2>4. job' = [job EXCEPT ![Handler] = NoJob, ![e] = Job("sleep", u, NoSettings, NoDoc)]
    BY <1>5, <2>1, <2>3 DEF OnChange
  <2>5. /\ job'[e].pc = "sleep" /\ job'[e].uri = u
        /\ \A b \in Actors \ {e, Handler} : job'[b] = job[b]
    BY <1>1, <2>3, <2>4 DEF JobsTyped, Job
  <2>6. /\ TaskMap' = [TaskMap EXCEPT ![e] = "sleeping"]
        /\ UriMap' = [UriMap EXCEPT ![e] = u]
        /\ AskMap' = AskMap
    BY <2>5, TaskSeen, TaskOfNextPlace
  <2>7. Tasks!Schedule(u)
    BY <2>2 DEF Edits!Schedule, Tasks!Schedule, Edits!NoEdit, Tasks!NoEdit
  <2>8. Tasks!Change(u)
    BY <2>2, <2>3, <2>6, <2>7 DEF Tasks!Change, TaskMap, UriMap, AskMap, Asks
  <2> QED BY <2>8 DEF TasksStep, Tasks!Next
<1>6. ASSUME NEW j, job' = [job EXCEPT ![Handler] = j], UNCHANGED <<editVars, alive>>
      PROVE  TasksStep
  <2>1. \A b \in Actors \ {Handler} : job'[b] = job[b]
    BY <1>2, <1>6
  <2> QED BY <1>6, <2>1, HandlerUnseen, NothingSeen, ActorsApart DEF TasksStep, editVars
<1>7. CASE ForgetClosed \/ ClearDiagnostics \/ Republished
  BY <1>6, <1>7 DEF ForgetClosed, ClearDiagnostics, Republished, Goto
<1>8. CASE ClientNotifies
  <2>1. ASSUME NEW u, NEW d, NEW pc, Receive(u, d, pc) PROVE TasksStep
    BY <1>6, <2>1 DEF Receive
  <2>2. ASSUME NEW s, DidChangeConfiguration(s) PROVE TasksStep
    BY <1>6, <2>2 DEF DidChangeConfiguration
  <2> QED BY <1>4, <1>8, <2>1, <2>2 DEF ClientNotifies, DidOpen, DidChange, DidClose
<1> QED BY <1>3, <1>4, <1>5, <1>7, <1>8

(* report_for() and publish(), by whom they may be called.                  *)
LEMMA TaskReturnSeen ==
    ASSUME ServerInv, NEW e \in EditIds, Return(e), UNCHANGED <<editVars, alive>>,
           job[e].pc \in Reporting \cup Sending
    PROVE  Tasks!Next
<1>1. JobsTyped /\ e \in Actors /\ e # Handler /\ e \notin Requests
  BY ActorsApart DEF ServerInv
<1>2. job' = [job EXCEPT ![e] = Job("finish", job[e].uri, NoSettings, NoDoc)]
  BY <1>1 DEF Return
<1>3. /\ job'[e].pc = "finish" /\ job'[e].uri = job[e].uri
      /\ \A b \in Actors \ {e, Handler} : job'[b] = job[b]
  BY <1>1, <1>2 DEF JobsTyped, Job
<1>4. /\ TaskMap' = [TaskMap EXCEPT ![e] = "finishing"]
      /\ UriMap' = UriMap /\ AskMap' = AskMap /\ OnMap' = OnMap
      /\ TaskOf(e) = "publishing"
  BY <1>3, TaskSeen, TaskOfNextPlace, TaskOfPlace DEF UriMap, OnMap, editVars
<1>5. UNCHANGED Tasks!debounceVars
  BY <1>4 DEF Tasks!debounceVars, OnMap, editVars
<1>6. Tasks!Published(e)
  BY <1>4, <1>5 DEF Tasks!Published, TaskMap, UriMap, AskMap, Asks
<1>7. e \in Tasks!EditIds
  BY DEF EditIds, Tasks!EditIds
<1> QED BY <1>6, <1>7 DEF Tasks!Next, Tasks!TaskStep

(* A step within report_for() or publish() is not seen, but for a request   *)
(* that is in wait().                                                       *)
LEMMA WithinUnseen ==
    ASSUME ServerInv, NEW a \in Actors, NEW p \in Reporting \cup Sending,
           job[a].pc \in Reporting \cup Sending,
           job' = [job EXCEPT ![a] = Job(p, job[a].uri, job[a].settings, job'[a].snap)],
           a \in Requests => job[a].pc # "wait" /\ p # "wait",
           UNCHANGED <<pending, issued, cancelled, elapsed, alive>>,
           \A r \in Requests : on'[r] = on[r]
    PROVE  TasksStep
<1>1. JobsTyped
  BY DEF ServerInv
<1>2. job'[a].pc = p /\ job'[a].uri = job[a].uri /\ \A b \in Actors \ {a} : job'[b] = job[b]
  BY <1>1 DEF JobsTyped, Job
<1>3. \A b \in Actors \ {a} : TaskOf(b)' = TaskOf(b) /\ Asks(b)' = Asks(b)
  BY <1>2, Unmoved
<1>4. TaskOf(a)' = TaskOf(a)
  BY <1>2, TaskOfPlace, TaskOfNextPlace
<1>5. a \in Requests => Asks(a)' = Asks(a)
  BY <1>2 DEF Asks
<1>6. \A r \in Requests : on'[r] = on[r] /\ Asks(r)' = Asks(r)
  BY <1>3, <1>5, ActorsApart
<1>7. \A e \in EditIds : TaskOf(e)' = TaskOf(e) /\ job'[e].uri = job[e].uri
  BY <1>2, <1>3, <1>4, ActorsApart
<1>8. UNCHANGED Tasks!vars
  BY <1>6, <1>7, NothingSeen
<1> QED BY <1>8 DEF TasksStep

LEMMA ReturnSeen ==
    ASSUME ServerInv, NEW a \in Actors, Return(a), UNCHANGED <<editVars, alive>>,
           job[a].pc \in (Reporting \cup Sending) \ {"wait"}
    PROVE  TasksStep
<1>1. JobsTyped
  BY DEF ServerInv
<1>2. CASE a \in EditIds
  BY <1>2, TaskReturnSeen DEF TasksStep
<1>3. CASE a \notin EditIds
  <2>1. /\ job'[a].pc # "wait"
        /\ \A b \in Actors \ {a} : job'[b] = job[b]
    BY <1>1, <1>3 DEF JobsTyped, Return, Job, NoJob
  <2>2. Asks(a)' = Asks(a) /\ \A b \in Actors \ {a} : TaskOf(b)' = TaskOf(b) /\ Asks(b)' = Asks(b)
    BY <2>1, Unmoved DEF Asks
  <2>3. \A e \in EditIds : TaskOf(e)' = TaskOf(e) /\ job'[e].uri = job[e].uri
    BY <1>3, <2>1, <2>2, ActorsApart
  <2>4. \A r \in Requests : on'[r] = on[r] /\ Asks(r)' = Asks(r)
    BY <2>2, ActorsApart DEF editVars
  <2>5. UNCHANGED Tasks!vars
    BY <2>3, <2>4, NothingSeen DEF editVars
  <2> QED BY <2>5 DEF TasksStep
<1> QED BY <1>2, <1>3

LEMMA GoesSeen ==
    ASSUME ServerInv, NEW a \in Actors, NEW p \in (Reporting \cup Sending) \ {"wait"},
           job[a].pc \in (Reporting \cup Sending) \ {"wait"},
           Goto(a, p), UNCHANGED <<editVars, alive>>
    PROVE  TasksStep
<1>1. JobsTyped
  BY DEF ServerInv
<1>2. job' = [job EXCEPT ![a] = Job(p, job[a].uri, job[a].settings, job'[a].snap)]
  BY <1>1, WentTo DEF JobsTyped, Job
<1> QED BY <1>2, WithinUnseen DEF editVars

LEMMA ReportSeen ==
    ASSUME ServerInv, NEW a \in Actors,
           Capture(a) \/ LookUp(a) \/ Analyze(a) \/ Reply(a) \/ PublishStep(a)
    PROVE  TasksStep
<1>1. /\ JobsTyped /\ job[a].pc \in (Reporting \cup Sending) \ {"wait"}
      /\ UNCHANGED <<editVars, alive>>
  BY DEF ServerInv, Capture, LookUp, Analyze, Reply, PublishStep, Check, CheckSettings,
         NotifyFileHealth, PublishDiagnostics, At, Reporting, Sending
<1>2. CASE Return(a)
  BY <1>1, <1>2, ReturnSeen
<1>3. ASSUME NEW p \in {"check"} \cup Sending, Goto(a, p) PROVE TasksStep
  <2>1. p \in (Reporting \cup Sending) \ {"wait"}
    BY DEF Reporting, Sending
  <2> QED BY <1>1, <1>3, <2>1, GoesSeen
<1>4. ASSUME NEW p \in {"lookup", "analyze"}, NEW d,
             job' = [job EXCEPT ![a] = Job(p, job[a].uri, job[a].settings, d)]
      PROVE  TasksStep
  <2>1. p \in Reporting \cup Sending
    BY DEF Reporting
  <2>2. job' = [job EXCEPT ![a] = Job(p, job[a].uri, job[a].settings, job'[a].snap)]
    BY <1>1, <1>4 DEF JobsTyped, Job
  <2> QED BY <1>1, <2>1, <2>2, WithinUnseen DEF editVars
<1>5. CASE UNCHANGED job
  <2>1. \A b \in Actors : TaskOf(b)' = TaskOf(b) /\ Asks(b)' = Asks(b)
    BY <1>5, Unmoved
  <2>2. UNCHANGED Tasks!vars
    BY <1>1, <1>5, <2>1, NothingSeen, ActorsApart DEF editVars
  <2> QED BY <2>2 DEF TasksStep
<1> QED
  BY <1>2, <1>3, <1>4, <1>5
  DEF Capture, LookUp, Analyze, Reply, PublishStep, Check, CheckSettings, NotifyFileHealth,
      PublishDiagnostics, Sending

(* wait(), by a request.                                                    *)
LEMMA RequestWaits ==
    ASSUME ServerInv, NEW r \in Requests, Waits(r)
    PROVE  Tasks!Next
<1>1. JobsTyped /\ JobOk(r) /\ EditsTyped /\ r \in Actors
  BY ActorsApart DEF ServerInv
<1>2. job[r].pc = "wait" /\ job[r].uri \in Uris /\ alive' = alive
  BY <1>1 DEF Waits, At, JobOk, Reporting
<1>3. AskMap[r] = job[r].uri /\ AskMap[r] # NoUri /\ OnMap[r] = on[r]
  BY <1>2, ServerAssumption DEF AskMap, Asks, OnMap
<1>4. CASE Edits!WaitReturns(r, job[r].uri) /\ Goto(r, "capture")
  <2>1. /\ job'[r].pc = "capture" /\ \A b \in Actors \ {r} : job'[b] = job[b]
        /\ UNCHANGED <<pending, issued, cancelled, elapsed, on>>
    BY <1>1, <1>4 DEF JobsTyped, Goto, Edits!WaitReturns, Edits!debounceVars
  <2>2. \A b \in Actors \ {r} : TaskOf(b)' = TaskOf(b) /\ Asks(b)' = Asks(b)
    BY <2>1, Unmoved
  <2>3. Asks(r)' = NoUri
    BY <2>1 DEF Asks
  <2>4. AskMap' = [AskMap EXCEPT ![r] = NoUri] /\ TaskMap' = TaskMap /\ UriMap' = UriMap
        /\ OnMap' = OnMap
    BY <2>1, <2>2, <2>3, ActorsApart DEF AskMap, TaskMap, UriMap, OnMap
  <2>5. Tasks!WaitReturns(r, AskMap[r])
    BY <1>3, <1>4, <2>1, <2>4
    DEF Edits!WaitReturns, Tasks!WaitReturns, Edits!Quiet, Tasks!Quiet, Edits!NoEdit,
        Tasks!NoEdit, Tasks!debounceVars, OnMap
  <2>6. Tasks!Proceed(r)
    BY <1>2, <1>3, <2>4, <2>5 DEF Tasks!Proceed, AskMap, Asks, TaskMap, UriMap
  <2> QED BY <2>6 DEF Tasks!Next, Tasks!WaiterStep
<1>5. ASSUME UNCHANGED <<job, pending, issued, cancelled, elapsed>>
      PROVE  UNCHANGED Tasks!taskVars
  <2>1. AskMap' = AskMap /\ TaskMap' = TaskMap /\ UriMap' = UriMap
    BY <1>5, Unmoved DEF AskMap, TaskMap, UriMap
  <2> QED BY <1>2, <2>1 DEF Tasks!taskVars, AskMap, Asks, TaskMap, UriMap
<1>6. CASE Edits!WaitSleeps(r, job[r].uri) /\ UNCHANGED job
  <2>1. /\ on' = [on EXCEPT ![r] = pending[job[r].uri]]
        /\ UNCHANGED <<job, pending, issued, cancelled, elapsed>>
    BY <1>6 DEF Edits!WaitSleeps
  <2>2. OnMap' = [OnMap EXCEPT ![r] = pending[AskMap[r]]]
    BY <1>1, <1>3, <2>1, ActorsApart DEF OnMap, EditsTyped
  <2>3. Tasks!WaitSleeps(r, AskMap[r])
    BY <1>3, <1>6, <2>1, <2>2
    DEF Edits!WaitSleeps, Tasks!WaitSleeps, Edits!Quiet, Tasks!Quiet, Edits!NoEdit,
        Tasks!NoEdit, OnMap
  <2>4. Tasks!Sleep(r)
    BY <1>3, <1>5, <2>1, <2>3 DEF Tasks!Sleep, AskMap, Asks
  <2> QED BY <2>4 DEF Tasks!Next, Tasks!WaiterStep
<1>7. CASE Edits!WaitWakes(r) /\ UNCHANGED job
  <2>1. /\ on' = [on EXCEPT ![r] = 0]
        /\ UNCHANGED <<job, pending, issued, cancelled, elapsed>>
    BY <1>7 DEF Edits!WaitWakes, Edits!NoEdit
  <2>2. OnMap' = [OnMap EXCEPT ![r] = 0]
    BY <1>1, <2>1, ActorsApart DEF OnMap, EditsTyped
  <2>3. Tasks!WaitWakes(r)
    BY <1>3, <1>7, <2>1, <2>2
    DEF Edits!WaitWakes, Tasks!WaitWakes, Edits!NoEdit, Tasks!NoEdit, OnMap
  <2>4. Tasks!Rouse(r)
    BY <1>5, <2>1, <2>3 DEF Tasks!Rouse
  <2> QED BY <2>4 DEF Tasks!Next, Tasks!WaiterStep
<1> QED BY <1>4, <1>6, <1>7 DEF Waits

(* The handler and the tasks wait unseen: they are publishing.              *)
LEMMA PublisherWaits ==
    ASSUME ServerInv, NEW a \in Actors, a \notin Requests, Waits(a)
    PROVE  TasksStep
<1>1. JobsTyped /\ EditsTyped /\ job[a].pc = "wait" /\ alive' = alive
  BY DEF ServerInv, Waits, At
<1>2. UNCHANGED <<pending, issued, cancelled, elapsed>> /\ \A r \in Requests : on'[r] = on[r]
  BY <1>1, ActorsApart
  DEF Waits, EditsTyped, Edits!WaitReturns, Edits!WaitSleeps, Edits!WaitWakes,
      Edits!debounceVars
<1>3. PICK p \in {"wait", "capture"} :
          job' = [job EXCEPT ![a] = Job(p, job[a].uri, job[a].settings, job'[a].snap)]
  <2>1. CASE Goto(a, "capture")
    BY <1>1, <2>1, WentTo DEF JobsTyped, Job
  <2>2. CASE UNCHANGED job
    BY <1>1, <2>2 DEF JobsTyped, Job
  <2> QED BY <2>1, <2>2 DEF Waits
<1>4. p \in Reporting \cup Sending /\ job[a].pc \in Reporting \cup Sending
  BY <1>1 DEF Reporting
<1> QED BY <1>1, <1>2, <1>3, <1>4, WithinUnseen

(* The task around publish().                                               *)
LEMMA TaskAround ==
    ASSUME ServerInv, NEW e \in EditIds, Wake(e) \/ Stop(e) \/ End(e)
    PROVE  Tasks!Next
<1>1. JobsTyped /\ JobOk(e) /\ EditsTyped /\ e \in Actors /\ e # Handler /\ e \notin Requests
      /\ e \in Tasks!EditIds /\ alive' = alive
  BY ActorsApart DEF ServerInv, EditIds, Tasks!EditIds, Wake, Stop, End
<1>2. \A b \in Actors \ {e, Handler} : job'[b] = job[b]
  BY <1>1 DEF Wake, Stop, End, Goto, JobsTyped
<1>3. TaskMap[e] = TaskOf(e) /\ UriMap[e] = job[e].uri
  BY DEF TaskMap, UriMap
<1>4. CASE Wake(e)
  <2>1. /\ job'[e].uri = job[e].uri /\ job[e].pc = "sleep"
        /\ job'[e].pc = (IF alive THEN "wait" ELSE "finish")
        /\ e <= elapsed /\ e \notin cancelled /\ UNCHANGED editVars
    BY <1>1, <1>4 DEF Wake, At, Polled, Goto, JobsTyped, Job
  <2>2. TaskOf(e)' = (IF alive THEN "publishing" ELSE "finishing")
    BY <2>1, TaskOfNextPlace DEF Reporting
  <2>3. /\ TaskMap' = [TaskMap EXCEPT ![e] = IF alive THEN "publishing" ELSE "finishing"]
        /\ UriMap' = UriMap /\ AskMap' = AskMap /\ OnMap' = OnMap
    BY <1>2, <2>1, <2>2, TaskSeen DEF UriMap, OnMap, editVars
  <2>4. TaskMap[e] = "sleeping" /\ UNCHANGED Tasks!debounceVars
    BY <1>3, <2>1, <2>3, TaskOfPlace DEF Tasks!debounceVars, OnMap, editVars
  <2>5. Tasks!Wake(e)
    BY <1>1, <2>1, <2>3, <2>4 DEF Tasks!Wake, TaskMap, UriMap, AskMap, Asks
  <2> QED BY <1>1, <2>5 DEF Tasks!Next, Tasks!TaskStep
<1>5. CASE Stop(e)
  <2>1. /\ job'[e].uri = job[e].uri /\ job[e].pc \in {"sleep", "wait", "analyze"}
        /\ job'[e].pc = "finish" /\ e \in cancelled
        /\ on' = [on EXCEPT ![e] = 0] /\ UNCHANGED <<pending, issued, cancelled, elapsed>>
    BY <1>1, <1>5 DEF Stop, Edits!WaitDropped, Edits!NoEdit, JobsTyped, Job
  <2>2. TaskOf(e)' = "finishing" /\ TaskMap[e] \in {"sleeping", "publishing"}
    BY <1>3, <2>1, TaskOfPlace, TaskOfNextPlace DEF Reporting
  <2>3. /\ TaskMap' = [TaskMap EXCEPT ![e] = "finishing"]
        /\ UriMap' = UriMap /\ AskMap' = AskMap
    BY <1>2, <2>1, <2>2, TaskSeen DEF UriMap
  <2>4. OnMap' = OnMap
    BY <1>1, <2>1, ActorsApart DEF OnMap, EditsTyped
  <2>5. UNCHANGED Tasks!debounceVars
    BY <2>1, <2>4 DEF Tasks!debounceVars, OnMap
  <2>6. Tasks!Stop(e)
    BY <1>1, <2>1, <2>2, <2>3, <2>5 DEF Tasks!Stop, TaskMap, UriMap, AskMap, Asks
  <2> QED BY <1>1, <2>6 DEF Tasks!Next, Tasks!TaskStep
<1>6. CASE End(e)
  <2>1. /\ job'[e].uri = NoUri /\ job[e].pc = "finish" /\ job'[e].pc = "done"
        /\ IF alive THEN Edits!Finish(job[e].uri, e) ELSE UNCHANGED editVars
    BY <1>1, <1>6 DEF End, At, JobsTyped, Job
  <2>2. TaskOf(e)' = "done" /\ TaskMap[e] = "finishing"
    BY <1>3, <2>1, TaskOfPlace, TaskOfNextPlace
  <2>3. /\ TaskMap' = [TaskMap EXCEPT ![e] = "done"]
        /\ UriMap' = [UriMap EXCEPT ![e] = NoUri] /\ AskMap' = AskMap
    BY <1>2, <2>1, <2>2, TaskSeen
  <2>4. OnMap' = OnMap
    BY <2>1 DEF OnMap, editVars, Edits!Finish
  <2>5. IF alive THEN Tasks!Finish(UriMap[e], e) ELSE UNCHANGED Tasks!debounceVars
    BY <1>3, <2>1, <2>4
    DEF Edits!Finish, Tasks!Finish, Edits!NoEdit, Tasks!NoEdit, Tasks!debounceVars, editVars,
        OnMap
  <2>6. Tasks!End(e)
    BY <1>1, <2>2, <2>3, <2>5 DEF Tasks!End, TaskMap, UriMap, AskMap, Asks
  <2> QED BY <1>1, <2>6 DEF Tasks!Next, Tasks!TaskStep
<1> QED BY <1>4, <1>5, <1>6

LEMMA RequestSeen ==
    ASSUME ServerInv, NEW r \in Requests, NEW u \in Uris, Request(r, u)
    PROVE  Tasks!Next
<1>1. JobsTyped /\ r \in Actors /\ r \notin EditIds
  BY ActorsApart DEF ServerInv
<1>2. /\ job'[r].pc = "wait" /\ job'[r].uri = u /\ job[r].pc = "idle"
      /\ \A b \in Actors \ {r} : job'[b] = job[b]
      /\ alive /\ alive' = alive /\ UNCHANGED editVars
  BY <1>1 DEF Request, At, JobsTyped, Job
<1>3. \A b \in Actors \ {r} : TaskOf(b)' = TaskOf(b) /\ Asks(b)' = Asks(b)
  BY <1>2, Unmoved
<1>4. Asks(r)' = u /\ Asks(r) = NoUri
  BY <1>2 DEF Asks
<1>5. AskMap' = [AskMap EXCEPT ![r] = u] /\ TaskMap' = TaskMap /\ UriMap' = UriMap
      /\ OnMap' = OnMap /\ AskMap[r] = NoUri
  BY <1>1, <1>2, <1>3, <1>4, ActorsApart DEF AskMap, TaskMap, UriMap, OnMap, editVars
<1>6. UNCHANGED Tasks!debounceVars
  BY <1>2, <1>5 DEF Tasks!debounceVars, OnMap, editVars
<1>7. Tasks!Ask(r, u)
  BY <1>2, <1>5, <1>6 DEF Tasks!Ask, AskMap, Asks, TaskMap, UriMap
<1> QED BY <1>7 DEF Tasks!Next

LEMMA AllStill ==
    ASSUME UNCHANGED job
    PROVE  TaskMap' = TaskMap /\ UriMap' = UriMap /\ AskMap' = AskMap
BY Unmoved DEF TaskMap, UriMap, AskMap

LEMMA DropSeen == ASSUME ServerInv, DropState PROVE Tasks!Next
<1>1. /\ UNCHANGED job /\ alive /\ alive' = FALSE /\ Edits!Drop
      /\ \A a \in Actors : job[a].pc \in {"idle", "sleep", "finish", "done"}
  BY DEF DropState
<1>2. TaskMap' = TaskMap /\ UriMap' = UriMap /\ AskMap' = AskMap /\ OnMap' = OnMap
  BY <1>1, AllStill DEF OnMap, Edits!Drop
<1>3. \A r \in Requests : AskMap[r] = NoUri
  BY <1>1, ActorsApart DEF AskMap, Asks
<1>4. \A e \in EditIds : TaskMap[e] # "publishing"
  BY <1>1, ActorsApart, TaskOfPlace DEF TaskMap
<1>5. Tasks!Drop
  BY <1>1, <1>2 DEF Edits!Drop, Tasks!Drop, Edits!NoEdit, Tasks!NoEdit, OnMap
<1>6. Tasks!DropState
  BY <1>1, <1>2, <1>3, <1>4, <1>5
  DEF Tasks!DropState, EditIds, Tasks!EditIds, AskMap, Asks, TaskMap, UriMap
<1> QED BY <1>6 DEF Tasks!Next

LEMMA TickSeen == ASSUME Tick PROVE Tasks!Next
<1>1. TaskMap' = TaskMap /\ UriMap' = UriMap /\ AskMap' = AskMap /\ OnMap' = OnMap
  BY AllStill DEF Tick, OnMap, Edits!Elapse
<1>2. Tasks!Tick
  BY <1>1
  DEF Tick, Tasks!Tick, Edits!Elapse, Tasks!Elapse, Tasks!taskVars, OnMap, AskMap, Asks,
      TaskMap, UriMap
<1> QED BY <1>2 DEF Tasks!Next

LEMMA StillUnseen == ASSUME UNCHANGED vars PROVE UNCHANGED Tasks!vars
<1>1. UNCHANGED job /\ UNCHANGED <<pending, issued, cancelled, elapsed, on, alive>>
  BY DEF vars, editVars
<1>2. \A b : TaskOf(b)' = TaskOf(b) /\ Asks(b)' = Asks(b)
  BY <1>1, Unmoved
<1> QED BY <1>1, <1>2, NothingSeen

LEMMA StepSeen == ServerInv /\ [Next]_vars => [Tasks!Next]_Tasks!vars
<1> SUFFICES ASSUME ServerInv, [Next]_vars PROVE TasksStep
  BY DEF TasksStep
<1>1. CASE HandlerStep
  BY <1>1, ActorsApart, HandlerSeen, PublisherWaits, ReportSeen DEF HandlerStep, ReportStep
<1>2. ASSUME NEW e \in EditIds, TaskStep(e) PROVE TasksStep
  BY <1>2, ActorsApart, TaskAround, PublisherWaits, ReportSeen DEF TaskStep, ReportStep, TasksStep
<1>3. ASSUME NEW r \in Requests, RequestStep(r) PROVE TasksStep
  BY <1>3, ActorsApart, RequestWaits, ReportSeen DEF RequestStep, ReportStep, TasksStep
<1>4. CASE ClientNotifies
  BY <1>4, HandlerSeen
<1>5. CASE (\E r \in Requests, u \in Uris : Request(r, u)) \/ DropState \/ Tick
  BY <1>5, RequestSeen, DropSeen, TickSeen DEF TasksStep
<1>6. CASE UNCHANGED vars
  BY <1>6, StillUnseen DEF TasksStep
<1> QED BY <1>1, <1>2, <1>3, <1>4, <1>5, <1>6 DEF Next, Server

LEMMA InitSeen == Init => Tasks!Init
<1> SUFFICES ASSUME Init PROVE Tasks!Init
  OBVIOUS
<1>1. \A a \in Actors : job[a].pc = "idle" /\ job[a].uri = NoUri
  BY DEF Init, NoJob, Job
<1>2. \A e \in EditIds : TaskOf(e) = "none" /\ job[e].uri = NoUri
  BY <1>1, ActorsApart, TaskOfPlace
<1>3. \A r \in Requests : job[r].pc # "wait" /\ on[r] = 0
  BY <1>1, ActorsApart DEF Init, Edits!DebounceInit, Edits!NoEdit
<1>4. Tasks!DebounceInit
  BY <1>3 DEF Init, Edits!DebounceInit, Tasks!DebounceInit, Edits!NoEdit, Tasks!NoEdit
<1> QED BY <1>2, <1>3, <1>4 DEF Init, Tasks!Init, EditIds, Tasks!EditIds

(* The debounce as the server uses it is the one EditTasks specifies: what  *)
(* is proved of EditTasks (a live edit is its document's entry in the map,  *)
(* a sleeper is woken, a cancelled edit never begins to publish) holds of   *)
(* did_change's tasks and of the requests that wait, whatever publish()     *)
(* does in between.                                                         *)
THEOREM TasksRefined == Spec => ImplementsEditTasks
BY InitSeen, StepSeen, ServerInvariant, PTL DEF Spec, ImplementsEditTasks, Tasks!Spec

-----------------------------------------------------------------------------
(* A close and those it overtakes                                           *)

DiagsTyped == diags \in [Uris -> Reports \cup {Cleared}]

Leaving == {"close", "forget", "clear"}
Closing(u, places) == job[Handler].pc \in places /\ job[Handler].uri = u

(* The document did_close runs for is gone.                                 *)
CloserKnows == job[Handler].pc \in Leaving => doc[job[Handler].uri] = NoDoc

(* Of a document that is gone and was in nobody's hand then: it is in       *)
(* nobody's hand now, and what is left of it is did_close's to take away.   *)
LeftAlone ==
    \A u \in Uris : doc[u] = NoDoc /\ u \notin overtaken =>
        /\ \A a \in Actors : ~(job[a].pc \in InHand /\ job[a].uri = u)
        /\ cache[u] = NoEntry \/ Closing(u, {"close", "forget"})
        /\ diags[u] = Cleared \/ Closing(u, Leaving)

CloseInv == DiagsTyped /\ CloserKnows /\ LeftAlone

LEMMA HandPlaces ==
    /\ Sending \subseteq InHand /\ "lookup" \in InHand
    /\ \A p \in Leaving : p \in Handling /\ p \notin InHand
    /\ \A p \in {"idle", "sleep", "finish", "done", "wait", "capture", "analyze", "check",
                 "open", "change", "config"} : p \notin InHand /\ p \notin Leaving
BY DEF Sending, InHand, Leaving, Handling

(* A step that closes nothing, and neither takes up nor leaves anything of  *)
(* a document that is gone and in nobody's hand.                            *)
LEMMA LeavesAlone ==
    ASSUME CloseInv, DiagsTyped', UNCHANGED <<doc, overtaken>>,
           \/ job'[Handler] = job[Handler]
           \/ job[Handler].pc \notin Leaving /\ job'[Handler].pc \notin Leaving,
           \A a \in Actors : job'[a].pc \in InHand =>
               \/ job[a].pc \in InHand /\ job'[a].uri = job[a].uri
               \/ doc[job'[a].uri] # NoDoc,
           \A u \in Uris : doc[u] = NoDoc /\ u \notin overtaken =>
               cache'[u] \in {cache[u], NoEntry} /\ diags'[u] \in {diags[u], Cleared}
    PROVE  CloseInv'
<1>1. CloserKnows'
  BY DEF CloseInv, CloserKnows
<1>2. ASSUME NEW u \in Uris, doc[u] = NoDoc, u \notin overtaken
      PROVE  /\ \A a \in Actors : ~(job'[a].pc \in InHand /\ job'[a].uri = u)
             /\ cache'[u] = NoEntry \/ Closing(u, {"close", "forget"})'
             /\ diags'[u] = Cleared \/ Closing(u, Leaving)'
  <2>1. /\ \A a \in Actors : ~(job[a].pc \in InHand /\ job[a].uri = u)
        /\ cache[u] = NoEntry \/ Closing(u, {"close", "forget"})
        /\ diags[u] = Cleared \/ Closing(u, Leaving)
    BY <1>2 DEF CloseInv, LeftAlone
  <2>2. \A a \in Actors : ~(job'[a].pc \in InHand /\ job'[a].uri = u)
    BY <1>2, <2>1
  <2>3. job[Handler].pc \in Leaving => job'[Handler] = job[Handler]
    OBVIOUS
  <2>4. Closing(u, {"close", "forget"}) => Closing(u, {"close", "forget"})'
    BY <2>3 DEF Closing, Leaving
  <2>5. Closing(u, Leaving) => Closing(u, Leaving)'
    BY <2>3 DEF Closing
  <2> QED BY <1>2, <2>1, <2>2, <2>4, <2>5
<1>3. LeftAlone'
  BY <1>2 DEF LeftAlone
<1> QED BY <1>1, <1>3 DEF CloseInv

(* One actor moves to a place where it has nothing in hand.                 *)
LEMMA EmptyHanded ==
    ASSUME CloseInv, NEW a \in Actors, UNCHANGED <<doc, overtaken, diags>>,
           \A b \in Actors \ {a} : job'[b] = job[b],
           job[a].pc \notin Leaving, job'[a].pc \notin Leaving \cup InHand,
           \A u \in Uris : cache'[u] \in {cache[u], NoEntry}
    PROVE  CloseInv'
<1>1. DiagsTyped'
  BY DEF CloseInv, DiagsTyped
<1>2. \/ job'[Handler] = job[Handler]
      \/ job[Handler].pc \notin Leaving /\ job'[Handler].pc \notin Leaving
  BY ActorsApart
<1>3. \A b \in Actors : job'[b].pc \in InHand =>
          job[b].pc \in InHand /\ job'[b].uri = job[b].uri
  OBVIOUS
<1> QED BY <1>1, <1>2, <1>3, LeavesAlone

LEMMA ReceiveLeaves ==
    ASSUME ServerInv, CloseInv, NEW u \in Uris, NEW d \in Docs \cup {NoDoc},
           NEW p \in {"open", "change", "close"}, (p = "close") <=> (d = NoDoc),
           Receive(u, d, p),
           d # NoDoc => overtaken' = overtaken,
           d = NoDoc => overtaken' = IF \E a \in Actors : job[a].pc \in InHand /\ job[a].uri = u
                                     THEN overtaken \cup {u} ELSE overtaken \ {u}
    PROVE  CloseInv'
<1>1. /\ job'[Handler].pc = p /\ job'[Handler].uri = u /\ job[Handler].pc = "idle"
      /\ \A b \in Actors \ {Handler} : job'[b] = job[b]
  BY ActorsApart DEF ServerInv, JobsTyped, Receive, Deliver, At, Job
<1>2. /\ doc'[u] = d /\ \A v \in Uris \ {u} : doc'[v] = doc[v]
      /\ cache' = cache /\ diags' = diags
  BY DEF ServerInv, DocsTyped, Receive, cacheVars, sentVars
<1>3. p \notin InHand /\ (p \in Leaving => p = "close") /\ "idle" \notin Leaving
  BY DEF InHand, Leaving
<1>4. DiagsTyped' /\ CloserKnows'
  BY <1>1, <1>2, <1>3 DEF CloseInv, DiagsTyped, CloserKnows
<1>5. \A a \in Actors : job'[a].pc \in InHand => job[a].pc \in InHand /\ job'[a].uri = job[a].uri
  BY <1>1, <1>3
<1>6. ASSUME NEW v \in Uris, doc'[v] = NoDoc, v \notin overtaken', v # u
      PROVE  /\ \A a \in Actors : ~(job'[a].pc \in InHand /\ job'[a].uri = v)
             /\ cache'[v] = NoEntry /\ diags'[v] = Cleared
  <2>1. doc[v] = NoDoc /\ v \notin overtaken
    BY <1>2, <1>6
  <2> QED BY <1>1, <1>2, <1>3, <1>5, <2>1 DEF CloseInv, LeftAlone, Closing
<1>7. ASSUME doc'[u] = NoDoc, u \notin overtaken'
      PROVE  /\ \A a \in Actors : ~(job'[a].pc \in InHand /\ job'[a].uri = u)
             /\ Closing(u, {"close", "forget"})' /\ Closing(u, Leaving)'
  BY <1>1, <1>2, <1>5, <1>7 DEF Closing, Leaving
<1>8. LeftAlone'
  BY <1>6, <1>7 DEF LeftAlone
<1> QED BY <1>4, <1>8 DEF CloseInv

LEMMA NotifyLeaves ==
    ASSUME ServerInv, CloseInv, ClientNotifies
    PROVE  CloseInv'
<1>0. DocsTyped /\ Handler \in Actors /\ JobsTyped
  BY ActorsApart DEF ServerInv
<1>1. ASSUME NEW u \in Uris, NEW l \in Languages, NEW t \in Texts, DidOpen(u, l, t)
      PROVE  CloseInv'
  <2>1. [lang |-> l, text |-> t, version |-> 1] \in Docs
    BY ServerAssumption DEF Docs
  <2> QED BY <1>1, <2>1, ReceiveLeaves, ServerAssumption DEF DidOpen
<1>2. ASSUME NEW u \in Uris, NEW t \in Texts, DidChange(u, t) PROVE CloseInv'
  <2>1. PICK d : /\ d = [lang |-> doc[u].lang, text |-> t, version |-> doc[u].version + 1]
                 /\ Receive(u, d, "change")
    BY <1>2 DEF DidChange
  <2>2. doc[u] \in Docs /\ doc[u].version < MaxVersion
    BY <1>0, <1>2 DEF DidChange, DocsTyped
  <2>3. d \in Docs /\ d # NoDoc
    BY <2>1, <2>2, ServerAssumption DEF Docs
  <2> QED BY <1>2, <2>1, <2>3, ReceiveLeaves DEF DidChange
<1>3. ASSUME NEW u \in Uris, DidClose(u) PROVE CloseInv'
  BY <1>3, ReceiveLeaves DEF DidClose
<1>4. ASSUME NEW p \in {"wait", "config"}, NEW u, NEW s, Deliver,
             job' = [job EXCEPT ![Handler] = Job(p, u, s, NoDoc)],
             UNCHANGED <<doc, overtaken, diags, cache>>
      PROVE  CloseInv'
  <2>1. /\ job'[Handler].pc = p /\ job[Handler].pc = "idle"
        /\ \A b \in Actors \ {Handler} : job'[b] = job[b]
    BY <1>0, <1>4 DEF JobsTyped, Deliver, At, Job
  <2> QED BY <1>0, <1>4, <2>1, HandPlaces, EmptyHanded
<1>5. ASSUME NEW u \in Uris, DidSave(u) PROVE CloseInv'
  BY <1>4, <1>5 DEF DidSave, Publishing, docVars, sentVars, cacheVars
<1>6. ASSUME NEW s \in Settings, DidChangeConfiguration(s) PROVE CloseInv'
  BY <1>4, <1>6 DEF DidChangeConfiguration, sentVars, cacheVars
<1> QED BY <1>1, <1>2, <1>3, <1>5, <1>6 DEF ClientNotifies

(* did_close: each of its steps takes something away.                       *)
LEMMA CloserLeaves ==
    ASSUME ServerInv, CloseInv, OnClose \/ ForgetClosed \/ ClearDiagnostics
    PROVE  CloseInv'
<1>1. PICK u \in Uris : u = job[Handler].uri /\ doc[u] = NoDoc
  <2>1. JobOk(Handler) /\ job[Handler].pc \in Leaving
    BY ActorsApart DEF ServerInv, OnClose, ForgetClosed, ClearDiagnostics, At, Leaving
  <2> QED BY <2>1, HandPlaces DEF JobOk, CloseInv, CloserKnows
<1>2. /\ JobsTyped /\ Handler \in Actors /\ UNCHANGED <<doc, overtaken>>
      /\ \A b \in Actors \ {Handler} : job'[b] = job[b]
  BY ActorsApart
  DEF ServerInv, JobsTyped, OnClose, ForgetClosed, ClearDiagnostics, Goto, docVars
<1>3. ASSUME NEW p, NEW q, job[Handler].pc = p, job'[Handler].pc = q, q \notin InHand,
             q \in Leaving => job'[Handler].uri = u,
             DiagsTyped',
             \A v \in Uris : /\ cache'[v] \in {cache[v], NoEntry}
                             /\ diags'[v] \in {diags[v], Cleared},
             cache'[u] = NoEntry \/ q \in {"close", "forget"}
                 \/ (cache' = cache /\ p = "clear"),
             diags'[u] = Cleared \/ q \in Leaving
      PROVE  CloseInv'
  <2>1. CloserKnows'
    BY <1>1, <1>2, <1>3 DEF CloserKnows
  <2>2. ASSUME NEW v \in Uris, doc[v] = NoDoc, v \notin overtaken
        PROVE  /\ \A a \in Actors : ~(job'[a].pc \in InHand /\ job'[a].uri = v)
               /\ cache'[v] = NoEntry \/ Closing(v, {"close", "forget"})'
               /\ diags'[v] = Cleared \/ Closing(v, Leaving)'
    <3>1. /\ \A a \in Actors : ~(job[a].pc \in InHand /\ job[a].uri = v)
          /\ cache[v] = NoEntry \/ Closing(v, {"close", "forget"})
          /\ diags[v] = Cleared \/ Closing(v, Leaving)
      BY <2>2 DEF CloseInv, LeftAlone
    <3>2. \A a \in Actors : ~(job'[a].pc \in InHand /\ job'[a].uri = v)
      BY <1>2, <1>3, <3>1
    <3>3. CASE v # u
      BY <1>1, <1>3, <3>1, <3>2, <3>3 DEF Closing
    <3>4. CASE v = u
      BY <1>1, <1>3, <3>1, <3>2, <3>4 DEF Closing, Leaving
    <3> QED BY <3>3, <3>4
  <2>3. LeftAlone'
    BY <1>2, <2>2 DEF LeftAlone
  <2> QED BY <1>3, <2>1, <2>3 DEF CloseInv
<1>4. CASE OnClose
  <2>1. /\ job[Handler].pc = "close" /\ job'[Handler].pc = "forget" /\ job'[Handler].uri = u
        /\ UNCHANGED <<cache, diags>>
    BY <1>1, <1>2, <1>4 DEF OnClose, At, Goto, JobsTyped, cacheVars, sentVars
  <2>2. DiagsTyped' /\ "forget" \in Leaving
    BY <2>1 DEF CloseInv, DiagsTyped, Leaving
  <2> QED BY <1>3, <2>1, <2>2, HandPlaces
<1>5. CASE ForgetClosed
  <2>1. /\ job[Handler].pc = "forget" /\ job'[Handler].pc = "clear" /\ job'[Handler].uri = u
        /\ diags' = diags /\ Cache!Forget(u) /\ Calls!IInv
    BY <1>1, <1>2, <1>5 DEF ServerInv, ForgetClosed, At, Goto, JobsTyped, sentVars
  <2>2. cache'[u] = NoEntry /\ \A v \in Uris : cache'[v] \in {cache[v], NoEntry}
    BY <2>1 DEF Cache!Forget, Calls!IInv, Calls!CacheTypeOK
  <2>3. DiagsTyped' /\ "clear" \in Leaving
    BY <2>1 DEF CloseInv, DiagsTyped, Leaving
  <2> QED BY <1>3, <2>1, <2>2, <2>3, HandPlaces
<1>6. CASE ClearDiagnostics
  <2>1. /\ job[Handler].pc = "clear" /\ job'[Handler].pc = "idle" /\ cache' = cache
        /\ diags' = [diags EXCEPT ![u] = Cleared]
    BY <1>1, <1>2, <1>6 DEF ClearDiagnostics, At, NoJob, Job, JobsTyped, cacheVars
  <2>2. /\ diags'[u] = Cleared /\ \A v \in Uris : diags'[v] \in {diags[v], Cleared}
        /\ DiagsTyped' /\ "idle" \notin Leaving /\ "idle" \notin InHand
    BY <2>1, HandPlaces DEF CloseInv, DiagsTyped
  <2> QED BY <1>3, <2>1, <2>2
<1> QED BY <1>4, <1>5, <1>6

(* The other notification handlers.                                         *)
LEMMA HandlerLeaves ==
    ASSUME ServerInv, CloseInv,
           OnOpen \/ OnChange \/ Republished \/ \E u \in Uris : Republish(u)
    PROVE  CloseInv'
<1>1. JobsTyped /\ EditsTyped /\ Handler \in Actors
  BY ActorsApart DEF ServerInv
<1>2. UNCHANGED <<doc, overtaken, diags, cache>> /\ job[Handler].pc \in {"open", "change", "config"}
  BY DEF OnOpen, OnChange, Republished, Republish, At, docVars, sentVars, cacheVars
<1>3. job[Handler].pc \notin Leaving
  BY <1>2, HandPlaces
<1>4. CASE OnOpen \/ Republished \/ \E u \in Uris : Republish(u)
  <2>1. /\ job'[Handler].pc \in {"wait", "idle"}
        /\ \A b \in Actors \ {Handler} : job'[b] = job[b]
    BY <1>1, <1>4 DEF OnOpen, Republished, Republish, Publishing, NoJob, Job, JobsTyped
  <2> QED BY <1>1, <1>2, <1>3, <2>1, HandPlaces, EmptyHanded
<1>5. CASE OnChange
  <2>1. PICK e \in EditIds : e = issued + 1 /\ e \in Actors /\ e # Handler
    BY <1>1, <1>5, ActorsApart, ServerAssumption
    DEF OnChange, Edits!Schedule, EditsTyped, EditIds
  <2>2. PICK u : job' = [job EXCEPT ![Handler] = NoJob, ![e] = Job("sleep", u, NoSettings, NoDoc)]
    BY <1>5, <2>1 DEF OnChange
  <2>3. /\ job'[Handler].pc = "idle" /\ job'[e].pc = "sleep"
        /\ \A b \in Actors \ {Handler, e} : job'[b] = job[b]
    BY <1>1, <2>1, <2>2 DEF JobsTyped, NoJob, Job
  <2>4. DiagsTyped' /\ job'[Handler].pc \notin Leaving
    BY <1>2, <2>3, HandPlaces DEF CloseInv, DiagsTyped
  <2>5. \A b \in Actors : job'[b].pc \in InHand =>
            job[b].pc \in InHand /\ job'[b].uri = job[b].uri
    BY <2>3, HandPlaces
  <2> QED BY <1>2, <1>3, <2>4, <2>5, LeavesAlone
<1> QED BY <1>4, <1>5

(* publish() and report_for() come back.                                    *)
LEMMA ReturnLeaves ==
    ASSUME ServerInv, CloseInv, NEW a \in Actors, Return(a),
           job[a].pc \in Reporting \cup Sending, UNCHANGED <<doc, overtaken, diags>>
    PROVE  CloseInv'
<1>1. /\ job'[a].pc \in {"config", "finish", "idle"}
      /\ \A b \in Actors \ {a} : job'[b] = job[b]
  BY DEF ServerInv, JobsTyped, Return, NoJob, Job
<1>2. job[a].pc \notin Leaving
  BY DEF Reporting, Sending, Leaving
<1>3. cache' = cache
  BY DEF Return, Cache!Release
<1> QED BY <1>1, <1>2, <1>3, HandPlaces, EmptyHanded

LEMMA ReportLeaves ==
    ASSUME ServerInv, CloseInv, NEW a \in Actors, ReportStep(a)
    PROVE  CloseInv'
<1>1. /\ JobsTyped /\ JobOk(a) /\ Calls!IInv
      /\ UNCHANGED <<doc, overtaken, diags>>
      /\ job[a].pc \in Reporting /\ job[a].pc \notin Leaving
  BY DEF ServerInv, ReportStep, Waits, Capture, LookUp, Analyze, At, docVars, sentVars,
         Reporting, Leaving
<1>2. ASSUME NEW p \in {"capture", "check", "analyze"}, NEW d,
             job' = [job EXCEPT ![a] = Job(p, job[a].uri, job[a].settings, d)],
             cache' = cache
      PROVE  CloseInv'
  <2>1. job'[a].pc = p /\ \A b \in Actors \ {a} : job'[b] = job[b]
    BY <1>1, <1>2 DEF JobsTyped, Job
  <2> QED BY <1>1, <1>2, <2>1, HandPlaces, EmptyHanded
<1>3. ASSUME UNCHANGED job, job[a].pc \in {"wait", "analyze"}, cache' = cache
      PROVE  CloseInv'
  BY <1>1, <1>3, HandPlaces, EmptyHanded
<1>4. CASE Waits(a)
  <2>1. job[a].pc = "wait" /\ cache' = cache
    BY <1>4 DEF Waits, At, cacheVars
  <2>2. CASE Goto(a, "capture")
    BY <1>1, <1>2, <2>1, <2>2, WentTo
  <2> QED BY <1>3, <1>4, <2>1, <2>2 DEF Waits
<1>5. CASE Capture(a)
  <2>1. CASE Return(a)
    BY <1>1, <2>1, ReturnLeaves
  <2>2. CASE /\ doc[job[a].uri] # NoDoc
             /\ job' = [job EXCEPT ![a] = Job("lookup", job[a].uri, job[a].settings,
                                              doc[job[a].uri])]
             /\ UNCHANGED cacheVars
    <3>1. /\ job'[a].pc = "lookup" /\ job'[a].uri = job[a].uri
          /\ \A b \in Actors \ {a} : job'[b] = job[b]
      BY <1>1, <2>2 DEF JobsTyped, Job
    <3>2. DiagsTyped' /\ cache' = cache /\ "lookup" \notin Leaving
      BY <1>1, <2>2 DEF CloseInv, DiagsTyped, cacheVars, Leaving
    <3> QED BY <1>1, <2>2, <3>1, <3>2, ActorsApart, LeavesAlone
  <2> QED BY <1>5, <2>1, <2>2 DEF Capture
<1>6. CASE LookUp(a)
  <2>1. job[a].pc = "lookup" /\ job[a].uri \in Uris
    BY <1>1, <1>6 DEF LookUp, At, JobOk
  <2>2. doc[job[a].uri] # NoDoc \/ job[a].uri \in overtaken
    BY <2>1, HandPlaces DEF CloseInv, LeftAlone
  <2>3. PICK i : cache' = [cache EXCEPT ![job[a].uri] = i]
    BY <1>6 DEF LookUp, Cache!Lookup
  <2>4. \A u \in Uris : doc[u] = NoDoc /\ u \notin overtaken => cache'[u] = cache[u]
    BY <1>1, <2>2, <2>3 DEF Calls!IInv, Calls!CacheTypeOK
  <2>5. job'[a].pc = "analyze" /\ \A b \in Actors \ {a} : job'[b] = job[b]
    BY <1>1, <1>6 DEF LookUp, JobsTyped, Job
  <2>6. DiagsTyped' /\ "analyze" \notin Leaving \cup InHand
    BY <1>1, HandPlaces DEF CloseInv, DiagsTyped
  <2>7. \A b \in Actors : job'[b].pc \in InHand =>
            job[b].pc \in InHand /\ job'[b].uri = job[b].uri
    BY <2>5, <2>6
  <2> QED BY <1>1, <2>4, <2>5, <2>6, <2>7, ActorsApart, LeavesAlone
<1>7. CASE Analyze(a)
  <2>1. job[a].pc = "analyze" /\ cache' = cache
    BY <1>7 DEF Analyze, At, Cache!Begin, Cache!Complete, Cache!Join
  <2>2. CASE Goto(a, "check")
    BY <1>1, <1>2, <2>1, <2>2, WentTo
  <2> QED BY <1>3, <1>7, <2>1, <2>2 DEF Analyze
<1> QED BY <1>4, <1>5, <1>6, <1>7 DEF ReportStep

(* What an actor about to send has in hand is a report.                     *)
LEMMA HasReport ==
    ASSUME ServerInv, NEW a \in Actors, job[a].pc \in {"check"} \cup Sending
    PROVE  /\ Report(a) \in Reports /\ Report(a) # Cleared
           /\ Analyzed(a) \in Keys /\ job[a].settings \in Settings
<1>1. JobOk(a) /\ Calls!IInv
  BY DEF ServerInv
<1>2. call[a].answer \in Keys /\ job[a].settings \in Settings
  BY <1>1, CallsTyped DEF JobOk, Reporting
<1> QED BY <1>2, ServerAssumption DEF Report, Analyzed, Reports

LEMMA PublishLeaves ==
    ASSUME ServerInv, CloseInv, NEW a \in Actors, PublishStep(a)
    PROVE  CloseInv'
<1>1. /\ JobsTyped /\ JobOk(a) /\ UNCHANGED <<doc, overtaken>>
      /\ job[a].pc \in {"check"} \cup Sending
      /\ job[a].pc \in Reporting \cup Sending /\ job[a].pc \notin Leaving
  BY DEF ServerInv, PublishStep, Check, CheckSettings, NotifyFileHealth, PublishDiagnostics,
         At, docVars, Reporting, Sending, Leaving
<1>2. ASSUME NEW p \in Sending, Goto(a, p), UNCHANGED <<cacheVars, diags>>,
             job[a].pc \in InHand \/ doc[job[a].uri] # NoDoc
      PROVE  CloseInv'
  <2>1. /\ job'[a].pc = p /\ job'[a].uri = job[a].uri
        /\ \A b \in Actors \ {a} : job'[b] = job[b]
    BY <1>1, <1>2 DEF Goto, JobsTyped
  <2>2. DiagsTyped' /\ cache' = cache /\ p \notin Leaving
    BY <1>2 DEF CloseInv, DiagsTyped, cacheVars, Sending, Leaving
  <2> QED BY <1>1, <1>2, <2>1, <2>2, ActorsApart, LeavesAlone
<1>3. CASE Return(a) /\ diags' = diags
  BY <1>1, <1>3, ReturnLeaves
<1>4. CASE Check(a)
  <2>1. CASE Fresh(a) /\ Goto(a, "settings") /\ UNCHANGED <<cacheVars, diags>>
    BY <1>2, <2>1 DEF Fresh, Sending
  <2> QED BY <1>3, <1>4, <2>1 DEF Check, sentVars
<1>5. CASE CheckSettings(a)
  <2>1. job[a].pc \in InHand
    BY <1>5 DEF CheckSettings, At, InHand
  <2> QED BY <1>2, <1>3, <1>5, <2>1 DEF CheckSettings, sentVars, Sending
<1>6. CASE NotifyFileHealth(a)
  <2>1. job[a].pc \in InHand
    BY <1>6 DEF NotifyFileHealth, At, InHand
  <2> QED BY <1>2, <1>6, <2>1 DEF NotifyFileHealth, Sending
<1>7. CASE PublishDiagnostics(a)
  <2>1. job[a].pc = "diags" /\ job[a].pc \in InHand /\ job[a].pc \in Sending
    BY <1>7 DEF PublishDiagnostics, At, InHand, Sending
  <2>2. PICK u \in Uris : u = job[a].uri
    BY <1>1, <2>1 DEF JobOk
  <2>3. doc[u] # NoDoc \/ u \in overtaken
    BY <2>1, <2>2 DEF CloseInv, LeftAlone
  <2>4. diags' = [diags EXCEPT ![u] = Report(a)] /\ cache' = cache /\ Return(a)
    BY <1>7, <2>2 DEF PublishDiagnostics, Return, Cache!Release
  <2>5. DiagsTyped' /\ \A v \in Uris : doc[v] = NoDoc /\ v \notin overtaken => diags'[v] = diags[v]
    BY <2>1, <2>3, <2>4, HasReport DEF CloseInv, DiagsTyped
  <2>6. /\ job'[a].pc \in {"config", "finish", "idle"}
        /\ \A b \in Actors \ {a} : job'[b] = job[b]
    BY <1>1, <2>4 DEF JobsTyped, Return, NoJob, Job
  <2>7. job'[a].pc \notin Leaving \cup InHand
    BY <2>6, HandPlaces
  <2>8. \A b \in Actors : job'[b].pc \in InHand =>
            job[b].pc \in InHand /\ job'[b].uri = job[b].uri
    BY <2>6, <2>7
  <2> QED BY <1>1, <2>4, <2>5, <2>6, <2>7, <2>8, ActorsApart, LeavesAlone
<1> QED BY <1>4, <1>5, <1>6, <1>7 DEF PublishStep

LEMMA OthersLeave ==
    ASSUME ServerInv, CloseInv,
           \/ \E e \in EditIds : Wake(e) \/ Stop(e) \/ End(e)
           \/ \E r \in Requests : Reply(r) \/ \E u \in Uris : Request(r, u)
           \/ DropState \/ Tick \/ UNCHANGED vars
    PROVE  CloseInv'
<1>1. JobsTyped
  BY DEF ServerInv
<1>2. ASSUME NEW e \in EditIds, Wake(e) \/ Stop(e) \/ End(e) PROVE CloseInv'
  <2>1. e \in Actors /\ UNCHANGED <<doc, overtaken, diags, cache>>
    BY <1>2, ActorsApart DEF Wake, Stop, End, Cache!Abandon, docVars, sentVars, cacheVars
  <2>2. /\ job'[e].pc \in {"wait", "finish", "done"}
        /\ job[e].pc \in {"sleep", "wait", "analyze", "finish"}
        /\ \A b \in Actors \ {e} : job'[b] = job[b]
    BY <1>1, <1>2, <2>1 DEF Wake, Stop, End, At, Goto, JobsTyped, Job
  <2> QED BY <2>1, <2>2, HandPlaces, EmptyHanded
<1>3. ASSUME NEW r \in Requests, Reply(r) PROVE CloseInv'
  <2>1. /\ r \in Actors /\ Return(r) /\ job[r].pc \in Reporting
        /\ UNCHANGED <<doc, overtaken, diags>>
    BY <1>3, ActorsApart DEF Reply, At, Reporting, docVars, sentVars
  <2> QED BY <2>1, ReturnLeaves
<1>4. ASSUME NEW r \in Requests, NEW u \in Uris, Request(r, u) PROVE CloseInv'
  <2>1. /\ r \in Actors /\ UNCHANGED <<doc, overtaken, diags, cache>>
        /\ job[r].pc = "idle" /\ job'[r].pc = "wait" /\ \A b \in Actors \ {r} : job'[b] = job[b]
    BY <1>1, <1>4, ActorsApart
    DEF Request, At, docVars, sentVars, cacheVars, JobsTyped, Job
  <2> QED BY <2>1, HandPlaces, EmptyHanded
<1>5. ASSUME UNCHANGED <<job, doc, overtaken, diags>>,
             \A u \in Uris : cache'[u] \in {cache[u], NoEntry}
      PROVE  CloseInv'
  <2>1. DiagsTyped'
    BY <1>5 DEF CloseInv, DiagsTyped
  <2> QED BY <1>5, <2>1, LeavesAlone
<1>6. CASE DropState
  BY <1>5, <1>6 DEF DropState, Cache!DropCache, docVars, sentVars
<1>7. CASE Tick \/ UNCHANGED vars
  BY <1>5, <1>7 DEF Tick, vars, docVars, sentVars, cacheVars
<1> QED BY <1>2, <1>3, <1>4, <1>6, <1>7

LEMMA CloseInductive ==
    ASSUME ServerInv, CloseInv, [Next]_vars
    PROVE  CloseInv'
<1>1. ASSUME HandlerStep PROVE CloseInv'
  BY <1>1, ActorsApart, HandlerLeaves, CloserLeaves, ReportLeaves, PublishLeaves
  DEF HandlerStep
<1>2. ASSUME NEW e \in EditIds, TaskStep(e) PROVE CloseInv'
  BY <1>2, ActorsApart, ReportLeaves, PublishLeaves, OthersLeave DEF TaskStep
<1>3. ASSUME NEW r \in Requests, RequestStep(r) PROVE CloseInv'
  BY <1>3, ActorsApart, ReportLeaves, OthersLeave DEF RequestStep
<1> QED BY <1>1, <1>2, <1>3, NotifyLeaves, OthersLeave DEF Next, Server

LEMMA CloseInitial == Init => CloseInv
<1> SUFFICES ASSUME Init PROVE CloseInv
  OBVIOUS
<1>1. \A a \in Actors : job[a].pc \notin InHand /\ job[a].pc \notin Leaving
  BY HandPlaces DEF Init, NoJob, Job
<1>2. DiagsTyped /\ \A u \in Uris : cache[u] = NoEntry /\ diags[u] = Cleared
  BY DEF Init, Cache!CacheInit, DiagsTyped
<1> QED BY <1>1, <1>2, ActorsApart DEF CloseInv, CloserKnows, LeftAlone

(* On any runtime, did_close leaves nothing of its document on the client's *)
(* screen or in the cache unless it overtook an actor that had found the    *)
(* document open and not yet looked its entry up, or not yet sent: whatever *)
(* waited or was being computed meanwhile finds the document gone.          *)
THEOREM CloseIsFinal == Spec => []ClosedUnlessOvertaken
<1>1. CloseInv => ClosedUnlessOvertaken
  BY DEF CloseInv, LeftAlone, Closing, ClosedUnlessOvertaken
<1>2. ServerInv /\ CloseInv /\ [Next]_vars => CloseInv'
  BY CloseInductive
<1> QED BY <1>1, <1>2, CloseInitial, ServerInvariant, PTL DEF Spec

-----------------------------------------------------------------------------
(* Refinement: what the client sees                                         *)

Buffer == [u \in Uris |-> IF doc[u] = NoDoc THEN Cleared
                          ELSE [text |-> doc[u].text, version |-> doc[u].version]]
Shown == [u \in Uris |->
            IF diags[u] = Cleared THEN Cleared
            ELSE [text |-> diags[u].key.text, version |-> diags[u].key.version,
                  settings |-> diags[u].settings]]
InHandOf(a) ==
    IF job[a].pc \notin {"settings", "status", "diags"} THEN Cleared
    ELSE [uri |-> job[a].uri, text |-> Analyzed(a).text,
          version |-> Analyzed(a).version, settings |-> job[a].settings,
          stage |-> IF job[a].pc = "settings" THEN "found" ELSE "approved"]
Hand == [a \in Actors |-> InHandOf(a)]
CheckedMoves == Checked!Next \/ UNCHANGED Checked!vars

LEMMA SameHand ==
    ASSUME NEW a, job'[a] = job[a], call'[a] = call[a]
    PROVE  InHandOf(a)' = InHandOf(a)
BY DEF InHandOf, Analyzed

LEMMA NoHand ==
    ASSUME NEW a
    PROVE  /\ job[a].pc \notin Sending => InHandOf(a) = Cleared
           /\ job'[a].pc \notin Sending => InHandOf(a)' = Cleared
BY DEF InHandOf, Sending

(* One actor moves.                                                         *)
LEMMA OneHand ==
    ASSUME NEW a \in Actors, \A b \in Actors \ {a} : job'[b] = job[b] /\ call'[b] = call[b]
    PROVE  Hand' = [Hand EXCEPT ![a] = InHandOf(a)']
<1>1. \A b \in Actors \ {a} : InHandOf(b)' = InHandOf(b)
  BY SameHand
<1> QED BY <1>1 DEF Hand

LEMMA NothingShown ==
    ASSUME UNCHANGED <<doc, configured, diags>>,
           \A a \in Actors : InHandOf(a)' = InHandOf(a)
    PROVE  UNCHANGED Checked!vars
<1>1. Hand' = Hand
  BY DEF Hand
<1>2. InForce' = InForce
  BY DEF InForce
<1> QED BY <1>1, <1>2 DEF Checked!vars, Hand, InHandOf

(* One actor moves that has nothing to send, before or after.               *)
LEMMA MovesUnshown ==
    ASSUME NEW a \in Actors, UNCHANGED <<doc, configured, diags>>,
           \A b \in Actors \ {a} : job'[b] = job[b] /\ call'[b] = call[b],
           job[a].pc \notin Sending, job'[a].pc \notin Sending
    PROVE  CheckedMoves
<1>1. \A b \in Actors : InHandOf(b)' = InHandOf(b)
  BY SameHand, NoHand
<1> QED BY <1>1, NothingShown DEF CheckedMoves

LEMMA ReceiveShown ==
    ASSUME ServerInv, NEW u \in Uris, NEW d, NEW p \in {"open", "change", "close"},
           Receive(u, d, p)
    PROVE  Checked!Next
<1>1. /\ doc' = [doc EXCEPT ![u] = d] /\ UNCHANGED <<configured, diags, call>>
      /\ doc \in [Uris -> Docs \cup {NoDoc}]
  BY DEF ServerInv, DocsTyped, Receive, sentVars, cacheVars
<1>2. Buffer' = [Buffer EXCEPT ![u] = Buffer'[u]]
  BY <1>1 DEF Buffer
<1>3. Shown' = Shown /\ InForce' = InForce
  BY <1>1 DEF Shown, InForce
<1>4. /\ job[Handler].pc \notin Sending /\ job'[Handler].pc \notin Sending
      /\ \A b \in Actors \ {Handler} : job'[b] = job[b] /\ call'[b] = call[b]
  BY <1>1, ActorsApart DEF ServerInv, JobsTyped, Receive, Deliver, At, Job, Sending
<1>5. \A b \in Actors : InHandOf(b)' = InHandOf(b)
  BY <1>4, SameHand, NoHand
<1>6. Hand' = Hand
  BY <1>5 DEF Hand
<1>7. Checked!Edit(u)
  BY <1>2, <1>3, <1>6 DEF Checked!Edit, Buffer, Shown, Hand, InHandOf
<1> QED BY <1>7 DEF Checked!Next

LEMMA ConfigureShown ==
    ASSUME ServerInv, NEW s \in Settings, DidChangeConfiguration(s)
    PROVE  Checked!Next
<1>1. UNCHANGED <<doc, diags, call>> /\ configured' \in Settings
  BY DEF DidChangeConfiguration, sentVars, cacheVars
<1>2. InForce' \in Settings
  BY <1>1, ServerAssumption DEF InForce
<1>3. Buffer' = Buffer /\ Shown' = Shown
  BY <1>1 DEF Buffer, Shown
<1>4. /\ job[Handler].pc \notin Sending /\ job'[Handler].pc \notin Sending
      /\ \A b \in Actors \ {Handler} : job'[b] = job[b] /\ call'[b] = call[b]
  BY <1>1, ActorsApart DEF ServerInv, JobsTyped, DidChangeConfiguration, Deliver, At, Job, Sending
<1>5. \A b \in Actors : InHandOf(b)' = InHandOf(b)
  BY <1>4, SameHand, NoHand
<1>6. Hand' = Hand
  BY <1>5 DEF Hand
<1>7. Checked!Configure
  BY <1>2, <1>3, <1>6 DEF Checked!Configure, Buffer, Shown, Hand, InHandOf
<1> QED BY <1>7 DEF Checked!Next

LEMMA ClearShown ==
    ASSUME ServerInv, CloseInv, ClearDiagnostics
    PROVE  Checked!Next
<1>1. JobOk(Handler) /\ JobsTyped /\ Handler \in Actors /\ job[Handler].pc = "clear"
  BY ActorsApart DEF ServerInv, ClearDiagnostics, At
<1>2. PICK u \in Uris : u = job[Handler].uri /\ doc[u] = NoDoc
  BY <1>1 DEF JobOk, Handling, CloseInv, CloserKnows, Leaving
<1>3. diags' = [diags EXCEPT ![u] = Cleared] /\ UNCHANGED <<doc, configured, call>>
  BY <1>2 DEF ClearDiagnostics, docVars, cacheVars
<1>4. Buffer[u] = Cleared /\ Buffer' = Buffer /\ InForce' = InForce
  BY <1>2, <1>3 DEF Buffer, InForce
<1>5. Shown' = [Shown EXCEPT ![u] = Cleared]
  BY <1>3 DEF Shown, CloseInv, DiagsTyped
<1>6. /\ job[Handler].pc \notin Sending /\ job'[Handler].pc \notin Sending
      /\ \A b \in Actors \ {Handler} : job'[b] = job[b] /\ call'[b] = call[b]
  BY <1>1, <1>3 DEF ClearDiagnostics, JobsTyped, NoJob, Job, Sending
<1>7. \A b \in Actors : InHandOf(b)' = InHandOf(b)
  BY <1>6, SameHand, NoHand
<1>8. Hand' = Hand
  BY <1>7 DEF Hand
<1>9. Checked!Clear(u)
  BY <1>4, <1>5, <1>8 DEF Checked!Clear, Buffer, Shown, Hand, InHandOf
<1> QED BY <1>9 DEF Checked!Next

(* publish() and report_for() come back with nothing sent.                  *)
LEMMA ReturnShown ==
    ASSUME ServerInv, NEW a \in Actors, Return(a), UNCHANGED <<doc, configured, diags>>
    PROVE  Checked!Next
<1>1. /\ job'[a].pc \in {"config", "finish", "idle"}
      /\ \A b \in Actors \ {a} : job'[b] = job[b] /\ call'[b] = call[b]
  BY CallsTyped DEF ServerInv, JobsTyped, Return, NoJob, Job, Cache!Release
<1>2. job'[a].pc \notin Sending
  BY <1>1 DEF Sending
<1>3. Hand' = [Hand EXCEPT ![a] = Cleared]
  BY <1>1, <1>2, OneHand, NoHand
<1>4. InForce' = InForce
  BY DEF InForce
<1>5. Checked!Drop(a)
  BY <1>3, <1>4 DEF Checked!Drop, Hand, InHandOf
<1> QED BY <1>5 DEF Checked!Next

(* The document is compared: what is found current is taken in hand.        *)
LEMMA CheckShown ==
    ASSUME ServerInv, NEW a \in Actors, Check(a)
    PROVE  CheckedMoves
<1>1. /\ JobsTyped /\ JobOk(a) /\ DocsTyped /\ job[a].pc = "check"
      /\ UNCHANGED <<doc, configured, diags>>
  BY DEF ServerInv, Check, At, docVars, sentVars
<1>2. CASE Return(a)
  BY <1>1, <1>2, ReturnShown DEF CheckedMoves
<1>3. CASE Fresh(a) /\ Goto(a, "settings") /\ UNCHANGED cacheVars
  <2>1. PICK u \in Uris : u = job[a].uri
    BY <1>1 DEF JobOk, Reporting
  <2>2. /\ doc[u] # NoDoc /\ doc[u].version = Analyzed(a).version
        /\ doc[u].text = Analyzed(a).text /\ job[a].settings \in Settings
    BY <1>1, <1>3, <2>1, HasReport DEF Fresh
  <2>3. [text |-> doc[u].text, version |-> doc[u].version] # Cleared
    <3>1. doc[u] \in Docs
      BY <1>1, <2>2 DEF DocsTyped
    <3>2. [text |-> doc[u].text, version |-> doc[u].version]
              \in [text : Texts, version : 1..MaxVersion]
      BY <3>1 DEF Docs
    <3> QED BY <3>2, ServerAssumption
  <2>4. Buffer[u] # Cleared /\ Buffer[u].text = doc[u].text /\ Buffer[u].version = doc[u].version
    BY <2>2, <2>3 DEF Buffer
  <2>5. /\ job'[a].pc = "settings" /\ job'[a].uri = u /\ job'[a].settings = job[a].settings
        /\ call' = call
        /\ \A b \in Actors \ {a} : job'[b] = job[b]
    BY <1>1, <1>3, <2>1 DEF Goto, JobsTyped, cacheVars
  <2>6. InHandOf(a)' = [uri |-> u, text |-> Buffer[u].text, version |-> Buffer[u].version,
                        settings |-> job[a].settings, stage |-> "found"]
    BY <2>2, <2>4, <2>5 DEF InHandOf, Analyzed
  <2>7. Hand[a] = Cleared
    BY <1>1, NoHand DEF Hand, Sending
  <2>8. Hand' = [Hand EXCEPT ![a] = [uri |-> u, text |-> Buffer[u].text,
                                     version |-> Buffer[u].version,
                                     settings |-> job[a].settings, stage |-> "found"]]
    BY <2>5, <2>6, OneHand
  <2>9. Buffer' = Buffer /\ Shown' = Shown /\ InForce' = InForce
    BY <1>1 DEF Buffer, Shown, InForce
  <2>10. PICK s \in Settings : s = job[a].settings
    BY <2>2
  <2>11. Checked!Take(a, u, s)
    BY <2>4, <2>7, <2>8, <2>9, <2>10 DEF Checked!Take, Buffer, Shown, Hand, InHandOf
  <2> QED BY <2>1, <2>10, <2>11 DEF CheckedMoves, Checked!Next
<1> QED BY <1>2, <1>3 DEF Check

(* What is in hand when there is something in hand.                         *)
LEMMA Held ==
    ASSUME ServerInv, NEW a \in Actors, job[a].pc \in Sending
    PROVE  /\ Hand[a] # Cleared /\ job[a].uri \in Uris
           /\ Hand[a].uri = job[a].uri /\ Hand[a].settings = job[a].settings
           /\ Hand[a].text = Analyzed(a).text /\ Hand[a].version = Analyzed(a).version
           /\ job[a].pc # "settings" => Hand[a].stage = "approved"
           /\ [Hand[a] EXCEPT !.stage = "approved"] =
                  [uri |-> job[a].uri, text |-> Analyzed(a).text,
                   version |-> Analyzed(a).version, settings |-> job[a].settings,
                   stage |-> "approved"]
<1>1. Hand[a] = [uri |-> job[a].uri, text |-> Analyzed(a).text,
                 version |-> Analyzed(a).version, settings |-> job[a].settings,
                 stage |-> IF job[a].pc = "settings" THEN "found" ELSE "approved"]
  BY DEF Hand, InHandOf, Sending
<1>2. job[a].uri \in Uris /\ job[a].settings \in Settings /\ Analyzed(a) \in Keys
  BY HasReport DEF ServerInv, JobOk
<1>3. Hand[a] # Cleared
  <2>1. Hand[a] \in [uri : Uris, text : Texts, version : 1..MaxVersion,
                     settings : Settings, stage : {"found", "approved"}]
    BY <1>1, <1>2 DEF Keys
  <2> QED BY <2>1, ServerAssumption
<1>4. /\ Hand[a].uri = job[a].uri /\ Hand[a].settings = job[a].settings
      /\ Hand[a].text = Analyzed(a).text /\ Hand[a].version = Analyzed(a).version
      /\ job[a].pc # "settings" => Hand[a].stage = "approved"
  BY <1>1
<1>5. [Hand[a] EXCEPT !.stage = "approved"] =
          [uri |-> job[a].uri, text |-> Analyzed(a).text,
           version |-> Analyzed(a).version, settings |-> job[a].settings,
           stage |-> "approved"]
  BY <1>1
<1> QED BY <1>2, <1>3, <1>4, <1>5

(* The settings are compared.                                               *)
LEMMA CheckSettingsShown ==
    ASSUME ServerInv, NEW a \in Actors, CheckSettings(a)
    PROVE  CheckedMoves
<1>1. /\ JobsTyped /\ job[a].pc = "settings" /\ job[a].pc \in Sending
      /\ UNCHANGED <<doc, configured, diags>>
  BY DEF ServerInv, CheckSettings, At, docVars, sentVars, Sending
<1>2. CASE Return(a)
  BY <1>1, <1>2, ReturnShown DEF CheckedMoves
<1>3. CASE InTheirOwn(a) /\ Goto(a, "status") /\ UNCHANGED cacheVars
  <2>1. /\ job'[a].pc = "status" /\ job'[a].uri = job[a].uri
        /\ job'[a].settings = job[a].settings /\ call' = call
        /\ \A b \in Actors \ {a} : job'[b] = job[b]
    BY <1>1, <1>3 DEF Goto, JobsTyped, cacheVars
  <2>2. InHandOf(a)' = [uri |-> job[a].uri, text |-> Analyzed(a).text,
                        version |-> Analyzed(a).version, settings |-> job[a].settings,
                        stage |-> "approved"]
    BY <2>1 DEF InHandOf, Analyzed
  <2>3. Hand[a] # Cleared /\ Hand[a].settings = InForce
        /\ InHandOf(a)' = [Hand[a] EXCEPT !.stage = "approved"]
    BY <1>1, <1>3, <2>2, Held DEF InTheirOwn
  <2>4. Hand' = [Hand EXCEPT ![a] = [Hand[a] EXCEPT !.stage = "approved"]]
    BY <2>1, <2>3, OneHand
  <2>5. Buffer' = Buffer /\ Shown' = Shown /\ InForce' = InForce
    BY <1>1 DEF Buffer, Shown, InForce
  <2>6. Checked!Approve(a)
    BY <2>3, <2>4, <2>5 DEF Checked!Approve, Buffer, Shown, Hand, InHandOf
  <2> QED BY <2>6 DEF CheckedMoves, Checked!Next
<1> QED BY <1>2, <1>3 DEF CheckSettings

LEMMA NotifyShown ==
    ASSUME ServerInv, NEW a \in Actors, NotifyFileHealth(a)
    PROVE  CheckedMoves
<1>1. /\ JobsTyped /\ job[a].pc = "status"
      /\ UNCHANGED <<doc, configured, diags, call>>
  BY DEF ServerInv, NotifyFileHealth, At, docVars, cacheVars
<1>2. /\ job'[a].pc = "diags" /\ job'[a].uri = job[a].uri /\ job'[a].settings = job[a].settings
      /\ \A b \in Actors \ {a} : job'[b] = job[b]
  BY <1>1 DEF NotifyFileHealth, Goto, JobsTyped
<1>3. InHandOf(a)' = InHandOf(a)
  BY <1>1, <1>2 DEF InHandOf, Analyzed
<1>4. \A b \in Actors : InHandOf(b)' = InHandOf(b)
  BY <1>1, <1>2, <1>3, SameHand
<1> QED BY <1>1, <1>4, NothingShown DEF CheckedMoves

LEMMA PublishShown ==
    ASSUME ServerInv, CloseInv, NEW a \in Actors, PublishDiagnostics(a)
    PROVE  Checked!Next
<1>1. /\ JobsTyped /\ job[a].pc = "diags" /\ job[a].pc \in Sending /\ Return(a)
      /\ UNCHANGED <<doc, configured>> /\ diags \in [Uris -> Reports \cup {Cleared}]
  BY DEF ServerInv, PublishDiagnostics, At, Sending, docVars, CloseInv, DiagsTyped
<1>2. /\ Hand[a] # Cleared /\ Hand[a].stage = "approved"
      /\ Hand[a].uri = job[a].uri /\ job[a].uri \in Uris
      /\ Hand[a].text = Analyzed(a).text /\ Hand[a].version = Analyzed(a).version
      /\ Hand[a].settings = job[a].settings
  BY <1>1, Held
<1>3. diags' = [diags EXCEPT ![job[a].uri] = Report(a)]
  BY DEF PublishDiagnostics
<1>4. Report(a) # Cleared
  BY <1>1, HasReport
<1>5. Shown' = [Shown EXCEPT ![Hand[a].uri] = [text |-> Hand[a].text,
                                               version |-> Hand[a].version,
                                               settings |-> Hand[a].settings]]
  BY <1>1, <1>2, <1>3, <1>4 DEF Shown, Report
<1>6. /\ job'[a].pc \in {"config", "finish", "idle"}
      /\ \A b \in Actors \ {a} : job'[b] = job[b] /\ call'[b] = call[b]
  BY <1>1, CallsTyped DEF ServerInv, JobsTyped, Return, NoJob, Job, Cache!Release
<1>7. job'[a].pc \notin Sending
  BY <1>6 DEF Sending
<1>8. Hand' = [Hand EXCEPT ![a] = Cleared]
  BY <1>6, <1>7, OneHand, NoHand
<1>9. Buffer' = Buffer /\ InForce' = InForce
  BY <1>1 DEF Buffer, InForce
<1>10. Checked!Show(a)
  BY <1>2, <1>5, <1>8, <1>9 DEF Checked!Show, Buffer, Shown, Hand, InHandOf
<1> QED BY <1>10 DEF Checked!Next

LEMMA ReportUnshown ==
    ASSUME ServerInv, NEW a \in Actors, ReportStep(a)
    PROVE  CheckedMoves
<1>1. JobsTyped /\ Calls!IInv /\ UNCHANGED <<doc, configured, diags>> /\ job[a].pc \notin Sending
  BY DEF ServerInv, ReportStep, Waits, Capture, LookUp, Analyze, At, docVars, sentVars, Sending
<1>2. \A b \in Actors \ {a} : call'[b] = call[b]
  BY <1>1, CallsTyped
  DEF ReportStep, Waits, Capture, LookUp, Analyze, Return, Cache!Lookup, Cache!Begin,
      Cache!Complete, Cache!Join, Cache!Release, cacheVars
<1>3. \A b \in Actors \ {a} : job'[b] = job[b]
  BY <1>1 DEF ReportStep, Waits, Capture, LookUp, Analyze, Return, Goto, JobsTyped
<1>4. job'[a].pc \notin Sending
  BY <1>1
  DEF ReportStep, Waits, Capture, LookUp, Analyze, Return, Goto, JobsTyped, NoJob, Job, Sending
<1> QED BY <1>1, <1>2, <1>3, <1>4, MovesUnshown

LEMMA HandlerUnshown ==
    ASSUME ServerInv,
           \/ OnOpen \/ OnChange \/ OnClose \/ ForgetClosed \/ Republished
           \/ \E u \in Uris : Republish(u) \/ DidSave(u)
    PROVE  CheckedMoves
<1>1. /\ JobsTyped /\ EditsTyped /\ Handler \in Actors
      /\ UNCHANGED <<doc, configured, diags, call>> /\ job[Handler].pc \notin Sending
  BY ActorsApart
  DEF ServerInv, OnOpen, OnChange, OnClose, ForgetClosed, Republished, Republish, DidSave,
      Deliver, At, docVars, sentVars, cacheVars, Cache!Forget, Sending
<1>2. CASE OnChange
  <2>1. PICK e \in EditIds : e = issued + 1 /\ e \in Actors /\ e # Handler
    BY <1>1, <1>2, ActorsApart, ServerAssumption
    DEF OnChange, Edits!Schedule, EditsTyped, EditIds
  <2>2. PICK u : job' = [job EXCEPT ![Handler] = NoJob, ![e] = Job("sleep", u, NoSettings, NoDoc)]
    BY <1>2, <2>1 DEF OnChange
  <2>3. /\ job'[Handler].pc = "idle" /\ job'[e].pc = "sleep"
        /\ \A b \in Actors \ {Handler, e} : job'[b] = job[b]
    BY <1>1, <2>1, <2>2 DEF JobsTyped, NoJob, Job
  <2>4. CASE job[e].pc \notin Sending
    <3>1. \A b \in Actors : InHandOf(b)' = InHandOf(b)
      BY <1>1, <2>3, <2>4, SameHand, NoHand DEF Sending
    <3> QED BY <1>1, <3>1, NothingShown DEF CheckedMoves
  <2>5. CASE job[e].pc \in Sending
    <3>1. /\ \A b \in Actors \ {e} : InHandOf(b)' = InHandOf(b)
          /\ InHandOf(e)' = Cleared
      BY <1>1, <2>1, <2>3, SameHand, NoHand DEF Sending
    <3>2. Hand' = [Hand EXCEPT ![e] = Cleared]
      BY <3>1 DEF Hand
    <3>3. InForce' = InForce
      BY <1>1 DEF InForce
    <3>4. Checked!Drop(e)
      BY <1>1, <3>2, <3>3 DEF Checked!Drop, Hand, InHandOf
    <3> QED BY <2>1, <3>4 DEF CheckedMoves, Checked!Next
  <2> QED BY <2>4, <2>5
<1>3. CASE \/ OnOpen \/ OnClose \/ ForgetClosed \/ Republished
           \/ \E u \in Uris : Republish(u) \/ DidSave(u)
  <2>1. /\ job'[Handler].pc \in {"wait", "forget", "clear", "idle"}
        /\ \A b \in Actors \ {Handler} : job'[b] = job[b]
    BY <1>1, <1>3
    DEF OnOpen, OnClose, ForgetClosed, Republished, Republish, DidSave, Publishing, Goto,
        JobsTyped, NoJob, Job
  <2>2. job'[Handler].pc \notin Sending
    BY <2>1 DEF Sending
  <2> QED BY <1>1, <2>1, <2>2, MovesUnshown
<1> QED BY <1>2, <1>3

LEMMA OthersUnshown ==
    ASSUME ServerInv,
           \/ \E e \in EditIds : Wake(e) \/ Stop(e) \/ End(e)
           \/ \E r \in Requests : Reply(r) \/ \E u \in Uris : Request(r, u)
           \/ DropState \/ Tick \/ UNCHANGED vars
    PROVE  CheckedMoves
<1>1. JobsTyped /\ Calls!IInv
  BY DEF ServerInv
<1>2. ASSUME NEW e \in EditIds, Wake(e) \/ Stop(e) \/ End(e) PROVE CheckedMoves
  <2>1. e \in Actors /\ UNCHANGED <<doc, configured, diags>>
        /\ \A b \in Actors \ {e} : call'[b] = call[b]
    BY <1>1, <1>2, ActorsApart, CallsTyped
    DEF Wake, Stop, End, Cache!Abandon, docVars, sentVars, cacheVars
  <2>2. /\ job'[e].pc \in {"wait", "finish", "done"}
        /\ job[e].pc \in {"sleep", "wait", "analyze", "finish"}
        /\ \A b \in Actors \ {e} : job'[b] = job[b]
    BY <1>1, <1>2, <2>1 DEF Wake, Stop, End, At, Goto, JobsTyped, Job
  <2>3. job[e].pc \notin Sending /\ job'[e].pc \notin Sending
    BY <2>2 DEF Sending
  <2> QED BY <2>1, <2>2, <2>3, MovesUnshown
<1>3. ASSUME NEW r \in Requests, Reply(r) PROVE CheckedMoves
  <2>1. r \in Actors /\ Return(r) /\ UNCHANGED <<doc, configured, diags>>
    BY <1>3, ActorsApart DEF Reply, docVars, sentVars
  <2> QED BY <2>1, ReturnShown DEF CheckedMoves
<1>4. ASSUME NEW r \in Requests, NEW u \in Uris, Request(r, u) PROVE CheckedMoves
  <2>1. /\ r \in Actors /\ UNCHANGED <<doc, configured, diags, call>>
        /\ job[r].pc = "idle" /\ job'[r].pc = "wait" /\ \A b \in Actors \ {r} : job'[b] = job[b]
    BY <1>1, <1>4, ActorsApart
    DEF Request, At, docVars, sentVars, cacheVars, JobsTyped, Job
  <2>2. job[r].pc \notin Sending /\ job'[r].pc \notin Sending
    BY <2>1 DEF Sending
  <2> QED BY <2>1, <2>2, MovesUnshown
<1>5. CASE DropState
  <2>1. /\ UNCHANGED <<job, doc, configured, diags>>
        /\ \A a \in Actors : job[a].pc \notin Sending /\ job'[a].pc \notin Sending
    BY <1>5 DEF DropState, docVars, sentVars, Sending
  <2>2. \A a \in Actors : InHandOf(a)' = InHandOf(a)
    BY <2>1, NoHand
  <2> QED BY <2>1, <2>2, NothingShown DEF CheckedMoves
<1>6. CASE Tick \/ UNCHANGED vars
  <2>1. UNCHANGED <<job, doc, configured, diags, call>>
    BY <1>6 DEF Tick, vars, docVars, sentVars, cacheVars
  <2>2. \A a \in Actors : InHandOf(a)' = InHandOf(a)
    BY <2>1, SameHand
  <2> QED BY <2>1, <2>2, NothingShown DEF CheckedMoves
<1> QED BY <1>2, <1>3, <1>4, <1>5, <1>6

LEMMA HealthStep ==
    ASSUME ServerInv, CloseInv, [Next]_vars
    PROVE  CheckedMoves
<1>1. CASE ClientNotifies
  BY <1>1, ReceiveShown, ConfigureShown, HandlerUnshown
  DEF ClientNotifies, DidOpen, DidChange, DidClose, CheckedMoves
<1>2. ASSUME NEW a \in Actors, PublishStep(a) PROVE CheckedMoves
  BY <1>2, CheckShown, CheckSettingsShown, NotifyShown, PublishShown
  DEF PublishStep, CheckedMoves
<1>3. ASSUME HandlerStep PROVE CheckedMoves
  BY <1>2, <1>3, ActorsApart, HandlerUnshown, ClearShown, ReportUnshown
  DEF HandlerStep, CheckedMoves
<1>4. ASSUME NEW e \in EditIds, TaskStep(e) PROVE CheckedMoves
  BY <1>2, <1>4, ActorsApart, ReportUnshown, OthersUnshown DEF TaskStep
<1>5. ASSUME NEW r \in Requests, RequestStep(r) PROVE CheckedMoves
  BY <1>5, ActorsApart, ReportUnshown, OthersUnshown DEF RequestStep
<1> QED BY <1>1, <1>3, <1>4, <1>5, OthersUnshown DEF Next, Server

LEMMA HealthInitial == Init => Checked!Init
<1> SUFFICES ASSUME Init PROVE Checked!Init
  OBVIOUS
<1>1. InForce \in Settings
  BY ServerAssumption DEF Init, InForce
<1>2. \A a \in Actors : job[a].pc = "idle"
  BY DEF Init, NoJob, Job
<1>3. \A a \in Actors : InHandOf(a) = Cleared
  BY <1>2, NoHand DEF Sending
<1> QED BY <1>1, <1>3 DEF Init, Checked!Init, InHandOf

(* On any runtime, all the client is shown was first found to be of the     *)
(* document as it then was, and after that of the settings in force, by the *)
(* one that sends it, once each: publish() sends nothing else, and nothing  *)
(* but did_close takes it back, and that only once the document is gone.    *)
THEOREM HealthRefined == Spec => ShowsCheckedHealth
<1>1. ServerInv /\ CloseInv /\ [Next]_vars => CloseInv'
  BY CloseInductive
<1>2. ServerInv /\ CloseInv /\ [Next]_vars => [Checked!Next]_Checked!vars
  BY HealthStep DEF CheckedMoves
<1> QED
  BY <1>1, <1>2, CloseInitial, ServerInvariant, HealthInitial, PTL
  DEF Spec, ShowsCheckedHealth, Checked!Spec

=============================================================================
