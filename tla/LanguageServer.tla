--------------------------- MODULE LanguageServer ---------------------------
(***************************************************************************)
(* The language server of crates/lspf-analysis/src/lib.rs: documents come  *)
(* in as LSP notifications, their health goes out as fileHealth and        *)
(* publishDiagnostics, and hover and functionHealth requests are answered  *)
(* from the same analyses.  EditDebounce and AnalysisCache are its parts.  *)
(*                                                                         *)
(* Actors.  The framework (lspf, external) owns the documents, applies     *)
(* each notification to them and awaits its handler before the next one:   *)
(* all handlers are the one actor Handler.  Every didChange spawns a task, *)
(* named by its edit; requests run beside both.                            *)
(*                                                                         *)
(* Threads.  `serve' runs on a multi-threaded runtime: actors interleave   *)
(* at every access to shared state (MultiThread).  The tests run on one    *)
(* thread: an actor inside a poll runs on to its next await point.         *)
(***************************************************************************)
EXTENDS Naturals

CONSTANTS Uris, Texts, Languages, Settings,
          HealthOf,     \* the scoring part of each of the Settings
          InitOptions,  \* what initializationOptions parse to, or NoSettings
          Fallback,     \* the Settings the process started with
          Unsupported,  \* languages language_for() does not know
          Broken,       \* documents and texts whose analysis yields nothing, or panics
          MaxVersion, MaxEdits, MaxRequests,  \* bounds
          MultiThread,
          EntryIds, NoEntry, NoKey, NoCaller, NoUri, NoDoc, NoSettings, Cleared

VARIABLES pending, issued, cancelled, elapsed, on,  \* State.edits
          cache, heap, call,  \* State.analyses and its callers
          doc,         \* the framework's documents
          open,        \* State.open
          configured,  \* State.configured
          job,         \* where each actor is, for which document
          todo,        \* documents did_change_configuration has yet to publish
          status,      \* the last fileHealth the client was sent
          diags,       \* the last publishDiagnostics the client was sent
          alive,       \* the State has not been dropped
          overtaken    \* history: documents an actor had in hand when last closed

Handler == 0
EditIds == 1..MaxEdits
Requests == MaxEdits+1 .. MaxEdits+MaxRequests
Actors == {Handler} \cup EditIds \cup Requests

Docs == [lang : Languages, text : Texts, version : 1..MaxVersion]
Keys == [lang : Languages, text : Texts, version : 1..MaxVersion,
         config : {HealthOf[s] : s \in Settings}]
Reports == [key : Keys, settings : Settings]

ASSUME ServerAssumption ==
    /\ MaxEdits \in Nat /\ MaxRequests \in Nat /\ MaxVersion \in Nat \ {0}
    /\ Fallback \in Settings /\ InitOptions \in Settings \cup {NoSettings}
    /\ NoUri \notin Uris /\ NoDoc \notin Docs /\ NoSettings \notin Settings
    /\ NoEntry \notin EntryIds /\ NoKey \notin Keys /\ NoCaller \notin Actors
    /\ Cleared \notin Reports \cup [text : Texts, version : 1..MaxVersion]
                        \cup [uri : Uris, text : Texts, version : 1..MaxVersion,
                              settings : Settings, stage : {"found", "approved"}]

Edits == INSTANCE EditDebounce WITH Waiters <- Actors
Cache == INSTANCE AnalysisCache WITH Callers <- Actors, Documents <- Uris

editVars == <<pending, issued, cancelled, elapsed, on>>
cacheVars == <<cache, heap, call>>
docVars == <<doc, open, configured>>
sentVars == <<status, diags>>
lifeVars == <<alive, overtaken>>
vars == <<editVars, cacheVars, docVars, job, todo, sentVars, lifeVars>>

(* Where an actor is within a poll; elsewhere it awaits something.          *)
MidPoll == {"capture", "lookup", "check", "settings", "status", "diags", "finish",
            "open", "change", "close", "forget", "clear", "config"}

(* Where it acts on a document that it found open.                          *)
InHand == {"lookup", "settings", "status", "diags"}

Job(pc, uri, settings, snap) == [pc |-> pc, uri |-> uri, settings |-> settings, snap |-> snap]
NoJob == Job("idle", NoUri, NoSettings, NoDoc)

Init ==
    /\ Edits!DebounceInit
    /\ Cache!CacheInit
    /\ doc = [u \in Uris |-> NoDoc]
    /\ open = {}
    /\ configured = NoSettings
    /\ job = [a \in Actors |-> NoJob]
    /\ todo = {}
    /\ status = [u \in Uris |-> Cleared]
    /\ diags = [u \in Uris |-> Cleared]
    /\ alive = TRUE
    /\ overtaken = {}

-----------------------------------------------------------------------------

(* State::settings(): the most specific source that has anything.           *)
InForce ==
    CASE configured # NoSettings -> configured
      [] configured = NoSettings /\ InitOptions # NoSettings -> InitOptions
      [] OTHER -> Fallback

(* On one thread only the actor inside a poll can move.                     *)
Turn(a) == MultiThread \/ \A b \in Actors \ {a} : job[b].pc \notin MidPoll

At(a, pc) == job[a].pc = pc /\ Turn(a)
Goto(a, pc) == job' = [job EXCEPT ![a].pc = pc]

(* Mutant of Polled: a select! that is not biased.                          *)
PolledAnyway(a) == TRUE

(* An edit's task is polled through a select! biased to its cancellation.   *)
Polled(a) == a \notin cancelled

(* publish() or report_for() comes back to its caller.                      *)
Return(a) ==
    /\ Cache!Release(a)
    /\ job' = [job EXCEPT ![a] =
         IF a = Handler /\ todo # {} THEN Job("config", NoUri, job[a].settings, NoDoc)
         ELSE IF a \in EditIds THEN Job("finish", job[a].uri, NoSettings, NoDoc)
         ELSE NoJob]

-----------------------------------------------------------------------------
(* Notifications: the framework updates its document, the handler follows.  *)

Deliver == alive /\ At(Handler, "idle")

Receive(u, d, pc) ==
    /\ Deliver
    /\ doc' = [doc EXCEPT ![u] = d]
    /\ job' = [job EXCEPT ![Handler] = Job(pc, u, NoSettings, NoDoc)]
    /\ UNCHANGED <<editVars, cacheVars, open, configured, todo, sentVars, alive>>

DidOpen(u, l, t) ==
    /\ doc[u] = NoDoc
    /\ Receive(u, [lang |-> l, text |-> t, version |-> 1], "open")
    /\ UNCHANGED overtaken

DidChange(u, t) ==
    /\ doc[u] # NoDoc /\ doc[u].version < MaxVersion /\ issued < MaxEdits
    /\ Receive(u, [lang |-> doc[u].lang, text |-> t, version |-> doc[u].version + 1], "change")
    /\ UNCHANGED overtaken

DidClose(u) ==
    /\ doc[u] # NoDoc
    /\ Receive(u, NoDoc, "close")
    /\ overtaken' = IF \E a \in Actors : job[a].pc \in InHand /\ job[a].uri = u
                    THEN overtaken \cup {u} ELSE overtaken \ {u}

Publishing(u, settings) ==
    job' = [job EXCEPT ![Handler] = Job("wait", u, settings, NoDoc)]

OnOpen ==
    LET u == job[Handler].uri
    IN  /\ At(Handler, "open")
        /\ Edits!Cancel(u)
        /\ open' = open \cup {u}
        /\ Publishing(u, InForce)
        /\ UNCHANGED <<cacheVars, doc, configured, todo, sentVars, lifeVars>>

(* did_change returns at once; its edit's task sleeps.                      *)
OnChange ==
    LET u == job[Handler].uri
    IN  /\ At(Handler, "change")
        /\ Edits!Schedule(u)
        /\ job' = [job EXCEPT ![Handler] = NoJob,
                              ![issued + 1] = Job("sleep", u, NoSettings, NoDoc)]
        /\ UNCHANGED <<cacheVars, docVars, todo, sentVars, lifeVars>>

(* Mutant of DidSave: the pending edit is left pending.                     *)
SaveWithoutFlush(u) ==
    /\ Deliver
    /\ doc[u] # NoDoc
    /\ Publishing(u, InForce)
    /\ UNCHANGED <<editVars, cacheVars, docVars, todo, sentVars, lifeVars>>

DidSave(u) ==
    /\ Deliver
    /\ doc[u] # NoDoc
    /\ Edits!Cancel(u)
    /\ Publishing(u, InForce)
    /\ UNCHANGED <<cacheVars, docVars, todo, sentVars, lifeVars>>

OnClose ==
    LET u == job[Handler].uri
    IN  /\ At(Handler, "close")
        /\ Edits!Cancel(u)
        /\ Goto(Handler, "forget")
        /\ UNCHANGED <<cacheVars, docVars, todo, sentVars, lifeVars>>

(* Nothing but a handler reads State.open.                                  *)
ForgetClosed ==
    LET u == job[Handler].uri
    IN  /\ At(Handler, "forget")
        /\ Cache!Forget(u)
        /\ open' = open \ {u}
        /\ Goto(Handler, "clear")
        /\ UNCHANGED <<editVars, doc, configured, todo, sentVars, lifeVars>>

ClearDiagnostics ==
    /\ At(Handler, "clear")
    /\ diags' = [diags EXCEPT ![job[Handler].uri] = Cleared]
    /\ job' = [job EXCEPT ![Handler] = NoJob]
    /\ UNCHANGED <<editVars, cacheVars, docVars, todo, status, lifeVars>>

(* Mutant of DidChangeConfiguration: open documents are not republished.    *)
ConfigureQuietly(s) ==
    /\ Deliver
    /\ configured # s
    /\ configured' = s
    /\ job' = [job EXCEPT ![Handler] = Job("config", NoUri, s, NoDoc)]
    /\ UNCHANGED <<editVars, cacheVars, doc, open, todo, sentVars, lifeVars>>

(* The same settings again, or settings that do not parse, change nothing.  *)
DidChangeConfiguration(s) ==
    /\ Deliver
    /\ configured # s
    /\ configured' = s
    /\ todo' = open
    /\ job' = [job EXCEPT ![Handler] = Job("config", NoUri, s, NoDoc)]
    /\ UNCHANGED <<editVars, cacheVars, doc, open, sentVars, lifeVars>>

Republish(u) ==
    /\ At(Handler, "config")
    /\ u \in todo
    /\ todo' = todo \ {u}
    /\ Edits!Cancel(u)
    /\ Publishing(u, job[Handler].settings)
    /\ UNCHANGED <<cacheVars, docVars, sentVars, lifeVars>>

Republished ==
    /\ At(Handler, "config")
    /\ todo = {}
    /\ job' = [job EXCEPT ![Handler] = NoJob]
    /\ UNCHANGED <<editVars, cacheVars, docVars, todo, sentVars, lifeVars>>

(* hover or function_health: a client may ask about any document.           *)
Request(r, u) ==
    /\ alive
    /\ At(r, "idle")
    /\ job' = [job EXCEPT ![r] = Job("wait", u, InForce, NoDoc)]
    /\ UNCHANGED <<editVars, cacheVars, docVars, todo, sentVars, lifeVars>>

-----------------------------------------------------------------------------
(* report_for()                                                             *)

Waits(a) ==
    /\ At(a, "wait")
    /\ Polled(a)
    /\ \/ Edits!WaitReturns(a, job[a].uri) /\ Goto(a, "capture")
       \/ Edits!WaitSleeps(a, job[a].uri) /\ UNCHANGED job
       \/ Edits!WaitWakes(a) /\ UNCHANGED job
    /\ UNCHANGED <<cacheVars, docVars, todo, sentVars, lifeVars>>

Capture(a) ==
    LET d == doc[job[a].uri]
    IN  /\ At(a, "capture")
        /\ IF d = NoDoc \/ d.lang \in Unsupported
           THEN Return(a)
           ELSE /\ job' = [job EXCEPT ![a] = Job("lookup", job[a].uri, job[a].settings, d)]
                /\ UNCHANGED cacheVars
        /\ UNCHANGED <<editVars, docVars, todo, sentVars, lifeVars>>

(* Mutant of LookUp: scored with the settings of now, not the captured.     *)
LookUpInForce(a) ==
    LET d == job[a].snap
        k == [lang |-> d.lang, text |-> d.text, version |-> d.version,
              config |-> HealthOf[InForce]]
    IN  /\ At(a, "lookup")
        /\ Cache!Lookup(a, job[a].uri, k)
        /\ job' = [job EXCEPT ![a] = Job("analyze", job[a].uri, job[a].settings, NoDoc)]
        /\ UNCHANGED <<editVars, docVars, todo, sentVars, lifeVars>>

LookUp(a) ==
    LET d == job[a].snap
        k == [lang |-> d.lang, text |-> d.text, version |-> d.version,
              config |-> HealthOf[job[a].settings]]
    IN  /\ At(a, "lookup")
        /\ Cache!Lookup(a, job[a].uri, k)
        /\ job' = [job EXCEPT ![a] = Job("analyze", job[a].uri, job[a].settings, NoDoc)]
        /\ UNCHANGED <<editVars, docVars, todo, sentVars, lifeVars>>

Analyze(a) ==
    /\ At(a, "analyze")
    /\ Polled(a)
    /\ \/ Cache!Begin(a) /\ UNCHANGED job
       \/ (Cache!Complete(a) \/ Cache!Join(a)) /\ Goto(a, "check")
    /\ UNCHANGED <<editVars, docVars, todo, sentVars, lifeVars>>

Analyzed(a) == call[a].answer
Failed(a) == <<job[a].uri, Analyzed(a).text>> \in Broken

(* The request is answered.                                                 *)
Reply(r) ==
    /\ At(r, "check")
    /\ Return(r)
    /\ UNCHANGED <<editVars, docVars, todo, sentVars, lifeVars>>

-----------------------------------------------------------------------------
(* publish(), with the report in hand                                       *)

Report(a) == [key |-> Analyzed(a), settings |-> job[a].settings]

(* Mutant of Fresh: a document that is gone is not noticed.                 *)
FreshIfGone(a) ==
    LET d == doc[job[a].uri]
    IN  d # NoDoc => d.version = Analyzed(a).version /\ d.text = Analyzed(a).text

Fresh(a) ==
    LET d == doc[job[a].uri]
    IN  d # NoDoc /\ d.version = Analyzed(a).version /\ d.text = Analyzed(a).text

Check(a) ==
    /\ At(a, "check")
    /\ IF ~Failed(a) /\ Fresh(a)
       THEN Goto(a, "settings") /\ UNCHANGED cacheVars
       ELSE Return(a)
    /\ UNCHANGED <<editVars, docVars, todo, sentVars, lifeVars>>

(* Mutant of InTheirOwn: the settings are not compared.                     *)
InAny(a) == TRUE

InTheirOwn(a) == InForce = job[a].settings

CheckSettings(a) ==
    /\ At(a, "settings")
    /\ IF InTheirOwn(a) THEN Goto(a, "status") /\ UNCHANGED cacheVars ELSE Return(a)
    /\ UNCHANGED <<editVars, docVars, todo, sentVars, lifeVars>>

NotifyFileHealth(a) ==
    /\ At(a, "status")
    /\ status' = [status EXCEPT ![job[a].uri] = Report(a)]
    /\ Goto(a, "diags")
    /\ UNCHANGED <<editVars, cacheVars, docVars, todo, diags, lifeVars>>

PublishDiagnostics(a) ==
    /\ At(a, "diags")
    /\ diags' = [diags EXCEPT ![job[a].uri] = Report(a)]
    /\ Return(a)
    /\ UNCHANGED <<editVars, docVars, todo, status, lifeVars>>

-----------------------------------------------------------------------------
(* The task did_change spawned                                              *)

Wake(e) ==
    /\ At(e, "sleep")
    /\ e <= elapsed
    /\ Polled(e)
    /\ IF alive THEN job' = [job EXCEPT ![e] = Job("wait", job[e].uri, InForce, NoDoc)]
       ELSE Goto(e, "finish")
    /\ UNCHANGED <<editVars, cacheVars, docVars, todo, sentVars, lifeVars>>

(* Cancelled at an await point: the deadline branch is dropped there.       *)
Stop(e) ==
    /\ job[e].pc \in {"sleep", "wait", "analyze"}
    /\ Turn(e)
    /\ e \in cancelled
    /\ Edits!WaitDropped(e)
    /\ Cache!Abandon(e)
    /\ job' = [job EXCEPT ![e] = Job("finish", job[e].uri, NoSettings, NoDoc)]
    /\ UNCHANGED <<docVars, todo, sentVars, lifeVars>>

End(e) ==
    /\ At(e, "finish")
    /\ IF alive THEN Edits!Finish(job[e].uri, e) ELSE UNCHANGED editVars
    /\ job' = [job EXCEPT ![e] = Job("done", NoUri, NoSettings, NoDoc)]
    /\ UNCHANGED <<cacheVars, docVars, todo, sentVars, lifeVars>>

(* The connection ends and nothing holds the State strongly any more.       *)
DropState ==
    /\ alive
    /\ \A a \in Actors : job[a].pc \in {"idle", "sleep", "finish", "done"}
    /\ Edits!Drop
    /\ Cache!DropCache
    /\ alive' = FALSE
    /\ UNCHANGED <<docVars, job, todo, sentVars, overtaken>>

Tick ==
    /\ Edits!Elapse
    /\ UNCHANGED <<cacheVars, docVars, job, todo, sentVars, lifeVars>>

-----------------------------------------------------------------------------

ReportStep(a) == Waits(a) \/ Capture(a) \/ LookUp(a) \/ Analyze(a)
PublishStep(a) ==
    Check(a) \/ CheckSettings(a) \/ NotifyFileHealth(a) \/ PublishDiagnostics(a)

HandlerStep ==
    \/ OnOpen \/ OnChange \/ OnClose \/ ForgetClosed \/ ClearDiagnostics
    \/ \E u \in Uris : Republish(u)
    \/ Republished
    \/ ReportStep(Handler) \/ PublishStep(Handler)
TaskStep(e) == Wake(e) \/ ReportStep(e) \/ PublishStep(e) \/ Stop(e) \/ End(e)
RequestStep(r) == ReportStep(r) \/ Reply(r)

Server ==
    \/ HandlerStep
    \/ \E e \in EditIds : TaskStep(e)
    \/ \E r \in Requests : RequestStep(r)
    \/ Tick

ClientNotifies ==
    \/ \E u \in Uris :
         \/ DidSave(u) \/ DidClose(u)
         \/ \E t \in Texts : DidChange(u, t) \/ \E l \in Languages : DidOpen(u, l, t)
    \/ \E s \in Settings : DidChangeConfiguration(s)

Next ==
    \/ Server
    \/ ClientNotifies
    \/ \E r \in Requests, u \in Uris : Request(r, u)
    \/ DropState

(* Tokio polls every task that is woken, in turn: on one thread a task can  *)
(* move only between the polls of the others, hence strong fairness, which  *)
(* also hands the permit to compute to calls in order.  Time passes and     *)
(* computations end; a client may fall silent at any moment.                *)
Fairness ==
    /\ SF_vars(HandlerStep)
    /\ \A e \in EditIds : SF_vars(TaskStep(e))
    /\ \A r \in Requests : SF_vars(RequestStep(r))
    /\ WF_vars(Tick)

Spec == Init /\ [][Next]_vars
FairSpec == Spec /\ Fairness

-----------------------------------------------------------------------------
(* Correctness on any runtime *)

(* The tasks of the edits, and the requests that wait for them, behave as   *)
(* EditTasks says: a task that was cancelled never begins to publish, none  *)
(* begins within its quiet period, and the map holds exactly the live ones. *)
TaskOf(e) ==
    CASE job[e].pc = "idle"  -> "none"
      [] job[e].pc = "sleep" -> "sleeping"
      [] job[e].pc = "finish" -> "finishing"
      [] job[e].pc = "done"  -> "done"
      [] OTHER -> "publishing"
Tasks == INSTANCE EditTasks WITH
    Waiters <- Requests,
    on      <- [r \in Requests |-> on[r]],
    task    <- [e \in EditIds |-> TaskOf(e)],
    uriOf   <- [e \in EditIds |-> job[e].uri],
    asking  <- [r \in Requests |-> IF job[r].pc = "wait" THEN job[r].uri ELSE NoUri]
ImplementsEditTasks == Tasks!Spec

(* What publish() renders and a request is answered with was scored with    *)
(* the settings it captured when it started, whichever call computed it     *)
(* and however the settings in force have moved on since.                   *)
ScoredWithItsSettings ==
    \A a \in Actors : job[a].pc \in {"check", "settings", "status", "diags"} =>
        Analyzed(a).config = HealthOf[job[a].settings]

(* A notification handler never sits out a quiet period: it would hold up   *)
(* every notification behind it, the edits and the close included.          *)
HandlerNeverWaits == on[Handler] = Edits!NoEdit

(* Every request is answered, the handler is free for the next notification *)
(* again, and every edit's task ends, whatever is edited, flushed or closed *)
(* around them (did_change's task, report_for and its wait).                *)
ActorsFinish ==
    \A a \in Actors : job[a].pc # "idle" ~> job[a].pc \in {"idle", "done"}

(* What is left of a document once did_close has run was left by an actor   *)
(* that had found it open and not yet acted on that when the close arrived  *)
(* (lib.rs:107-111, lib.rs:122-148): where there was none, neither the      *)
(* client nor the cache keeps anything, whatever waited or was computed     *)
(* then.  On one thread there is none: a poll does not end there.           *)
ClosedUnlessOvertaken ==
    \A u \in Uris : doc[u] = NoDoc /\ job[Handler].uri # u /\ u \notin overtaken =>
        diags[u] = Cleared /\ cache[u] = NoEntry

(* What the client is shown was, before it was sent, found to be of the     *)
(* document as it is and then scored under the settings in force, and is    *)
(* sent once: nothing else may move in between but what CheckedHealth says. *)
Checked == INSTANCE CheckedHealth WITH
    Publishers <- Actors,
    buffer   <- [u \in Uris |-> IF doc[u] = NoDoc THEN Cleared
                                ELSE [text |-> doc[u].text, version |-> doc[u].version]],
    inForce  <- InForce,
    hand     <- [a \in Actors |->
                   IF job[a].pc \notin {"settings", "status", "diags"} THEN Cleared
                   ELSE [uri |-> job[a].uri, text |-> Analyzed(a).text,
                         version |-> Analyzed(a).version, settings |-> job[a].settings,
                         stage |-> IF job[a].pc = "settings" THEN "found" ELSE "approved"]],
    shown    <- [u \in Uris |->
                   IF diags[u] = Cleared THEN Cleared
                   ELSE [text |-> diags[u].key.text, version |-> diags[u].key.version,
                         settings |-> diags[u].settings]]
ShowsCheckedHealth == Checked!Spec

-----------------------------------------------------------------------------
(* Correctness on one thread, where a poll is atomic *)

(* What the client is shown is the health of the document and settings of   *)
(* the moment it is sent, and a closed document is cleared.                 *)
Health == INSTANCE PublishedHealth WITH
    buffer   <- [u \in Uris |-> IF doc[u] = NoDoc THEN Cleared
                                ELSE [text |-> doc[u].text, version |-> doc[u].version]],
    inForce  <- InForce,
    shown    <- [u \in Uris |->
                   IF diags[u] = Cleared THEN Cleared
                   ELSE [text |-> diags[u].key.text, version |-> diags[u].key.version,
                         settings |-> diags[u].settings]]
ShowsCurrentHealth == Health!Spec

(* When the client falls silent, what it is shown settles on the documents  *)
(* and settings it left behind, unless they cannot be analysed.             *)
UpToDate(u) ==
    IF doc[u] = NoDoc THEN diags[u] = Cleared
    ELSE \/ doc[u].lang \in Unsupported \/ <<u, doc[u].text>> \in Broken
         \/ /\ diags[u] # Cleared
            /\ diags[u].key.version = doc[u].version
            /\ diags[u].key.text = doc[u].text
            /\ diags[u].settings = InForce
Settles ==
    ([]alive /\ <>[][~ClientNotifies]_vars) => \A u \in Uris : <>[]UpToDate(u)

-----------------------------------------------------------------------------
(* What the comments and tests say: it holds on one thread, and not between *)
(* the threads of the production runtime.                                   *)

(* A document that is closed keeps no diagnostics: "A closed document keeps *)
(* whatever was last published until the server says otherwise, so clear it *)
(* explicitly" (lib.rs, did_close).                                         *)
ClosedStaysClear ==
    \A u \in Uris : doc[u] = NoDoc /\ job[Handler].uri # u => diags[u] = Cleared

(* "Gutter hover and panel requests must not bypass the editing quiet       *)
(* period" (lib.rs, report_for): none takes up a text whose edit is still   *)
(* in its own.                                                              *)
RequestsRespectQuiet ==
    [][\A r \in Requests : job[r].pc = "capture" /\ job'[r].pc = "lookup" =>
         \A e \in EditIds :
             job[e].pc = "sleep" /\ job[e].uri = job[r].uri /\ e \notin cancelled
                 => e <= elapsed]_vars

=============================================================================
