--------------------------- MODULE AnalysisSession ---------------------------
(***************************************************************************)
(* The Visual Studio client's session (clients/vs/AnalysisSession.cs): the *)
(* documents the editor has open, one queue of what is still to be told    *)
(* to or asked of the server, and what the server last said about them.    *)
(*                                                                         *)
(* All state belongs to the UI thread: an action is what runs there from   *)
(* one await to the next.  `posted' holds the continuations that wait for  *)
(* the UI thread; only the first operation of `queue' is under way.        *)
(*                                                                         *)
(* The server (external) is what LanguageServer shows of it: documents and *)
(* settings in the order they are sent, every change published in order,   *)
(* and nothing when its settings stay equal.  It may leave out a           *)
(* publication that a later one overtakes; here it leaves out none, which  *)
(* only gives the session more stale ones to refuse.                       *)
(*                                                                         *)
(* Three things abstracted: a buffer has one view, a file renamed is heard *)
(* of on the UI thread, and the summary and diagnostics of a publication   *)
(* are handled one right after the other.                                  *)
(***************************************************************************)
EXTENDS Naturals, FiniteSets, SequencesExt

CONSTANTS Docs,      \* Document objects, one per buffer, numbered as they are made
          Uris,
          Analysed,  \* the URIs whose extension has a Language
          Settings,
          Conns,     \* the connections, numbered as they are made
          None,
          MaxOpen,   \* bound: documents open at a time
          MaxEvents  \* bound: what the user does, and crashes

(* What the server knows of a document, and what it says about one.         *)
Texts == [text : Nat, version : Nat]
Messages == [kind : {"published", "functions"}, uri : Uris, text : Nat, version : Nat,
             settings : Settings, conn : Conns]

ASSUME AnalysedAssumption == Analysed \subseteq Uris
ASSUME ConnsAssumption == None \notin Conns /\ Conns \subseteq Nat
ASSUME FiniteAssumption == IsFiniteSet(Docs) /\ IsFiniteSet(Uris) /\ Settings # {}
ASSUME NoneAssumption ==
    /\ None \notin Docs /\ None \notin Uris /\ None \notin Settings
    /\ None \notin Nat /\ None \notin Texts /\ None \notin Messages
    /\ None \notin {"renamed", "configured"}

VARIABLES doc,         \* documents, with their buffers
          active,      \* the document of activeView
          timer,       \* documents whose latest BufferChanged is in its delay
          rpc, generation, settingsRevision, queue,
          posted,
          options,     \* AnalysisOptions, as Payload() reads it
          life,        \* AnalysisLanguageClient: where the newest server is
          server,      \* by connection
          news,        \* by connection: notifications the session has not handled
          missed,      \* history: the options changed while the newest server
                       \* initialized, and have not been changed since
          reused,      \* history: a name was given while its didClose was queued
          events

vars == <<doc, active, timer, rpc, generation, settingsRevision, queue, posted,
          options, life, server, news, missed, reused, events>>
sessionVars == <<rpc, generation, settingsRevision>>
history == <<missed, reused>>
clientVars == <<options, life, history>>
serverVars == <<server, news>>

NewDoc == [state |-> "unopened", uri |-> None, text |-> 0, sent |-> None,
           version |-> 0, summary |-> None, functions |-> None, diagnostics |-> None]
NewServer == [alive |-> FALSE, docs |-> [u \in Uris |-> None], init |-> None,
              configured |-> None]

Init ==
    /\ doc = [d \in Docs |-> NewDoc]
    /\ active = None /\ timer = {}
    /\ rpc = None /\ generation = 0 /\ settingsRevision = 0
    /\ queue = <<>> /\ posted = <<>>
    /\ options = CHOOSE s \in Settings : TRUE
    /\ life = "off"
    /\ server = [c \in Conns |-> NewServer]
    /\ news = [c \in Conns |-> <<>>]
    /\ missed = FALSE /\ reused = FALSE
    /\ events = 0

-----------------------------------------------------------------------------
(* The session's documents                                                  *)

(* Find: documents holds the ones that are open.                            *)
Open == {d \in Docs : doc[d].state = "open"}
Language(d) == doc[d].uri \in Analysed

(* Active, with activeView on a.                                            *)
ActiveIn(a) == IF a \in Open /\ Language(a) THEN a ELSE None
Active == ActiveIn(active)

Cleared(r) == [r EXCEPT !.summary = None, !.functions = None, !.diagnostics = None]
AllCleared == [d \in Docs |-> IF d \in Open THEN Cleared(doc[d]) ELSE doc[d]]

ByUri(u) == {d \in Open : doc[d].uri = u}

-----------------------------------------------------------------------------
(* The queue: an operation remembers the connection and generation it was   *)
(* queued for; without a connection nothing is queued.                      *)

Op(kind, d, u) == [kind |-> kind, doc |-> d, uri |-> u, settings |-> None,
                   conn |-> rpc, epoch |-> generation, then |-> None, step |-> "queued",
                   snapshot |-> None, sentUri |-> None, answer |-> None,
                   askEpoch |-> None, askRevision |-> None]
Enqueue(ops) == queue' = IF rpc = None THEN queue ELSE queue \o ops

(* Schedule(doc) queues a refresh; HoverAsync and Closed queue the others.  *)
Refresh(d) == Op("refresh", d, None)
Close(u) == Op("close", None, u)

Post(k) == posted' = Append(posted, k)
Task(kind, d, epoch) == [kind |-> kind, doc |-> d, epoch |-> epoch]

Happens == events < MaxEvents /\ events' = events + 1

-----------------------------------------------------------------------------
(* Editor events                                                            *)

(* Its first view: Register adds the document, and Activate runs if focused.*)
Register(d, u, focused) ==
    /\ doc[d].state = "unopened" /\ \A e \in Docs : e < d => doc[e].state # "unopened"
    /\ Cardinality(Open) < MaxOpen
    /\ u \in Analysed /\ ByUri(u) = {}
    /\ doc' = [doc EXCEPT ![d].state = "open", ![d].uri = u]
    /\ active' = IF focused THEN d ELSE active
    /\ Enqueue(IF focused THEN <<Refresh(d), Refresh(d)>> ELSE <<Refresh(d)>>)
    /\ UNCHANGED <<timer, sessionVars, posted, clientVars, serverVars, events>>

(* Activate, with the view of d or of something that is no document.        *)
Activate(d) ==
    /\ Happens
    /\ d \in Open \cup {None}
    /\ active' = d
    /\ IF ActiveIn(d) # None THEN Enqueue(<<Refresh(d)>>) ELSE UNCHANGED queue
    /\ UNCHANGED <<doc, timer, sessionVars, posted, clientVars, serverVars>>

(* The buffer changes, perhaps on a worker thread: BufferChanged is posted. *)
Edit(d) ==
    /\ Happens
    /\ d \in Open
    /\ doc' = [doc EXCEPT ![d].text = @ + 1]
    /\ Post(Task("changed", d, None))
    /\ UNCHANGED <<active, timer, sessionVars, queue, clientVars, serverVars>>

(* FileActionOccurred: the file has a new name.                             *)
Rename(d, u) ==
    /\ Happens
    /\ d \in Open /\ u # doc[d].uri /\ ByUri(u) = {}
    /\ doc' = [doc EXCEPT ![d] = [Cleared(@) EXCEPT !.uri = u, !.sent = None]]
    /\ timer' = timer \ {d}
    /\ Enqueue(<<[Close(doc[d].uri) EXCEPT !.then = "renamed", !.doc = d]>>)
    /\ reused' = (reused \/ \E i \in DOMAIN queue : queue[i].kind = "close" /\ queue[i].uri = u)
    /\ UNCHANGED <<active, sessionVars, posted, options, life, missed, serverVars>>

(* The last view is Closed.                                                 *)
CloseView(d) ==
    /\ Happens
    /\ d \in Open
    /\ doc' = [doc EXCEPT ![d].state = "closed"]
    /\ active' = IF active = d THEN None ELSE active
    /\ Enqueue(<<Close(doc[d].uri)>>)
    /\ UNCHANGED <<timer, sessionVars, posted, clientVars, serverVars>>

(* HoverAsync; its caller gives up after five seconds.                      *)
Hover(d) ==
    /\ Happens
    /\ d \in Open /\ rpc # None
    /\ Enqueue(<<Op("hover", d, None)>>)
    /\ UNCHANGED <<doc, active, timer, sessionVars, posted, clientVars, serverVars>>

(* OnApply and ApplySettings, whatever was changed on the page.             *)
Configure(s) ==
    /\ Happens
    /\ options' = s
    /\ missed' = (life = "starting")
    /\ settingsRevision' = settingsRevision + 1
    /\ doc' = AllCleared
    /\ Enqueue(<<[Op("configure", None, None) EXCEPT !.settings = s, !.then = "configured"]>>)
    /\ UNCHANGED <<active, timer, rpc, generation, posted, life, reused, serverVars>>

-----------------------------------------------------------------------------
(* The connection                                                           *)

(* Stop(), but for rpc.                                                     *)
Stopped ==
    /\ generation' = generation + 1
    /\ doc' = [d \in Docs |-> IF d \in Open THEN [AllCleared[d] EXCEPT !.sent = None]
                              ELSE doc[d]]

(* RequestStartAsync and ActivateAsync: a server starts, and is sent the    *)
(* InitializationOptions of that moment.                                    *)
Launch(c) ==
    /\ life = "off"
    /\ c \in Conns /\ \A b \in Conns : server[b].init # None <=> b < c
    /\ server' = [server EXCEPT ![c].alive = TRUE, ![c].init = options]
    /\ life' = "starting"
    /\ missed' = FALSE
    /\ UNCHANGED <<doc, active, timer, sessionVars, queue, posted, options, news, reused, events>>

Newest == CHOOSE c \in Conns : server[c].init # None
                                /\ \A b \in Conns : server[b].init # None => b <= c

(* OnServerInitializedAsync: Start stops the old session first.             *)
Start ==
    /\ life = "starting"
    /\ Stopped
    /\ rpc' = Newest
    /\ \E ops \in SetToSeqs({[Refresh(d) EXCEPT !.conn = Newest,
                                                 !.epoch = generation + 1] : d \in Open}) :
         queue' = queue \o ops
    /\ life' = "up"
    /\ UNCHANGED <<active, timer, settingsRevision, posted, options, serverVars, history, events>>

(* The process or its pipe dies: Disconnected is raised once it is attached.*)
Die ==
    /\ Happens
    /\ life \in {"starting", "up"}
    /\ server' = [server EXCEPT ![Newest] = [NewServer EXCEPT !.init = server[Newest].init]]
    /\ life' = "off"
    /\ IF life = "up" THEN Post(Task("disconnected", None, generation)) ELSE UNCHANGED posted
    /\ UNCHANGED <<doc, active, timer, sessionVars, queue, options, news, history>>

(* RequestStopAsync stops the session, then asks the server to shut down.   *)
RequestStop ==
    /\ Happens
    /\ life = "up"
    /\ Stopped
    /\ rpc' = None
    /\ life' = "stopping"
    /\ UNCHANGED <<active, timer, settingsRevision, queue, posted, options, serverVars, history>>

Exit ==
    /\ life = "stopping"
    /\ server' = [server EXCEPT ![Newest] = [NewServer EXCEPT !.init = server[Newest].init]]
    /\ life' = "off"
    /\ UNCHANGED <<doc, active, timer, sessionVars, queue, posted, options, news, history, events>>

-----------------------------------------------------------------------------
(* The server (external)                                                    *)

InForce(r) == IF r.configured # None THEN r.configured ELSE r.init

Said(c, r, u) == [kind |-> "published", uri |-> u, text |-> r.docs[u].text,
                  version |-> r.docs[u].version, settings |-> InForce(r), conn |-> c]

(* What c has become makes it publish the documents of us.                  *)
Becomes(c, r, us) ==
    /\ server' = [server EXCEPT ![c] = r]
    /\ \E said \in SetToSeqs({Said(c, r, u) : u \in us}) :
         news' = [news EXCEPT ![c] = @ \o said]

(* It takes in what the session sends, in that order.                       *)
Opened(c, u, t, v) ==
    Becomes(c, [server[c] EXCEPT !.docs[u] = [text |-> t, version |-> v]], {u})
Changed(c, u, t, v) ==
    IF server[c].docs[u] = None THEN UNCHANGED serverVars ELSE Opened(c, u, t, v)
Closed(c, u) == Becomes(c, [server[c] EXCEPT !.docs[u] = None], {})
Configured(c, s) ==
    Becomes(c, [server[c] EXCEPT !.configured = s],
            {u \in Uris : server[c].docs[u] # None /\ server[c].configured # s})

(* What it answers a request with, now or later: the queue sends it nothing *)
(* else meanwhile.                                                          *)
Answer(c, u) ==
    IF server[c].docs[u] = None THEN None
    ELSE [Said(c, server[c], u) EXCEPT !.kind = "functions"]

-----------------------------------------------------------------------------
(* ReceiveSummaryAsync and ReceiveDiagnosticsAsync                          *)

(* Mutant of Accepts: the connection is not compared.                       *)
AcceptsAny(m, d) == doc[d].uri = m.uri /\ doc[d].sent = doc[d].text

Accepts(m, d) == m.conn = rpc /\ doc[d].uri = m.uri /\ doc[d].sent = doc[d].text

Receive(c) ==
    /\ news[c] # <<>>
    /\ news' = [news EXCEPT ![c] = Tail(@)]
    /\ LET m == Head(news[c])
       IN  doc' = [d \in Docs |->
             IF d \notin Open \/ ~Accepts(m, d) THEN doc[d]
             ELSE [doc[d] EXCEPT !.summary = m,
                                 !.diagnostics = IF m.version = doc[d].version THEN m ELSE @]]
    /\ UNCHANGED <<active, timer, sessionVars, queue, posted, clientVars, server, events>>

-----------------------------------------------------------------------------
(* The operation under way                                                  *)

Current == Head(queue)
At(step) == queue # <<>> /\ Current.step = step

Put(op) == queue' = <<op>> \o Tail(queue)

(* The operation ends and its caller goes on; a failed one is only logged.  *)
Done ==
    /\ queue' = Tail(queue)
    /\ IF Current.then = None THEN UNCHANGED posted
       ELSE Post(Task(Current.then, Current.doc, None))
Fails == queue' = Tail(queue) /\ UNCHANGED posted

Stale == Current.epoch # generation \/ Current.conn # rpc

(* Schedule asks for the active document's functions unless it has them;    *)
(* a hover is always asked for.                                             *)
AskNext ==
    LET op == Current
        d == op.doc
    IN  IF op.kind = "refresh" /\ (d # Active \/ doc[d].functions # None) THEN Done
        ELSE IF ~server[op.conn].alive THEN Fails
        ELSE /\ Put([op EXCEPT !.step = "asked", !.snapshot = doc[d].text,
                               !.sentUri = doc[d].uri, !.askEpoch = generation,
                               !.askRevision = settingsRevision,
                               !.answer = Answer(op.conn, doc[d].uri)])
             /\ UNCHANGED posted

(* SynchronizeAsync up to its await.                                        *)
Synchronize ==
    LET op == Current
        d == op.doc
    IN  IF doc[d].sent = doc[d].text
        THEN AskNext /\ UNCHANGED <<doc, serverVars>>
        ELSE /\ doc' = [doc EXCEPT ![d].version = @ + 1]
             /\ IF ~server[op.conn].alive THEN UNCHANGED serverVars
                ELSE IF doc[d].sent = None
                THEN Opened(op.conn, doc[d].uri, doc[d].text, doc[d].version + 1)
                ELSE Changed(op.conn, doc[d].uri, doc[d].text, doc[d].version + 1)
             /\ Put([op EXCEPT !.step = "synchronizing", !.snapshot = doc[d].text,
                               !.sentUri = doc[d].uri, !.askEpoch = generation])
             /\ UNCHANGED posted

(* Its turn has come: EnqueueAsync, and the operation up to its first await.*)
Begin ==
    LET op == Current
    IN  /\ At("queued")
        /\ CASE Stale -> Done /\ UNCHANGED <<doc, serverVars>>
             [] ~Stale /\ op.kind = "refresh" ->
                  IF op.doc \in Open /\ Language(op.doc) THEN Synchronize
                  ELSE Done /\ UNCHANGED <<doc, serverVars>>
             [] ~Stale /\ op.kind = "hover" ->
                  \/ Synchronize
                  \/ Fails /\ UNCHANGED <<doc, serverVars>>
             [] ~Stale /\ op.kind = "close" ->
                  /\ IF server[op.conn].alive THEN Closed(op.conn, op.uri) ELSE UNCHANGED serverVars
                  /\ Put([op EXCEPT !.step = "notifying"])
                  /\ UNCHANGED <<doc, posted>>
             [] ~Stale /\ op.kind = "configure" ->
                  /\ IF server[op.conn].alive THEN Configured(op.conn, op.settings)
                     ELSE UNCHANGED serverVars
                  /\ Put([op EXCEPT !.step = "notifying"])
                  /\ UNCHANGED <<doc, posted>>
        /\ UNCHANGED <<active, timer, sessionVars, clientVars, events>>

(* didClose or didChangeConfiguration is written, or its connection is gone.*)
Notified ==
    /\ At("notifying")
    /\ Done \/ (~server[Current.conn].alive /\ Fails)
    /\ UNCHANGED <<doc, active, timer, sessionVars, clientVars, serverVars, events>>

(* Mutant of MarkSent: whatever happened meanwhile.                         *)
MarkSentAnyway(op) == [doc EXCEPT ![op.doc].sent = op.snapshot]
MarkSent(op) ==
    IF op.askEpoch = generation /\ doc[op.doc].uri = op.sentUri
    THEN [doc EXCEPT ![op.doc].sent = op.snapshot] ELSE doc

(* The rest of SynchronizeAsync, and what follows it.                       *)
Synchronized ==
    /\ At("synchronizing")
    /\ \/ doc' = MarkSent(Current) /\ AskNext
       \/ (~server[Current.conn].alive /\ Fails) /\ UNCHANGED doc
    /\ UNCHANGED <<active, timer, sessionVars, clientVars, serverVars, events>>

Fresh(op) ==
    /\ op.askEpoch = generation /\ op.askRevision = settingsRevision
    /\ op.doc \in Open /\ doc[op.doc].uri = op.sentUri /\ doc[op.doc].text = op.snapshot

Answered ==
    /\ At("asked")
    /\ doc' = IF Current.kind = "refresh" /\ Fresh(Current)
              THEN [doc EXCEPT ![Current.doc].functions = Current.answer] ELSE doc
    /\ Done
    /\ UNCHANGED <<active, timer, sessionVars, clientVars, serverVars, events>>

(* Mutant of GiveUp: the request has no timeout.                            *)
GiveUpOnHovers ==
    /\ At("asked")
    /\ Current.kind = "hover" \/ ~server[Current.conn].alive
    /\ Fails
    /\ UNCHANGED <<doc, active, timer, sessionVars, clientVars, serverVars, events>>

(* Ten seconds are over, five for a hover, or the connection is gone.       *)
GiveUp ==
    /\ At("asked")
    /\ Fails
    /\ UNCHANGED <<doc, active, timer, sessionVars, clientVars, serverVars, events>>

-----------------------------------------------------------------------------
(* Continuations on the UI thread                                           *)

(* Mutant of Invalidated: the functions in hand are kept.                   *)
NotInvalidated == doc
Invalidated ==
    [d \in Docs |-> IF d \in Open THEN [doc[d] EXCEPT !.functions = None] ELSE doc[d]]

Continue(k) ==
    CASE k.kind = "changed" /\ k.doc \in Open ->
           /\ doc' = [doc EXCEPT ![k.doc] = Cleared(@)]
           /\ timer' = timer \cup {k.doc}
           /\ UNCHANGED <<rpc, generation, queue>>
      [] k.kind = "renamed" -> Enqueue(<<Refresh(k.doc)>>) /\ UNCHANGED <<doc, timer, rpc, generation>>
      [] k.kind = "configured" ->
           /\ doc' = Invalidated
           /\ IF Active # None THEN Enqueue(<<Refresh(Active)>>) ELSE UNCHANGED queue
           /\ UNCHANGED <<timer, rpc, generation>>
      [] k.kind = "disconnected" /\ k.epoch = generation ->
           Stopped /\ rpc' = None /\ UNCHANGED <<timer, queue>>
      [] OTHER -> UNCHANGED <<doc, timer, rpc, generation, queue>>

RunPosted(i) ==
    /\ Continue(posted[i])
    /\ posted' = RemoveAt(posted, i)
    /\ UNCHANGED <<active, settingsRevision, clientVars, serverVars, events>>

(* 250 ms after the last change of the buffer.                              *)
Debounced(d) ==
    /\ d \in timer
    /\ timer' = timer \ {d}
    /\ Enqueue(<<Refresh(d)>>)
    /\ UNCHANGED <<doc, active, sessionVars, posted, clientVars, serverVars, events>>

-----------------------------------------------------------------------------

UiThread ==
    \/ Begin \/ Notified \/ Synchronized \/ GiveUp
    \/ \E i \in DOMAIN posted : RunPosted(i)
    \/ \E d \in Docs : Debounced(d)
    \/ \E c \in Conns : Receive(c)
Editor ==
    \/ \E d \in Docs :
         \/ Activate(d) \/ Edit(d) \/ CloseView(d) \/ Hover(d)
         \/ \E u \in Uris : Rename(d, u) \/ \E f \in BOOLEAN : Register(d, u, f)
    \/ Activate(None)
    \/ \E s \in Settings : Configure(s)
Lifecycle == Start \/ Die \/ RequestStop \/ Exit \/ \E c \in Conns : Launch(c)

Next == UiThread \/ Answered \/ Editor \/ Lifecycle

Spec == Init /\ [][Next]_vars

-----------------------------------------------------------------------------

(* Nothing under way: the editor may do something, but nothing is left to do.*)
AtRest ==
    /\ queue = <<>> /\ posted = <<>> /\ timer = {}
    /\ \A c \in Conns : news[c] = <<>>
Settled == AtRest /\ life = "up" /\ rpc # None

(* At rest, the server scores with the options of now, holds no document    *)
(* under a name none has, and every open one that is analysed with the text *)
(* the editor has: whatever was opened, edited, renamed, closed or          *)
(* configured, while whichever requests were under way and across restarts. *)
(* Two orders are excepted, as the code does not keep it in them: options   *)
(* changed while the server initialized (ApplySettings finds no connection  *)
(* and Start does not look again) reach it only with the next change or the *)
(* next server; and once a name was given to a document while a didClose of *)
(* it was queued, that didClose may take away what the document's refresh   *)
(* opened.  Nothing is said of documents under a name that is not analysed: *)
(* HoverAsync looks at no language and may open one.                        *)
ServerKnowsEditor ==
    Settled =>
        /\ ~missed => InForce(server[rpc]) = options
        /\ ~reused => \A u \in Uris :
             LET known == server[rpc].docs[u]
             IN  /\ ByUri(u) = {} => known = None
                 /\ u \in Analysed =>
                      \A d \in ByUri(u) : known # None /\ known.text = doc[d].text

(* "A connection generation prevents old responses crossing a restart": what*)
(* a document shows came from the present connection, if there is one, and  *)
(* is about the name it has now.                                            *)
NothingCrossesRestart ==
    \A d \in Open : \A health \in {doc[d].summary, doc[d].functions, doc[d].diagnostics} :
        health # None => health.uri = doc[d].uri /\ (rpc # None => health.conn = rpc)

(* At rest, the file's summary and diagnostics, if any, are those of its    *)
(* text, and they and the functions are scored with the options of now;     *)
(* with the two exceptions of ServerKnowsEditor: options missed by the      *)
(* server, for what it scores, and a name reused too early, for the text of *)
(* what is published under it (and, with it, its score).                    *)
ShownIsCurrent ==
    Settled => \A d \in Open :
        /\ ~reused => \A health \in {doc[d].summary, doc[d].diagnostics} :
             health # None => health.text = doc[d].text /\ (~missed => health.settings = options)
        /\ ~missed => (doc[d].functions # None => doc[d].functions.settings = options)

(* The queue is never blocked: as long as anything is left to do, the UI    *)
(* thread can go on without the server's help, behind a request it does not *)
(* answer and after its connection is gone (writes complete or fail, and    *)
(* timers run out).                                                         *)
NeverStuck == AtRest \/ ENABLED UiThread

(* "Late replies are checked against the connection generation,             *)
(* configuration revision, document URI, and text snapshot" (clients/vs/    *)
(* README.md): at rest, the functions shown are those of the text.          *)
FunctionsMatchText ==
    Settled => \A d \in Open : doc[d].functions # None => doc[d].functions.text = doc[d].text

(* "Health thresholds, weights, diagnostic options, and protocol tracing    *)
(* apply to the running server" (clients/vs/README.md): at rest, it scores  *)
(* with the options of now.                                                 *)
SettingsReachServer == Settled => InForce(server[rpc]) = options

=============================================================================
