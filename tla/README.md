# lspf-analysis: specifications, model checking and proofs

`lspf-analysis` measures source code. It parses a file with tree-sitter, computes
metrics for every function and class, scores them into a health report, and serves
the report in two ways: as a command that walks directories (`lspf-analysis metrics`)
and as a language server that four editor clients (VS Code, IntelliJ, Visual Studio,
Zed) talk to. This directory holds TLA+ models of the parts in which order,
concurrency or bookkeeping decide whether the result is right, the TLC runs that
check them, and TLAPS proofs about them. Paths below are relative to the
repository; `PROJECT.json` maps every definition to the lines it models.

## 1. Inventory

| Component | State | Operations | Hard behaviours | What makes it correct |
|---|---|---|---|---|
| **Edit debounce** `crates/lspf-analysis/src/edit_debounce.rs` | `pending`: document → token and deadline of its edit | `schedule`, `cancel`, `finish`, `wait`, `drop` | a task that finishes after its successor took the map entry; a waiter asleep while its edit is replaced, flushed or dropped | a live edit is always reachable by `cancel`; a dead one never stays; nobody sleeps on an edit that nothing will end |
| **Analysis cache** `analysis_cache.rs` | document → `Arc` entry with the snapshot it is for and a `OnceCell` | `report`, `forget` | entry replaced or forgotten while calls hold it; the call that initialises a cell dropped half-way | every call gets the analysis of its own snapshot; no cell is left in the hands of nobody |
| **Language server** `lib.rs` | documents (framework), `open`, `configured`, the two components above, the client's view | seven notification handlers, the task behind each edit, `hover`, `functionHealth` | handlers, edit tasks and requests interleave at every lock and every `await`; the text, the settings or the document may have changed when an analysis returns | the client sees the health of the document and settings it left behind; closed means cleared; requests are answered |
| **Settings** `config.rs`, **texts** `document.rs`, **presentation** `diagnostics.rs` `status.rs` `functions.rs` `hover.rs` `i18n.rs` `theme.rs` | none | pure | boundaries of positions and of settings values | functions of their input |
| **Concurrent runner** `crates/lspf-analysis-core/src/concurrent_files.rs`, with `act_on_file` of `main.rs` | a channel, one producer, n-1 consumers, the shared list of reports | walk, send, receive, process, poison, join | any thread fails or panics at any point; `run` returns early | `Ok` only over a complete list; always returns; no thread outlives it for ever |
| **Function spaces** `crates/lspf-analysis-core/src/spaces.rs` | a stack of nodes, a stack of open spaces, the metrics of each | open, measure, close, merge | closing several levels at once; metrics whose merge depends on the order of computation; roots that open no space | each node counted once in every space around it; every function reported |
| **Health score** `health/*.rs` | none | `file_health`, `blend`, `RepoHealth::of` | non-finite measures, zero thresholds and weights | a score is a number in 0..100 |
| **Recursion** `metrics/cognitive/recursion.rs` | scopes and a call graph per file | bind, resolve, SCC | shadowed and ambiguous names; names bound in the order the walk meets them | exactly the functions that are sure to call themselves |
| **Lines** `metrics/loc.rs` | per space: rows of code, counters of comments, the row the last comment ended on | `init`, `add_code_line`, `add_comment`, `merge`, `blank` | rows shared by code and comments, and by spaces | every row is code, comment or blank, once; the unsigned counter of comments is never taken below zero |
| **Cognitive complexity** `metrics/cognitive.rs`, `checker.rs` | `nesting_map`: node → what the nodes below inherit | `compute` per language | what an else, a function, a closure or a sequence of operators hands on | each structure pays once, for what it is nested in |
| **Working memory** `metrics/working_memory.rs` | statement lists, names bound | collect, scan, split, charge | lists found in another order than they are written | the names held at the busiest statement |
| **C++ conditions** `metrics/abc/cpp.rs` | a counter | `compute` per node | each node guesses whether another has counted it | an operand of a test counts once |
| **C++ class inventories** `cpp/classes.rs` | inventories by qualified name, definitions, aliases | walk, match, fill in | nested, anonymous, local and specialised classes; definitions outside | a class has its own members, each with the complexity of the one definition that is its |
| **Other metrics, languages, grammar tables, dumps** | none | tables, formulas, printing | - | agree with each grammar |
| **IntelliJ client** `model/FunctionHealthSession.kt`, `ui/FunctionHealthPanel.kt`, `lsp/HealthHoverCache.kt`, `lsp/FileHealthService.kt` | selected document, generation, request in flight, whether the server runs; cached hovers | select, republished, reset, server started and stopped, refresh; get, load, store, forget, clear | a late answer, a ten-second timeout, cancellation; a view made after the stop it should have heard of; hovers loaded while their text or settings change | the panel never shows one document's health under another nor goes back; no hover outlives the publication that follows a change of its text or settings |
| **Visual Studio client** `AnalysisSession.cs`, `AnalysisPackage.cs`, `AnalysisLanguageClient.cs`, `ServerProcess.cs` | documents, one operation queue, connection generation, settings revision; whether the user stopped the server, a semaphore, a process or debug connection | register, change, rename, close, start, stop, configure, receive; the start, stop and restart commands | restarts between queueing and sending; answers, summaries and diagnostics that arrive late or early; requests that queue at the semaphore in any order | the server's documents are the editor's; nothing stale is shown; the queue never stays held up; a manual stop holds |
| **VS Code client** `extension.ts`, `tree.ts` | last summary per document, breakdown and its generation | receive, close, refresh, fetch | an answer after the document changed or closed | the rows are the active document's, and up to date in the end |
| **Zed client** `server.rs` | the cached server binary | `ensure_cached` | an interrupted download | never run a partial binary |
| **Release scripts, workflows** | files | packaging | - | outside these models |

How they interact: a client sends `didOpen`, `didChange`, `didSave`, `didClose`
and `didChangeConfiguration`; the server answers with the notifications
`lspfAnalysis/fileHealth` and `publishDiagnostics`, and with responses to `hover` and
`lspfAnalysis/functionHealth`. Inside the server, `did_change` spawns a task per edit, which sleeps
through the quiet period and then calls `publish`; `publish` and both requests go
through `report_for`, which reads the document, and `AnalysisCache::report`, which
runs the core engine (`metrics`, then `file_health`) once per snapshot. The command
line calls the same engine from the threads of the concurrent runner.

## 2. Modules

| Module | Models | State and actions ↔ code |
|---|---|---|
| `EditDebounce` | `edit_debounce.rs` | `pending` is the map; an edit is numbered when it is scheduled, so the order of numbers is the order of deadlines and `elapsed` is the clock; `on` is the edit each waiter sleeps on. Operators `Schedule`, `Cancel`, `Finish`, `Drop`, `WaitReturns`, `WaitSleeps`, `WaitWakes`, used by the next two modules |
| `EditTasks` | `did_change` and the requests that wait, without what they publish | `task[e]` is where the spawned future is: asleep, publishing, finishing. The abstract specification of an edit's life |
| `AnalysisCache` | `analysis_cache.rs` | `heap` holds the entries (an `Arc` is freed when neither the map nor a call holds it), `call[c]` one `report` call. `Begin`, `Complete`, `Join` are `get_or_init`; `Abandon` is a dropped future |
| `LanguageServer` | `lib.rs`, composed of `EditDebounce` and `AnalysisCache` | one `job` per actor: the notification handlers (serial), every edit's task, every request. Each action is the code between two accesses to shared state |
| `PublishedHealth` | what the server promises: diagnostics of the document and settings of the moment they are sent | abstract specification, implemented by `LanguageServer` on one thread |
| `CheckedHealth` | what the server promises on any runtime: what is sent was found to be of the document, then of the settings, and then sent once, with anything in between | abstract specification, implemented by `LanguageServer` on either runtime; `hand[p]` is what a publisher has found or approved and not sent |
| `ConcurrentRunner` | `concurrent_files.rs` and the callback `run_metrics` gives it | `main` is where `run` is, `producer` and `consumer` the threads, `channel` the messages |
| `SpacesWalk` | `metrics` and `finalize` of `spaces.rs`, the Java sums of four metrics, `collect_functions` | `stack`, `open` (`state_stack`), `lastLevel`, `diff`; `Pop`, `FinalizeInner`, `FinalizeLast`, `Visit`, `Return` |
| `Recursion` | `functions()` of `recursion.rs` | `pending` is the stack of the walk, `scopes` what each scope binds, `calls`, `graph`; `Visit` one node, `Finish` resolves and finds the cycles |
| `LineCounts` | `loc.rs` as `metrics()` drives it | `spaces` are the open ones with their counters; one action per node met, one for leaving a space (the merge) |
| `CognitiveWalk` | `cognitive.rs` with the predicates of `checker.rs`, six languages | `path` holds the entries of `nesting_map` above the current node; a node is met, charged and handed on in one step |
| `WorkingMemory` | `compute_space()` of `working_memory.rs` | `Visit` collects the lists, `Split` scans the statements, `Charge` takes the maximum |
| `CppConditions` | the conditions of `abc/cpp.rs` | `Visit` meets one node and counts what it thinks is its to count |
| `ClassInventory` | `compute()` of `cpp/classes.rs` | the walk, then one step per definition matched, then filling in |
| `AnalysisSession` | `AnalysisSession.cs`, and of `AnalysisLanguageClient.cs` what starts, stops and loses a server | `queue` is the chain of operations, the first one under way; `posted` the continuations for the UI thread; `generation`, `settingsRevision` as in the code; `server[c]` is the server behind connection `c`, `news[c]` what it has sent |
| `ServerLifecycle` | the commands of `AnalysisPackage.cs`, `RequestStartAsync`, `RequestStopAsync` and what they start and stop | `request[r]` is a call on its way from the command to its end, `gate` the semaphore with its holder first, `link` the process or debug connection. A restart is two requests, `RestartCommand` and `StartAgain` |
| `HealthPanel` | `FunctionHealthSession.kt`, `FunctionHealthPanel.kt`, `FileHealthService.kt` | `session` is the session's state with its requests (`jobs`); `telling` and `edt` are an announcement on its way from the service to the UI thread |
| `HealthHoverCache` | `HealthHoverCache.kt` with the service that drives it | `entries` is the map; a worker is `Take`, `TakeUp`, `Capture`, `Reply`, `Store`, each one hold of the lock or one side of a load; `sent` are the changes of text or settings the server has yet to hear of, `known` what it has |
| `BreakdownTree` | `tree.ts` and the reports of `extension.ts` | `fetches` are the requests under way, each knowing whether its generation is the current one; `pending` the coalescing timer |
| `EditorClients` | `HealthPanel`, `HealthHoverCache` and `BreakdownTree`, side by side | `client`, chosen by `Init`, is the one that moves |
| `EditTasksProofs`, `AnalysisCacheProofs`, `LanguageServerProofs`, `MetricsCommandProofs`, `EditorClientsProofs`, `SpacesReportProofs`, `AnalysisSessionProofs`, `VisualStudioProofs` | - | theorems |
| `MCLanguageServer`, `MCAnalysisSession`, `MCEditorClients` | - | constants for TLC |
| `MCServerParts` | `EditTasks` and `AnalysisCache`, side by side | `subject`, chosen by `Init`, is the one that moves; their interplay is `LanguageServer`'s |
| `MCVisualStudio` | `AnalysisSession` and `ServerLifecycle`, side by side | likewise |
| `MCMetricsCommand` | the parts of `lspf-analysis metrics`, side by side | `subject`, chosen by `Init`, is the one of the runner, the walk and six metrics that moves |

`LanguageServer` includes `EditDebounce` and `AnalysisCache` through parameterised
instances, so what is proved about those operators' use in `EditTasks` carries over
through the refinement `ImplementsEditTasks`, which is itself proved. The parts in `MCMetricsCommand` and in
`EditorClients` do not interact in the code other than through data handed over whole
(a file's tree, a server's answer), so those modules are unions and not products of
their state spaces. `MCVisualStudio` is one, too: `AnalysisSession` has starts, stops and
crashes of its own at any moment, which is more than `ServerLifecycle` lets happen.

Choices that matter when reading `LanguageServer`:

* **Dispatch.** The framework (`lspf`, not in this repository) applies a
  notification to its documents and awaits the handler before it takes the next one.
  All handlers are therefore one actor; requests and edit tasks run beside it.
* **Threads.** `lspf-analysis serve` runs on tokio's multi-threaded runtime; the
  repository's tests run on one thread. With `MultiThread = TRUE` actors interleave
  at every access to shared state; with `FALSE` an actor inside a poll runs on
  to its next await point (`idle`, `sleep`, `wait`, `analyze`, `done`).
* **Cancellation.** An edit's task is polled through a `select!` that is biased to
  its cancellation: `Polled` guards every step that starts at an await point, and
  `Stop` drops the task's other branch where it stands.
* **Data.** A text, a language or a setting is a model value. Two settings may agree
  on scoring and differ in presentation (`HealthOf`). `Broken` are the documents whose
  analysis yields nothing or panics.

Choices that matter when reading the clients:

* **One thread.** All three clients keep their state on a UI thread or extension host,
  except `HealthHoverCache`, which has a lock. An action is what runs from one
  suspension (or hold of the lock) to the next.
* **The server.** External there, and as weak as each client may rely on: it is told of documents in
  order and publishes every change; what it answers is what it knows when it answers; answers come
  late, and in the views perhaps never; it dies at any moment.
* **Texts.** A text is a number that grows with every change, so that "stale" can be
  said. Only in `HealthHoverCache`, where an undo brings an old modification stamp
  back, does a text return.
* **Visual Studio's commands.** A request is taken from the command to the semaphore in one step and from
  there to its next `await`. What Visual Studio does between `StartAsync` and `ActivateAsync` is external.
  `StopDuringRestart` allows a stop command while a restart is under way; with it a manual stop
  does not hold (finding 6), so the passing run and the theorem exclude that one pair. `ManualStopHolds` says nothing of
  the transport: an editor opened while a debug start and a restart are both queued keeps the one from before.
* **Visual Studio's two windows.** The model has every order of settings, renames and closings the code has,
  two of which it gets wrong. Settings that change while a server initializes do not reach it: they are
  not queued, for want of a connection, and starting takes no notice of the revision (finding 5).
  And a document that is given a name whose `didClose` is still queued may be opened under it first and then
  closed by that. Two history variables mark them, `missed` until the next change of
  settings or the next server, and `reused` for good; `ServerKnowsEditor` and `ShownIsCurrent` name them as their exceptions.
* **IntelliJ's hover window.** The server hears of edits and settings one by one, some time after they are sent, and
  takes up hovers beside them, so one asked for under new settings may still be answered under the
  old (`LspfAnalysisClient.kt:73-76` says that a narrow window remains). `HoverIsFresh` says what is left: after `clear()` a kept
  hover was asked for since the settings were sent, and the publication that follows the last change leaves none but current ones.

Choices that matter when reading the algorithms: a syntax tree is a parent function over numbers in
source order, or a sequence of nodes with levels; its shape and the meaning of every node
("a branch", "a scope", "binds a name") are chosen by `Init` or step by step, and the
computation is deterministic after that. What node of which grammar has which meaning is
a table in the code and is taken as given. The references a result is compared with (`Recursive`,
`CodeRows`, `Busiest`, `Complexity`...) are stated on the whole tree and never follow the
code's walk.

Where the code deliberately or otherwise counts something else than a reader would, the
property is restricted to the files for which it should agree, by a definition named `Ordinary`:

* `LineCounts`: literals of several rows (their inner rows count for nothing), two
  comments on a row, code after a comment that began beside code on a row above, and a function that begins on a row
  after a comment; in these blank lines come out otherwise, even negative. That code is counted once and that the unsigned counter
  holds is stated for all files.
* `CognitiveWalk`: Python's `except`, which adds the nesting that the last branch left behind;
  sequences that mix boolean operators (`boolean_op` is only updated for the first); expressions in Rust and Java whose state is
  not reset in between; an else-if in Java and JavaScript, and an unbraced `if` below an `if` in JavaScript. Of these, the else-if is at odds with a comment:
  `is_else_if` (`checker.rs:220`, for TSX 339) compares the parent with `IfStatement`, but in these grammars the `if` hangs below an `ElseClause`, so it is
  charged as a nested branch besides its `else`, whose charge is for the "else-if also" (`cognitive.rs:442`). In Java `is_else_if` is constantly false.
* `WorkingMemory`: a bare block as a statement is charged for everything directly in it; a
  Java lambda's parameters count as bound from the first statement; the names of a C++ initialiser as
  bound; a for-each variable as not bound in Rust, JavaScript and TypeScript.
* `CppConditions`: an arithmetic sign in front of a boolean operator has it counted twice. And the operands of a test that is the
  condition of a `switch`, a `static_assert` or an `#if` are counted nowhere, against the first sentence of `abc/cpp.rs`:
  `enclosing_boolean_test` takes the condition of any parent for counted, `compute` counts those of `if`, the loops and `?:`
  (`Condition` and `Charged`). The property states this instead of leaving such statements out.
* `ClassInventory` leaves out a generic definition with concrete arguments among its inputs; definitions
  outside an unnamed namespace stay unresolved in the code and in the reference.

## 3. Runs

| Run | Bounds | What it shows |
|---|---|---|
| `server_parts` | debounce: 2 documents, 1 waiter, 3 edits; cache: 1 document, 3 callers, 2 snapshots, 4 entries | Types; live edits and map entries are the same thing (`MapHoldsLiveEdits`); sleepers are woken; no publication after a cancellation; tasks, map entries and waiters end. Each call of the cache is answered with its own snapshot's analysis; entries are stable; calls return even when their initialiser is dropped |
| `server_threads` | 1 document, 2 languages (one unsupported), 2 settings that score differently, 1 edit, 1 request, versions up to 2, multi-threaded | Answers fit their settings and handlers never sit out a quiet period on any runtime; a closed document leaves neither diagnostics nor a cache entry unless its close overtook an actor that had it in hand; the server implements `EditTasks` |
| `server_one_thread` | 2 documents (one cannot be analysed), 2 settings, 1 edit, one thread | The server implements `PublishedHealth`; when the client falls silent its view settles; handlers and tasks end |
| `metrics_command` | 3 consumers and 3 files; trees of 6 nodes for the spaces; 5 nodes with 2 names for the calls; rows 0..2 and 5 tokens for the lines; 6 languages and 4 nodes for cognitive complexity; 6 nodes with 2 names for working memory; 7 nodes of a C++ statement; C++ files of 5 nodes with 2 definitions and 2 signatures | Safety and termination of the runner under failure of every thread at every point; the open spaces are those around the current node, the metrics add up, the report is complete and in source order; and each metric equals its reference |
| `visual_studio` | 3 events of the user or crashes, 2 documents made (1 open at a time), 3 names, one of them not analysed, 2 settings, 2 connections; commands: 4 requests | At rest the server has the editor's documents and settings; nothing crosses a restart; what is shown is of the settings and, for summary and diagnostics, the text of now, with the two exceptions of section 2; the queue always moves. Once no command is under way and the last was a stop, there is no server |
| `editor_clients` | view: 2 documents, one the server has no report on, 5 events; hovers: 1 document, 2 positions, 2 texts, 2 regimes, 3 entries, 2 events; tree: 2 documents, 2 requests at a time, 4 events | Each view shows only what belongs to its document and never goes back to older rows; no hover outlives the publication after a change; each ends up with what the server has |
| `closed_stays_clear` | multi-threaded | **violated**, finding 1 |
| `requests_respect_quiet` | multi-threaded | **violated**, finding 2 |
| `spaces_error_root` | every tree of 4 nodes below an ERROR root | **violated**, finding 3 |
| `functions_match_text` | 1 name, 1 setting | **violated**, finding 4 |
| `settings_reach_server` | 1 name, 2 settings | **violated**, finding 5 |
| `manual_stop` | 3 requests | **violated**, finding 6 |

Why the bounds are enough. Three edits over two documents give one edit superseded by
a second and flushed, with a third in another document in between. Three callers are
an initialiser, a call that joins it and one that comes after a replacement; four
entries are one per caller and one in the map, so the pool never runs out. One
consumer that panics, one that is busy and one that waits for a message are the three
cases the pills have to serve. Six nodes make two nested spaces left at once, with
siblings before and after, and a method below a class with a local class; five nodes
make two functions that call each other and a name shadowed in between; five tokens a function between two comments on rows it
shares with them; four nodes a function in a branch in a function, or an else-if chain; six a
list in a branch with a statement before and after it; seven a comparison below a negated, parenthesised operand
of an operator beside another; five a class in a class with a method and a definition outside. In `visual_studio` three events are an edit, a crash
and another edit in the middle of what the restart sends, or two renames around one; four requests a start or an editor before a stop, with another start or a restart that is through or still queued beside them.
In the view five events are opening a file, an edit, a stop and the two that
come between asking and storing; in the tree four are two documents opened and an edit or a
restart before and after a switch between them. Three hover entries are one
in the map and two that were dropped from it while loading; two events of the hovers are a change and another that
overtakes its publication, an answer or the clearing of the cache. The bounds are guards named
`MaxVersion`, `MaxEdits`, `MaxRequests`, `MaxEvents`, `MaxFetches`, `MaxOpen`; a worker of the hover cache
starts only while one of `Ids` is free.

`server_one_thread` has no request in it: that a request is answered is shown in its two parts, the wait for the edit
(`WaitersReturn`) and the call of the cache (`CallsReturn`), each with more actors.

`CHECK_DEADLOCK FALSE` is set in all runs: the parts beside the one that moves stand still, a client may fall silent, a server may be
shut down, users stop at their bound, and the runner and the algorithms end; that they end where they should is what
the liveness properties (`RunnerTerminates` for the runner) and the properties of final states say. `server_threads` is checked on a
view without `status`, which none of its properties reads and no action tests, and of `diags` only with the documents
that have any, which is all that `ClosedUnlessOvertaken` reads.

Fairness. Tokio polls a woken task, and time passes: weak fairness of the tasks, the waiters and
`Tick` in `EditTasks`. On one thread a task can move only between the polls of
others, so `LanguageServer` has strong fairness per actor. The permit of a `OnceCell`
is handed out in order, so a call that waits for it is not passed over for ever: strong
fairness of `Begin` in `AnalysisCache`. The runner's threads are scheduled by the
operating system: weak fairness of each. In IntelliJ's view, dispatchers run what is
ready, the quiet second and the ten seconds of a request run out, and the platform tells
of the stops it has seen; the server may take for ever to start or to answer. Hovers have no time-out, so
there the server is assumed to hear what it is sent, to answer and to publish. In VS Code the extension host runs
what is due and the server sends and answers; failures and restarts are bounded
events. The Visual Studio run is about safety only: `NeverStuck` says that the
operation under way always has a step to take. Nothing is assumed of users: they may
stop at any moment, and `Settles` and `ClientsSettle` only speak of what follows when they do.

## 4. Findings

1. **A closed document can keep its diagnostics** (`closed_stays_clear`). `publish`
   checks that the document is still open and unchanged, and then sends, without a lock in between. On
   the multi-threaded runtime the whole of `did_close` fits between the two; the
   diagnostics it cleared are then sent again, and nothing removes them. `ClosedUnlessOvertaken` says that nothing else leaves any: the close
   must overtake an actor that had found the document open. On one thread there is none, so there the diagnostics stay cleared.
2. **A request can read a text inside its quiet period** (`requests_respect_quiet`).
   `report_for` returns from `wait` and then reads the document; a `didChange` in
   between gives the request a text whose quiet period has just begun, although the
   comment in `report_for` says requests must not bypass it.
3. **A file with an ERROR root loses its first function** (`spaces_error_root`).
   When tree-sitter cannot parse a file as a whole, the root of the tree is an ERROR
   node, for which `metrics` opens no space. The first function or class takes the
   place of the file: `finalize` never closes it, later ones become its subspaces,
   and `collect_functions` lists only what is below it. `FileHealth` promises every
   function of the file.
4. **Visual Studio takes an old text's breakdown for the new one's** (`functions_match_text`).
   `Schedule` takes the snapshot that a late answer is compared with after it has awaited the write
   of the text before. An edit in that moment makes it the new text's: the server
   answers for the old one, the comparison passes, and the refresh that follows the edit finds
   functions in hand and asks for nothing. `clients/vs/README.md` promises that late replies are checked
   against the text snapshot.
5. **In Visual Studio settings can miss the running server** (`settings_reach_server`). `Configure` pushes new
   options through the queue, and without a connection nothing is queued. A server that
   is initializing was sent the options of its launch, and when it is done `Start`
   schedules the documents but sends no options: it scores with the old ones until they are changed again or
   it is restarted. `clients/vs/README.md` says that settings apply to the running server. Sending them
   from `Start` when the revision has moved on would do.
6. **In Visual Studio a restart overtakes a manual stop** (`manual_stop`). `Restart` stops and starts in two
   requests and lets go of the semaphore in between. A Stop asked for while the first is under way queues up
   before the second, finds no server, and the second then starts one, which stays although
   `manuallyStopped` is set; `clients/vs/README.md` says that a manual stop keeps analysis stopped. Looking at
   `manuallyStopped` again before the second request, or holding the semaphore for both, would do.

## 5. Proofs

All proofs hold for every value of the constants under the modules' named assumptions, which say
only that the null values are none of the values they stand beside, that bounds are
natural numbers, that documents and connections of a session are numbered by finite sets, that there is a text
and a regime for the hovers to be of, and that the settings the server falls back on are settings. Where a theorem assumes
more, its statement says so and the paragraph on it says why. Every inductive invariant was checked
with TLC on the instance of a run before it was proved.

* **`EditTasksProofs`.** `TypeCorrect`, `MapIsLiveEdits` (a live edit is its document's
  map entry, and an entry is alive), `SleepersAreWoken`, `QuietIsKept`,
  `CancelledNeverPublish`. None of the properties is inductive alone: `finish` is safe only
  because an entry is removed by the edit it belongs to, and that rests on `Bookkeeping`
  (edits not yet issued have no task, no entry and no sleepers; a task's document is set while it lives). The
  inductive invariant is `TypeOK`, `Bookkeeping` and the invariants together, with one
  lemma per kind of step. `MapHoldsLiveEdits` is two of them, `LiveEditIsPending` and `PendingIsLive`.
* **`AnalysisCacheProofs`.** `CacheTypeCorrect`, `AnswersFit`, `NoOrphanedCell`,
  `EntriesStayPut`. Strengthening: what a call asked is what its entry is for
  (`Matched`), and a filled cell holds the analysis of its entry's snapshot (`Filled`).
  These survive the freeing of entries because only unheld ones are freed.
* **`LanguageServerProofs`.** `RenderedAsCaptured`, `HandlersRunThrough` and the refinement `TasksRefined`, on either
  runtime. The invariant says of one actor at a time what its place in the code tells (`JobOk`: while it looks
  up, analyses or publishes, its document and settings are set, and its call asked with those settings), and that the
  document a handler waits for has no edit pending (`QuietHandler`), as only the handler itself could schedule one. The
  cache's invariant is taken over from `AnalysisCacheProofs` through an instance: the server's steps are
  steps of the cache or leave it alone (`CallsStep`). For the refinement each action is shown to be, for the
  edits, one of `EditTasks` or none: a flush, a schedule, a stage of the task, of the wait, or nothing.
  `CloseIsFinal` and the refinement `HealthRefined` hold on either runtime, too. `overtaken` is a history
  variable: the documents an actor had in hand, between finding them open and acting on that (`InHand`), when they were last closed.
  Of a document that is gone and not among them nobody ever gets hold again, as every way into `InHand` first finds it open, so once `did_close` has
  passed `forget` and its last notification nothing of it is left (`LeftAlone`; `CloserKnows` for the handler on its way there).
  Finding 1 is the exception. For `HealthRefined` the two comparisons of `publish` are two steps and sending is a
  third, and each is one of `CheckedHealth` or none. That abstract specification was checked
  with TLC, too, on the constants of `server_threads` without its view (3.0 million states); it is no run of its
  own because the theorem says it for all of them.
* **`MetricsCommandProofs`, the runner.** `RunnerTypeCorrect`, `WorkBeforePills`, `OkMeansComplete`, `NoFileLostOrTwice`.
  Strengthening: a file is in the channel, in one consumer's hands or processed, or it was in the
  hands of one that panicked (`Hands`, `NoneLost`); after the producer is joined no file is
  sent (`WalkIsOver`); a consumer that ended took a pill, and pills come last, so the channel has no file left
  (`EndedMeansDrained`); what `run` has joined has ended (`Joined`).
* **`MetricsCommandProofs`, the lines.** `CommentsNeverUnderflow`: what `-= 1` is applied to is never zero, in files of
  any length. Strengthening (`Sound`): as long as the row the last comment ended on is not a row of code, that comment is
  still among those counted; the first code on the row takes it back and makes it one.
* **`MetricsCommandProofs`, the rows.** `RowsAreSortedHolds`, on top of the previous. Strengthening (`RowsInv`): an open space has
  counted the nodes from its first to the one before the next open space begins (`SpacesFit`), has found every row of code among
  them, and in an ordinary file its counter is the number of rows among them that only comments are on (`RowsFit`). The counter
  follows because a comment that code may still join is the one remembered, unless its row is code already or is past
  (`Remembered`): `add_comment` overwrites what was remembered, and `merge` drops it with the inner space. What `Ordinary` excludes
  are the files for which that fails. It is stated by counting comments on a row; the proof uses it node by node (`Tidy`), and
  counts rows as finite sets (`HowManyRows`, `CountedApart`).
* **`MetricsCommandProofs`, the walk.** `OpenEnclosesCurrentHolds`, for trees of any size, of which the run has six nodes.
  It assumes what the run does with `RootKinds = {"unit"}`: the root is a space. Below an ERROR root the property fails
  (finding 3). Strengthening (`WalkInv`): the spaces around a node on the stack are the first open ones, as many as
  its level says (`Fits`); levels do not decrease towards the top of the stack (`StackFits`), so closing what is above the level
  of the node taken leaves those of the others; and but for the root nothing on the stack is at level 0, so the round of `finalize`
  that closes nothing (`FinalizeLast`) comes only at the end (`LastStaysOpen`). Paths to the root and lists in
  source order are recursive functions; what they are is proved by the least number for which it would fail
  (`LeastExists`), and that a set has one list in source order (`OneList`) likewise.
* **`MetricsCommandProofs`, the conditions of C++.** `EachConditionOnceHolds`, for statements of any size, with `Ordinary` inside the
  property as in the run (a sign in front of a boolean operator counts it twice), and the operands in the conditions of a `switch` and
  its like as counted nowhere. `compute` asks for
  the unary conditions below a node at the conditions of statements and at the outermost boolean operators (`Heads`).
  `unary_conditions` at x is the number of operands that have x in their test (`Leaves`, `UnaryConditionsCount`), where the test of
  an operand is the unbroken run of parentheses and boolean operators above it. A test has one head at most (`OneHead`): a
  condition is the outermost node of its test, and above an outermost operator there is none but parentheses. So the
  invariant (`ConditionsInv`) holds the count to the comparisons met and the operands below the heads whose
  nodes have been met, and when all have been met every tested operand has its head (`AllReached`).
* **`SpacesReportProofs`.** `ReportIsCompleteHolds`, on top of the walk and for trees of any size: what `file_health` collects
  from the spaces `metrics()` returned is every function and every class of the tree, once, in source order. It assumes
  `RootKinds = {"unit"}`, as the run does: below an ERROR root a function may be returned in place of the file
  (finding 3), and a root that is itself collected is not one of its own subspaces. Strengthening (`ReportInv`): what is still to
  come and hangs below a node already met is on the stack, in reverse source order (`Frontier`), so nodes are met in
  source order; each open space is directly in the one before it, and everything met since it opened is inside it
  (`Chain`), so when `finalize` appends it to its parent's list all of that list lies before it (`SpacesListed`); and at the end
  `finalize` has closed all but the file (`Closing`). The rest is about trees: what hangs below a node comes in one
  piece (`OnePiece`), so the lists of what is below two neighbours can be put together in order (`GatherRight`). `Collected` is a
  recursive function around a fold: the fold is unfolded along the prefixes of the list
  (`GatherUnfolds`), and that the function exists and is the list of what is below is proved by the greatest space it could fail for.
* **`SpacesReportProofs`, the metrics.** `MetricsAddUpHolds`, under the same assumption: what `metrics()` returns for a space
  is the sum, the maximum and the number of what its tree says, over all the spaces inside it, each counted once. A node is
  counted in one space and reaches the others only through `merge`, level by level, so the invariant (`StatsInv`) is an account per
  space. An open one (`OpenAccount`) holds the keywords met directly in it so far, and everything that is inside the
  spaces merged into it so far, which are those directly in it that are closed (`Left`); a closed one
  (`ClosedAccount`) holds all that is within it. `StatsInv` needs `ReportInv`: a closed space is merged once and into the space it is
  directly in because the open ones are a chain (`Chain`), and when it closes no keyword of it is to come because
  nodes are met in source order (`Frontier`, `NothingIsToCome`). Two neighbours have nothing inside in common
  (`InsideIs`), so their sums add up (`TotalJoins`). The sums of the reference are folds over sets, whose order `CHOOSE` picks;
  a sum in source order (`Total`) satisfies
  the same recursion, one chosen element at a time, and nothing else does (`SumRuns`); cardinalities are sums of ones (`CountIsTotal`).
* **`EditorClientsProofs`, the view of IntelliJ.** `ViewFollows`, `RowsOnlyGetNewer`. Strengthening: a request that can
  still store is for the session's own document and was made while the session believed the server to run, and
  failed only without an answer (`SessionOk`); there is none before the view is made nor after it is
  closed (`Quiet`); the last announcement of the connection that is on its way to
  the view says what the service's flag says (`Heard`), which is why a view has to
  subscribe before it reads the flag. For the rows, `Ordered`: there is at most one request at a time, for the
  session's own document, and what it has been answered is at least as new as the rows in place.
* **`EditorClientsProofs`, hovers.** `HoversAreFresh`. Strengthening (`HoverFits`): what is kept, and what a worker
  brings whose entry is still in the map, was asked for under the settings of now unless the map is about to be cleared, and is of the
  text and settings of now unless the publication that forgets the document is due; a worker's answer half made, likewise. It rests on
  what the server knows being what the client has, but for the changes still on their way to it, the last of which brings it there (`Comes`): a publication is
  received only when none of them is about the document.
* **`EditorClientsProofs`, the rows of VS Code.** `RowsFollowTheEditor`. Strengthening (`Following`): whatever
  changes the active document starts a new generation, so a request of the current one is for the
  document that is still active, and an answer is about the document it was asked for. `ClientsTypeCorrect` has the
  types of all three.
* **`AnalysisSessionProofs`, what is shown.** `SessionTypeCorrect` and `NothingCrosses`: what a document shows is of the
  connection of now. It needs no assumption. The invariant (`SessionInv`) says that what is queued or posted carries the
  connection and generation it was made under, and that both only grow; an answer is kept if its generation is the
  present one, by when its connection can only be the present one too (`OpOk`).
* **`AnalysisSessionProofs`, what the server knows.** `ServerHoldsWhatIsOpen`: at rest the server has the texts and the settings the
  editor has, whatever was opened, edited, renamed, closed, reconfigured, restarted or lost before. That takes an invariant
  of what is under way, in layers each proved from the ones before: no two open documents share a name, and the close of a
  name comes in the queue before all that concerns its next holder and after all that concerns its last (`NamesInv`); a
  server that has been told nothing holds and says nothing (`Blank`); it knows of a document what was last sent, and
  holds nothing that is not open or about to be closed (`KnownInv`); a text it does not know has a task posted, a timer
  running, an operation queued, or is being sent (`WillBeSent`); and the last settings queued are those of now, or with none
  queued the server has them (`SettingsInv`). The layers about names hold as long as none was `reused`, the last as long as
  no settings were `missed`; the theorem assumes nothing, the property has the two exceptions. Of a document whose name is
  not analysed it says only that the server holds none under a name that none has: a hover queued before a
  document is renamed to such a name opens it at the server, as `HoverAsync` does not look at the language.
* **`VisualStudioProofs`, what is shown.** `ShownIsAlwaysCurrent`, without assumptions and with the same two exceptions: at rest, what
  is on screen is of the settings of now, and summaries and diagnostics of the text of now as well.
  Strengthening: of what the server has said and the client has not heard yet, the last about a name is what the server
  knows of it (`NewsIsLatest`); a document shows a summary or diagnostics only of the text it has, and of other settings
  than the server's only while news of it are to come (`SummariesFit`); functions, shown or awaited, are of the options of
  now or will be asked for again (`AskedFit`, `FunctionsFit`). They may be of the text before, which is finding 4.
* **`VisualStudioProofs`, the commands.** `ManualStop`, under the assumption `~StopDuringRestart`. Strengthening
  (`StopIsLast`): while the last command was a stop, no restart is under way, every start still in the queue has a stop
  behind it, and so has a server that runs. That an editor's start can be in the queue at all is why
  the guard on `manuallyStopped` alone does not do.

The types of `EditTasks` are also checked by TLC; those of the other proved modules are
proved only (a run's other properties would fail to evaluate on a state of the wrong type).

Left to TLC: liveness under fairness; `NeverStuck`, which says that the operation under way has a step to take, and so is about
`ENABLED`; and four of the algorithms, those of recursion, cognitive complexity, working memory and C++ classes, whose references are
recursive functions over the tree, sums over sets of nodes, or both.

## 6. Not modelled

* **Parsing and tables**: grammar tables, the enumerations generated from them and their generator, the roles
  of nodes per language, macros of C++ (`normalize_format_macros`), how signatures and declarators are read. Metrics that only look a node up
  in a table: exits, arguments, attributes and methods per language, Halstead operators beyond Java's sum, the assignments
  and branches of ABC and its conditions outside C++ (Java's looks at the children of a `for` by index).
* **Formulas over real numbers**: the health score and its averages, MI, Halstead's derived measures. TLC computes with
  integers; the repository's unit tests go through them one by one.
* **Positions and texts**: UTF-16 columns, the range of a declaration, the whole word under a hover, and which of two
  functions on one row a hover means; string arithmetic without state.
* **Presentation**: diagnostics, summaries, hovers, dumps, output formats, wording and themes. When they are sent and withdrawn
  is in `LanguageServer`.
* **The transport and the framework's dispatch**: external, assumed as in section 2.
* **Clients**: the user interface, settings pages, the search for a server binary and the bytes of the debug transports; the end of
  Visual Studio itself (`QueryClose`); VS Code's activation, commands and hover middleware. The Zed client starts the server and caches
  its download. Release and build scripts are packaging.
* Panics of handlers, memory exhaustion and a client that breaks the protocol (changing a document that is not open).

Most lines of the implementation are of the first and the fourth kind, or tests inside the source files; the models cover the code in which
several steps have to agree.

## 7. Plan

Done: the server, the runner, the walk over the tree, the metrics with an algorithm of their own, and
the state of the three clients that keep any.

Next, in this order:

1. Proofs, in the manner of the walk's (least counterexamples over the tree): what each scope binds when the walk of `Recursion` is
   over (one half of `OnlySureRecursion`), and the members and methods of a class before their definitions are matched
   (one half of `MembersAreOwn`).
2. `SettingsReachServer`, `ServerKnowsEditor` without its exceptions and `ManualStop` without its assumption, once the code handles those orders.
3. ABC for Java, whose conditions are found by the indexes of children, in the manner of `CppConditions`.
