---------------------------- MODULE BreakdownTree ----------------------------
(***************************************************************************)
(* The VS Code client: the Code Health view (tree.ts) and the summaries    *)
(* behind the status bar (extension.ts).                                   *)
(*                                                                         *)
(* All of it runs on the extension host's one thread: an action is an      *)
(* event handler, a timer, or what runs from one await to the next.  A     *)
(* fetch knows whether its generation is still the current one.            *)
(*                                                                         *)
(* External: the editor, which asks a visible view for its rows after      *)
(* every change it is told of, and now and then unasked; and the server,   *)
(* whose notifications arrive in order, and whose answers in any order.    *)
(***************************************************************************)
EXTENDS Naturals, FiniteSets, Sequences

CONSTANTS Uris, NoUri, None,
          MaxEvents,  \* bound: what the user does, restarts, failed requests
          MaxFetches  \* bound: requests of the view under way at a time

VARIABLES open, active,  \* documents, and the one of the active editor
          lang,          \* whether a document's language is one of LANGUAGES
          text,          \* what the server has analysed of each document
          unsent, inbox, \* summaries to be sent, and sent
          reports,       \* extension.ts
          loaded, pending, fetches,  \* FunctionHealthProvider
          asks,          \* the editor has yet to ask for the rows
          failed,        \* the last answer in this generation was an error
          events

editorVars == <<open, active, lang>>
serverVars == <<text, unsent, inbox>>
treeVars == <<loaded, pending, fetches, asks, failed>>
vars == <<editorVars, serverVars, reports, treeVars, events>>

Rows == [uri : Uris, text : Nat]
Fetches == [uri : Uris, current : BOOLEAN, step : {"asked", "answered"},
            got : Rows \cup {None}, failed : BOOLEAN]

TypeOK ==
    /\ open \subseteq Uris /\ active \in open \cup {NoUri}
    /\ lang \in [Uris -> BOOLEAN]
    /\ text \in [Uris -> Nat]
    /\ unsent \subseteq Uris
    /\ inbox \in Seq(Rows)
    /\ reports \in [Uris -> Nat \cup {None}]
    /\ loaded \in Rows \cup {None}
    /\ pending \in BOOLEAN /\ asks \in BOOLEAN /\ failed \in BOOLEAN
    /\ fetches \subseteq Fetches
    /\ events \in Nat

Init ==
    /\ open = {} /\ active = NoUri
    /\ lang = [u \in Uris |-> TRUE]
    /\ text = [u \in Uris |-> 1]
    /\ unsent = {} /\ inbox = <<>>
    /\ reports = [u \in Uris |-> None]
    /\ loaded = None /\ pending = FALSE /\ fetches = {}
    /\ asks = TRUE /\ failed = FALSE
    /\ events = 0

Happens == events < MaxEvents /\ events' = events + 1

(* analyzableUri(), of the editor as it is                                  *)
Analyzable(u, l) == IF u # NoUri /\ l[u] THEN u ELSE NoUri
ActiveUri == Analyzable(active, lang)

-----------------------------------------------------------------------------
(* tree.ts *)

(* invalidate(): a new generation, and the editor is told.                  *)
Invalidate ==
    /\ loaded' = None
    /\ fetches' = {[f EXCEPT !.current = FALSE] : f \in fetches}
    /\ asks' = TRUE
    /\ failed' = FALSE

Refresh == pending' = FALSE /\ Invalidate

(* onFileHealth() and scheduleRefresh(): a timer that runs is left to run.  *)
OnFileHealth(u) == pending' = (pending \/ u = ActiveUri)

Timer ==
    /\ pending
    /\ pending' = FALSE
    /\ Invalidate
    /\ UNCHANGED <<editorVars, serverVars, reports, events>>

(* getChildren(), for the roots: nothing, what is loaded, or a request.     *)
GetChildren ==
    IF ActiveUri = NoUri \/ (loaded # None /\ loaded.uri = ActiveUri)
    THEN UNCHANGED fetches
    ELSE /\ Cardinality(fetches) < MaxFetches
         /\ fetches' = fetches \cup {[uri |-> ActiveUri, current |-> TRUE, step |-> "asked",
                                      got |-> None, failed |-> FALSE]}

Ask ==
    /\ asks
    /\ asks' = FALSE
    /\ GetChildren
    /\ UNCHANGED <<editorVars, serverVars, reports, loaded, pending, failed, events>>

AskUnasked ==
    /\ Happens
    /\ GetChildren
    /\ UNCHANGED <<editorVars, serverVars, reports, loaded, pending, asks, failed>>

(* Mutant of Resume: the generation is not compared.                        *)
ResumeAnyway(f) ==
    /\ f.step = "answered"
    /\ fetches' = fetches \ {f}
    /\ IF f.got # None /\ f.got.uri = f.uri
       THEN loaded' = f.got /\ failed' = FALSE
       ELSE UNCHANGED loaded /\ failed' = (failed \/ (f.current /\ f.failed))
    /\ UNCHANGED <<editorVars, serverVars, reports, pending, asks, events>>

(* After the await: the answer is kept if it is an answer, and the          *)
(* generation is still that of the request.                                 *)
Resume(f) ==
    /\ f.step = "answered"
    /\ fetches' = fetches \ {f}
    /\ IF f.current /\ f.got # None
       THEN loaded' = f.got /\ failed' = FALSE
       ELSE UNCHANGED loaded /\ failed' = (failed \/ (f.current /\ f.failed))
    /\ UNCHANGED <<editorVars, serverVars, reports, pending, asks, events>>

-----------------------------------------------------------------------------
(* The server *)

Analyse(u) ==
    /\ Happens
    /\ u \in open /\ lang[u]
    /\ text' = [text EXCEPT ![u] = @ + 1]
    /\ unsent' = unsent \cup {u}
    /\ UNCHANGED <<editorVars, inbox, reports, treeVars>>

Send(u) ==
    /\ u \in unsent
    /\ unsent' = unsent \ {u}
    /\ inbox' = Append(inbox, [uri |-> u, text |-> text[u]])
    /\ UNCHANGED <<editorVars, text, reports, treeVars, events>>

(* The answer, with what the server knows by then; it knows nothing of a    *)
(* document that is closed.                                                 *)
Answer(f) ==
    /\ f.step = "asked"
    /\ fetches' = (fetches \ {f}) \cup
         {[f EXCEPT !.step = "answered",
                    !.got = IF f.uri \in open /\ lang[f.uri]
                            THEN [uri |-> f.uri, text |-> text[f.uri]] ELSE None]}
    /\ UNCHANGED <<editorVars, serverVars, reports, loaded, pending, asks, failed, events>>

(* fetchFunctionHealth() swallows an error.                                 *)
Fail(f) ==
    /\ Happens
    /\ f.step = "asked"
    /\ fetches' = (fetches \ {f}) \cup {[f EXCEPT !.step = "answered", !.failed = TRUE]}
    /\ UNCHANGED <<editorVars, serverVars, reports, loaded, pending, asks, failed>>

(* The command, or the end of the process: what was asked is lost, and the  *)
(* new server is told of every open document.                               *)
Restart ==
    /\ Happens
    /\ inbox' = <<>>
    /\ unsent' = {u \in open : lang[u]}
    /\ fetches' = {[f EXCEPT !.step = "answered", !.failed = f.failed \/ f.step = "asked"] :
                    f \in fetches}
    /\ UNCHANGED <<editorVars, text, reports, loaded, pending, asks, failed>>

-----------------------------------------------------------------------------
(* extension.ts *)

(* The fileHealth handler.                                                  *)
FileHealth ==
    /\ inbox # <<>>
    /\ inbox' = Tail(inbox)
    /\ reports' = [reports EXCEPT ![Head(inbox).uri] = Head(inbox).text]
    /\ OnFileHealth(Head(inbox).uri)
    /\ UNCHANGED <<editorVars, text, unsent, loaded, fetches, asks, failed, events>>

(* onDidChangeActiveTextEditor, which may be the opening of the document.   *)
Activate(u) ==
    /\ Happens
    /\ u # active
    /\ active' = u
    /\ open' = open \cup ({u} \ {NoUri})
    /\ unsent' = unsent \cup (IF u # NoUri /\ u \notin open /\ lang[u] THEN {u} ELSE {})
    /\ Refresh
    /\ UNCHANGED <<lang, text, inbox, reports>>

(* onDidCloseTextDocument, of a document no longer in the active editor.    *)
CloseDocument(u) ==
    /\ Happens
    /\ u \in open \ {active}
    /\ open' = open \ {u}
    /\ unsent' = unsent \ {u}
    /\ reports' = [reports EXCEPT ![u] = None]
    /\ Refresh
    /\ UNCHANGED <<active, lang, text, inbox>>

(* Another language for an open document: it closes and opens again.        *)
ChangeLanguage(u) ==
    /\ Happens
    /\ u \in open
    /\ lang' = [lang EXCEPT ![u] = ~@]
    /\ unsent' = IF lang[u] THEN unsent \ {u} ELSE unsent \cup {u}
    /\ reports' = [reports EXCEPT ![u] = None]
    /\ Refresh
    /\ UNCHANGED <<open, active, text, inbox>>

-----------------------------------------------------------------------------

Host == Timer \/ Ask \/ FileHealth \/ \E f \in fetches : Resume(f)
Server == (\E u \in Uris : Send(u)) \/ (\E f \in fetches : Answer(f))
Happening ==
    \/ AskUnasked \/ Restart
    \/ \E u \in Uris : Analyse(u) \/ CloseDocument(u) \/ ChangeLanguage(u)
    \/ \E u \in Uris \cup {NoUri} : Activate(u)
    \/ \E f \in fetches : Fail(f)

Next == Host \/ Server \/ Happening

(* The extension host runs what is due, and the server sends and answers.   *)
Spec == Init /\ [][Next]_vars
FairSpec == Spec /\ WF_vars(Host) /\ WF_vars(Server)

-----------------------------------------------------------------------------

(* The rows on screen are about the active document: an answer that arrives *)
(* after the reader moved to another, or the document became one that is    *)
(* not analysed, is never drawn under its name.                             *)
TreeShowsActive == loaded # None => loaded.uri = ActiveUri

(* When nothing more happens, the view has the active document's functions  *)
(* as they are, unless the last request for them failed, and the status bar *)
(* its summary; across restarts, and whatever was coalesced on the way.     *)
TreeUpToDate ==
    ActiveUri # NoUri =>
        /\ reports[ActiveUri] = text[ActiveUri]
        /\ loaded = [uri |-> ActiveUri, text |-> text[ActiveUri]] \/ (loaded = None /\ failed)
TreeSettles == <>[]TreeUpToDate

=============================================================================
