-------------------------- MODULE HealthHoverCache ---------------------------
(***************************************************************************)
(* The gutter hovers of the IntelliJ client (HealthHoverCache.kt behind    *)
(* HealthHoverService.kt): the line-marker pass reads what is cached and   *)
(* leaves the missing positions to one worker per entry, which asks the    *)
(* server for one after the other.                                         *)
(*                                                                         *)
(* Every action is one hold of the cache's lock, or what happens around a  *)
(* load.  A worker that is cancelled while it loads unwinds; one whose     *)
(* load has returned by then goes on to the lock, and finds its entry      *)
(* gone.                                                                   *)
(*                                                                         *)
(* External: documents, whose modification stamp names their text (an undo *)
(* brings both back); and the server, which hears of changes one by one in *)
(* the order they are sent, neither edits nor settings being acknowledged. *)
(* It takes up a hover beside them: it reads its settings first and, after *)
(* a wait, the text it has by then (lib.rs:240, report_for).  It publishes *)
(* a document again after a change of its text or of the settings.         *)
(***************************************************************************)
EXTENDS Naturals, FiniteSets, SequencesExt

CONSTANTS Uris, Positions, Stamps,
          Regimes,    \* settings and connections: what else an answer depends on
          Ids,        \* bound: entries in the map or in the hands of a worker
          None,
          MaxEvents   \* bound: edits, changes of regime, failures, stray publications

VARIABLES stamp,     \* modificationStamp of each document
          regime,
          sent,      \* changes the server has yet to hear of, of None if of regime
          known,     \* what the server has
          clearing,  \* a change of regime has yet to clear the cache
          due,       \* documents with a change whose publication is to come
          entries,   \* uri -> the entry in the map, or None
          workers,
          events

documentVars == <<stamp, regime, sent, known, clearing, due>>
vars == <<documentVars, entries, workers, events>>

Init ==
    /\ stamp = [u \in Uris |-> CHOOSE s \in Stamps : TRUE]
    /\ regime = CHOOSE r \in Regimes : TRUE
    /\ sent = <<>>
    /\ known = [text |-> stamp, regime |-> regime]
    /\ clearing = FALSE
    /\ due = {}
    /\ entries = [u \in Uris |-> None]
    /\ workers = {}
    /\ events = 0

Nothing == [asked |-> None, regime |-> None, text |-> None]

Held == {entries[u].id : u \in {v \in Uris : entries[v] # None}} \cup {w.id : w \in workers}
NewEntry(i, s) == [id |-> i, stamp |-> s, running |-> FALSE, pending |-> <<>>,
                   values |-> [p \in Positions |-> None]]

(* entries[uri] === current                                                 *)
Current(w) == entries[w.uri] # None /\ entries[w.uri].id = w.id

(* Job.cancel(): what has not returned from its load never will.            *)
Survivors(gone) ==
    {w \in workers : entries[w.uri] # None /\ entries[w.uri].id = w.id /\ w.uri \in gone
                       => w.step = "loaded"}

-----------------------------------------------------------------------------

(* get(): a hit, or the position is queued and a worker started unless one  *)
(* is running; an entry of another stamp is replaced.                       *)
Get(u, p) ==
    LET fits == entries[u] # None /\ entries[u].stamp = stamp[u]
        id == CHOOSE i \in Ids : i \notin Held
        entry == IF fits THEN entries[u] ELSE NewEntry(id, stamp[u])
        left == IF fits THEN workers ELSE Survivors({u})
        asks == entry.values[p] = None /\ ~Contains(entry.pending, p)
        work == [id |-> entry.id, uri |-> u, step |-> "turn", at |-> None, got |-> Nothing]
    IN  /\ IF fits THEN asks ELSE Ids # Held
        /\ entries' = [entries EXCEPT ![u] = [entry EXCEPT !.pending = Append(@, p),
                                                           !.running = TRUE]]
        /\ workers' = IF entry.running THEN left ELSE left \cup {work}
        /\ UNCHANGED <<documentVars, events>>

(* The worker takes the first position that is missing, or ends.            *)
Take(w) ==
    /\ w.step = "turn"
    /\ IF ~Current(w)
       THEN workers' = workers \ {w} /\ UNCHANGED entries
       ELSE IF entries[w.uri].pending = <<>>
       THEN /\ workers' = workers \ {w}
            /\ entries' = [entries EXCEPT ![w.uri].running = FALSE]
       ELSE /\ workers' = (workers \ {w}) \cup
                 {[w EXCEPT !.step = "asked", !.at = Head(entries[w.uri].pending),
                            !.got.asked = regime]}
            /\ UNCHANGED entries
    /\ UNCHANGED <<documentVars, events>>

(* The server takes up the hover, reads the text, and its answer arrives.   *)
TakeUp(w) ==
    /\ w.step = "asked"
    /\ workers' = (workers \ {w}) \cup
         {[w EXCEPT !.step = "begun", !.got.regime = known.regime]}
    /\ UNCHANGED <<documentVars, entries, events>>

Capture(w) ==
    /\ w.step = "begun"
    /\ workers' = (workers \ {w}) \cup
         {[w EXCEPT !.step = "answered", !.got.text = known.text[w.uri]]}
    /\ UNCHANGED <<documentVars, entries, events>>

Reply(w) ==
    /\ w.step = "answered"
    /\ workers' = (workers \ {w}) \cup {[w EXCEPT !.step = "loaded"]}
    /\ UNCHANGED <<documentVars, entries, events>>

Turn(w) == [w EXCEPT !.step = "turn", !.at = None, !.got = Nothing]
Kept(e, w) == [e EXCEPT !.values[w.at] = w.got, !.pending = Remove(@, w.at)]

(* Mutant of Store: whatever entry the document has by now is filled.       *)
StoreInMap(w) ==
    /\ w.step = "loaded"
    /\ IF entries[w.uri] = None
       THEN workers' = workers \ {w} /\ UNCHANGED entries
       ELSE /\ workers' = (workers \ {w}) \cup {Turn(w)}
            /\ entries' = [entries EXCEPT ![w.uri] = Kept(@, w)]
    /\ UNCHANGED <<documentVars, events>>

Store(w) ==
    /\ w.step = "loaded"
    /\ IF Current(w)
       THEN /\ workers' = (workers \ {w}) \cup {Turn(w)}
            /\ entries' = [entries EXCEPT ![w.uri] = Kept(@, w)]
       ELSE workers' = workers \ {w} /\ UNCHANGED entries
    /\ UNCHANGED <<documentVars, events>>

Happens == events < MaxEvents /\ events' = events + 1

(* load() throws: the entry goes, with all that was still queued in it.     *)
Fail(w) ==
    /\ Happens
    /\ w.step \in {"asked", "begun", "answered"}
    /\ workers' = workers \ {w}
    /\ entries' = IF Current(w) THEN [entries EXCEPT ![w.uri] = None] ELSE entries
    /\ UNCHANGED documentVars

Without(gone) ==
    /\ entries' = [u \in Uris |-> IF u \in gone THEN None ELSE entries[u]]
    /\ workers' = Survivors(gone)

(* forget(): a publication (FileHealthService), or the file is closed; one  *)
(* that a further change overtook, on its way too, leaves that one due.     *)
Published(u) ==
    /\ u \in due
    /\ \A i \in DOMAIN sent : sent[i].of \notin {u, None}
    /\ Without({u})
    /\ due' = due \ {u}
    /\ UNCHANGED <<stamp, regime, sent, known, clearing, events>>
Forget(u) ==
    /\ Happens
    /\ entries[u] # None
    /\ Without({u})
    /\ UNCHANGED documentVars

(* clear(), after pushConfiguration has sent the settings or the server has *)
(* come or gone.                                                            *)
Clear ==
    /\ clearing
    /\ Without(Uris)
    /\ clearing' = FALSE
    /\ UNCHANGED <<stamp, regime, sent, known, due, events>>

Sends(u, to) == sent' = Append(sent, [of |-> u, to |-> to])

Edit(u) ==
    /\ Happens
    /\ \E s \in Stamps \ {stamp[u]} : stamp' = [stamp EXCEPT ![u] = s] /\ Sends(u, s)
    /\ due' = due \cup {u}
    /\ UNCHANGED <<regime, known, clearing, entries, workers>>

Reconfigure ==
    /\ Happens
    /\ ~clearing
    /\ \E r \in Regimes \ {regime} : regime' = r /\ Sends(None, r)
    /\ clearing' = TRUE
    /\ due' = Uris
    /\ UNCHANGED <<stamp, known, entries, workers>>

Hear ==
    /\ sent # <<>>
    /\ sent' = Tail(sent)
    /\ LET change == Head(sent)
       IN  known' = IF change.of = None THEN [known EXCEPT !.regime = change.to]
                                        ELSE [known EXCEPT !.text[change.of] = change.to]
    /\ UNCHANGED <<stamp, regime, clearing, due, entries, workers, events>>

-----------------------------------------------------------------------------

WorkerStep == \E w \in workers : Take(w) \/ TakeUp(w) \/ Capture(w) \/ Reply(w) \/ Store(w)

Next ==
    \/ WorkerStep
    \/ \E w \in workers : Fail(w)
    \/ \E u \in Uris, p \in Positions : Get(u, p)
    \/ \E u \in Uris : Published(u) \/ Forget(u) \/ Edit(u)
    \/ Clear \/ Reconfigure \/ Hear

(* Workers run, the server hears of changes, answers hovers and publishes:  *)
(* there is no timeout here as there is in the view.                        *)
Fairness ==
    /\ WF_vars(WorkerStep)
    /\ WF_vars(Clear) /\ WF_vars(Hear)
    /\ \A u \in Uris : WF_vars(Published(u))

Spec == Init /\ [][Next]_vars
FairSpec == Spec /\ Fairness

-----------------------------------------------------------------------------

(* A hover is never kept past what it is about.  When the cache has been    *)
(* cleared after the last change of settings or connection, what it holds   *)
(* was asked for since the change was sent.  That does not make it current: *)
(* nothing acknowledges the change, and a hover the server takes up before  *)
(* hearing of it is kept, answered as before (LspfAnalysisClient.kt:73-76), *)
(* as is one it answers before hearing of an edit.  But a document's        *)
(* publication after its last change leaves nothing in the cache but what   *)
(* was scored with the text and under the settings of now.                  *)
HoverIsFresh ==
    \A u \in Uris, p \in Positions :
        LET value == entries[u].values[p]
        IN  entries[u] # None /\ value # None =>
              /\ ~clearing => value.asked = regime
              /\ u \notin due => value.regime = regime /\ value.text = stamp[u]

(* A position the gutter has asked for is not left waiting: it is answered, *)
(* or its entry goes and the next pass asks again.                          *)
HoversArrive ==
    \A u \in Uris, p \in Positions :
        (entries[u] # None /\ Contains(entries[u].pending, p))
            ~> (entries[u] = None \/ ~Contains(entries[u].pending, p))

=============================================================================
