------------------------- MODULE VisualStudioProofs -------------------------
(***************************************************************************)
(* What the Visual Studio client shows, and when it has a server, for any  *)
(* number of documents, settings, connections and requests.                *)
(*                                                                         *)
(* What is shown is current when all is done: what the server last said of *)
(* a document, arrived or not, is what it knows of it (NewsIsLatest); a    *)
(* document shows nothing of another text than the one it has, and nothing *)
(* of other settings than the server's unless newer news are to come       *)
(* (SummariesFit); functions are of the options of now or will be asked for*)
(* again (AskedFit, FunctionsFit).  With what AnalysisSessionProofs says of*)
(* the server, nothing else is left when nothing is under way.             *)
(*                                                                         *)
(* A manual stop holds because, while the last command was a stop, every   *)
(* start that still waits, and a server that still runs, have a stop behind*)
(* them in the queue at the semaphore (StopIsLast); and a restart, whose   *)
(* start queues up only later, is not under way.                           *)
(***************************************************************************)
EXTENDS AnalysisSessionProofs, ServerLifecycle

-----------------------------------------------------------------------------
(* What the server last said of a document is what it knows of it.          *)

About(u) == {i \in DOMAIN news[rpc] : news[rpc][i].uri = u}
Told(u, m) ==
    /\ m.text = Known(u).text /\ m.version = Known(u).version
    /\ m.settings = InForce(server[rpc])
LastAbout(i, u) == i \in About(u) /\ \A j \in About(u) : j <= i

(* The last that is on its way about a document says what the server knows. *)
NewsIsLatest ==
    Up => \A u \in Uris : Known(u) # None =>
            \A i \in DOMAIN news[rpc] : LastAbout(i, u) => Told(u, news[rpc][i])

LEMMA NewsSame ==
    ASSUME NewsIsLatest, UNCHANGED <<life, rpc, server, news>>
    PROVE  NewsIsLatest'
BY DEF NewsIsLatest, Up, Known, LastAbout, About, Told

(* It takes something in.                                                   *)
LEMMA NewsTaken ==
    ASSUME SessionInv, Up, UNCHANGED rpc, NEW r \in Servers, NEW us \in SUBSET Uris,
           TakesIn(rpc, r, us)
    PROVE  /\ news'[rpc] \in Seq(Messages)
           /\ \A u \in Uris \ us : About(u)' = About(u)
           /\ \A u \in us : About(u)' # {}
           /\ \A i \in DOMAIN news[rpc] : i \in DOMAIN news'[rpc] /\ news'[rpc][i] = news[rpc][i]
           /\ \A u \in us : \A i \in DOMAIN news'[rpc] :
                LastAbout(i, u)' => news'[rpc][i] = Said(rpc, r, u)
<1>0. /\ news \in [Conns -> Seq(Messages)] /\ rpc \in Conns /\ news[rpc] \in Seq(Messages)
  BY UpConn DEF SessionInv, SessionTypeOK
<1>1. PICK said \in Seq(Messages) :
         /\ \A i \in DOMAIN said : \E u \in us : said[i] = Said(rpc, r, u)
         /\ \A u \in us : \E i \in DOMAIN said : said[i] = Said(rpc, r, u)
         /\ news' = [news EXCEPT ![rpc] = @ \o said]
  BY DEF TakesIn
<1>. DEFINE old == news[rpc]
            now == old \o said
<1>2. news' = [news EXCEPT ![rpc] = now]
  BY <1>1
<1>3. /\ now \in Seq(Messages) /\ DOMAIN now = 1..Len(old) + Len(said)
      /\ Len(old) \in Nat /\ Len(said) \in Nat
      /\ DOMAIN old = 1..Len(old) /\ DOMAIN said = 1..Len(said)
      /\ \A i \in DOMAIN old : now[i] = old[i]
      /\ \A i \in DOMAIN said : now[Len(old) + i] = said[i]
  BY <1>0, <1>1, Concatenated
<1>. HIDE DEF now
<1>4. news'[rpc] = now
  BY <1>0, <1>2
<1>5. ASSUME NEW i \in DOMAIN now
      PROVE  i \in DOMAIN old \/ \E k \in DOMAIN said : i = Len(old) + k
  <2>1. CASE i <= Len(old)
    BY <1>3, <1>5, <2>1
  <2>2. CASE ~(i <= Len(old))
    <3>1. PICK n \in Nat, k \in Nat : n = Len(old) /\ k = Len(said)
      BY <1>3
    <3>2. i \in 1..n + k /\ i \in Int /\ ~(i <= n) /\ DOMAIN said = 1..k
      BY <1>3, <1>5, <2>2, <3>1
    <3>3. i - n \in 1..k /\ i = n + (i - n)
      BY <3>2
    <3>. QED  BY <3>1, <3>2, <3>3
  <2>. QED  BY <2>1, <2>2
<1>6. /\ DOMAIN old \subseteq DOMAIN now
      /\ \A k \in DOMAIN said : Len(old) + k \in DOMAIN now /\ Len(old) + k \notin DOMAIN old
  BY <1>3
<1>7. \A u : Said(rpc, r, u).uri = u
  BY DEF Said
<1>8. ASSUME NEW u \in Uris \ us PROVE About(u)' = About(u)
  <2>1. About(u)' = {i \in DOMAIN now : now[i].uri = u}
    BY <1>4 DEF About
  <2>2. \A i \in DOMAIN now : now[i].uri = u => i \in DOMAIN old
    BY <1>1, <1>3, <1>5, <1>7
  <2>. QED  BY <1>3, <1>6, <2>1, <2>2 DEF About
<1>9. ASSUME NEW u \in us
      PROVE  \E k \in DOMAIN said : said[k] = Said(rpc, r, u) /\ Len(old) + k \in About(u)'
  <2>1. PICK k \in DOMAIN said : said[k] = Said(rpc, r, u)
    BY <1>1
  <2>2. now[Len(old) + k].uri = u
    BY <1>3, <1>7, <2>1
  <2>. QED  BY <1>4, <1>6, <2>1, <2>2 DEF About
<1>10. ASSUME NEW u \in us, NEW i \in DOMAIN now, LastAbout(i, u)'
       PROVE  now[i] = Said(rpc, r, u)
  <2>1. PICK k \in DOMAIN said : Len(old) + k \in About(u)'
    BY <1>9
  <2>2. Len(old) + k <= i /\ now[i].uri = u
    BY <1>4, <1>10, <2>1 DEF LastAbout, About
  <2>3. i \notin DOMAIN old
    BY <1>3, <2>2
  <2>4. PICK n \in DOMAIN said : i = Len(old) + n
    BY <1>5, <2>3
  <2>5. PICK w \in us : said[n] = Said(rpc, r, w)
    BY <1>1
  <2>. QED  BY <1>3, <1>7, <2>2, <2>4, <2>5
<1>. QED  BY <1>3, <1>4, <1>6, <1>8, <1>9, <1>10

LEMMA TakenLatest ==
    ASSUME SessionInv, NewsIsLatest, Up, UNCHANGED rpc, NEW r \in Servers,
           NEW us \in SUBSET Uris, TakesIn(rpc, r, us),
           \A u \in Uris \ us : r.docs[u] # None =>
               r.docs[u] = Known(u) /\ InForce(r) = InForce(server[rpc])
    PROVE  NewsIsLatest'
<1>1. server'[rpc] = r /\ \A u : Known(u)' = r.docs[u]
  BY TakenIn
<1>2. ASSUME NEW u \in Uris, Known(u)' # None, NEW i \in DOMAIN news'[rpc], LastAbout(i, u)'
      PROVE  Told(u, news[rpc][i])'
  <2>1. CASE u \in us
    <3>1. news'[rpc][i] = Said(rpc, r, u)
      BY <1>2, <2>1, NewsTaken
    <3>. QED  BY <1>1, <3>1 DEF Told, Said
  <2>2. CASE u \notin us
    <3>1. About(u)' = About(u) /\ i \in About(u)
      BY <1>2, <2>2, NewsTaken DEF LastAbout
    <3>2. LastAbout(i, u) /\ i \in DOMAIN news[rpc]
      BY <1>2, <3>1 DEF LastAbout, About
    <3>3. news'[rpc][i] = news[rpc][i]
      BY <3>2, NewsTaken
    <3>4. Known(u) # None /\ Known(u)' = Known(u) /\ InForce(server'[rpc]) = InForce(server[rpc])
      BY <1>1, <1>2, <2>2
    <3>5. Told(u, news[rpc][i])
      BY <3>2, <3>4 DEF NewsIsLatest
    <3>. QED  BY <1>1, <3>3, <3>4, <3>5 DEF Told, InForce
  <2>. QED  BY <2>1, <2>2
<1>. QED  BY <1>2 DEF NewsIsLatest

LEMMA SentLatest ==
    ASSUME SessionInv, NewsIsLatest, Up, queue # <<>>, Current.kind \in {"refresh", "hover"},
           UNCHANGED <<life, rpc>>, NEW new \in Ops, SentUp(new)
    PROVE  NewsIsLatest'
<1>1. CASE UNCHANGED serverVars
  BY <1>1, NewsSame DEF serverVars
<1>. PICK u \in Uris, t \in Nat, v \in Nat :
       u = doc[Current.doc].uri /\ t = doc[Current.doc].text /\ v = doc[Current.doc].version + 1
  <2>1. /\ doc[Current.doc].uri \in Uris /\ doc[Current.doc].text \in Nat
        /\ doc[Current.doc].version + 1 \in Nat
    BY DocOfHead
  <2>. QED  BY <2>1
<1>2. CASE TakesIn(rpc, Opening(rpc, u, t, v), {u})
  <2>. DEFINE r == Opening(rpc, u, t, v)
              us == {u}
  <2>1. server[rpc] \in Servers
    BY UpConn
  <2>2. /\ r \in Servers /\ InForce(r) = InForce(server[rpc])
        /\ \A w \in Uris : w # u => r.docs[w] = Known(w)
    <3>1. [text |-> t, version |-> v] \in Texts
      BY DEF Texts
    <3>. QED  BY <2>1, <3>1 DEF Servers, Opening, InForce, Known
  <2>3. TakesIn(rpc, r, us) /\ us \in SUBSET Uris /\ \A w \in Uris \ us : w # u
    BY <1>2
  <2>. HIDE DEF r, us
  <2>. QED  BY <2>2, <2>3, TakenLatest
<1>. QED  BY <1>1, <1>2 DEF SentUp

LEMMA BeginLatest ==
    ASSUME SessionInv, NewsIsLatest, Begin
    PROVE  NewsIsLatest'
<1>. DEFINE op == Current
<1>0. queue # <<>> /\ UNCHANGED <<life, rpc>>
  BY BeginUp
<1>1. CASE ~Up
  BY <1>0, <1>1 DEF NewsIsLatest, Up
<1>2. CASE UNCHANGED <<doc, server, news>>
  BY <1>0, <1>2, NewsSame
<1>3. CASE Up /\ op.kind \in {"refresh", "hover"} /\ \E new \in Ops : SentUp(new)
  BY <1>0, <1>3, SentLatest
<1>4. CASE /\ Up /\ op.kind = "close"
           /\ TakesIn(rpc, [server[rpc] EXCEPT !.docs[op.uri] = None], {})
  <2>. PICK u \in Uris : u = op.uri
    BY <1>0, <1>4, HeadOk DEF OpOk
  <2>. DEFINE r == [server[rpc] EXCEPT !.docs[u] = None]
              us == {}
  <2>1. server[rpc] \in Servers
    BY <1>4, UpConn
  <2>2. /\ r \in Servers /\ InForce(r) = InForce(server[rpc])
        /\ \A w \in Uris : r.docs[w] # None => r.docs[w] = Known(w)
    BY <2>1 DEF Servers, InForce, Known
  <2>3. TakesIn(rpc, r, us) /\ us \in SUBSET Uris
    BY <1>4
  <2>. HIDE DEF r, us
  <2>. QED  BY <1>0, <1>4, <2>2, <2>3, TakenLatest
<1>5. CASE /\ Up /\ op.kind = "configure"
           /\ TakesIn(rpc, [server[rpc] EXCEPT !.configured = op.settings],
                      Affected(rpc, op.settings))
  <2>. PICK s \in Settings : s = op.settings
    BY <1>0, <1>5, HeadOk DEF OpOk
  <2>. DEFINE r == [server[rpc] EXCEPT !.configured = s]
              us == Affected(rpc, s)
  <2>1. server[rpc] \in Servers
    BY <1>5, UpConn
  <2>2. /\ r \in Servers /\ r.docs = server[rpc].docs
        /\ server[rpc].configured = s => r = server[rpc]
    BY <2>1 DEF Servers
  <2>3. TakesIn(rpc, r, us) /\ us \in SUBSET Uris
    BY <1>5 DEF Affected
  <2>4. \A u \in Uris \ us : r.docs[u] # None => server[rpc].configured = s
    BY <2>2 DEF Affected
  <2>. HIDE DEF r, us
  <2>. QED  BY <1>0, <1>5, <2>2, <2>3, <2>4, TakenLatest DEF Known
<1>. QED  BY <1>1, <1>2, <1>3, <1>4, <1>5, BeginUp

(* One is handled: the last one about a document stays the last one.        *)
LEMMA NewsTail ==
    ASSUME SessionInv, Up, UNCHANGED <<life, rpc, server>>, news[rpc] # <<>>,
           news' = [news EXCEPT ![rpc] = Tail(@)]
    PROVE  /\ Head(news[rpc]) = news[rpc][1] /\ 1 \in DOMAIN news[rpc]
           /\ \A i \in DOMAIN news'[rpc] : i + 1 \in DOMAIN news[rpc] /\ news'[rpc][i] = news[rpc][i + 1]
           /\ \A i \in DOMAIN news[rpc] : i # 1 => i - 1 \in DOMAIN news'[rpc] /\ news'[rpc][i - 1] = news[rpc][i]
           /\ DOMAIN news[rpc] \subseteq Nat /\ DOMAIN news'[rpc] \subseteq Nat
<1>. DEFINE old == news[rpc]
            now == Tail(old)
<1>1. news \in [Conns -> Seq(Messages)] /\ rpc \in Conns /\ old \in Seq(Messages) /\ old # <<>>
  BY UpConn DEF SessionInv, SessionTypeOK
<1>2. /\ Head(old) = old[1] /\ DOMAIN old = 1..Len(old) /\ Len(old) \in Nat \ {0}
      /\ DOMAIN now = 1..Len(old) - 1
      /\ \A i \in DOMAIN now : i + 1 \in DOMAIN old /\ now[i] = old[i + 1]
  BY <1>1, Popped
<1>3. news'[rpc] = now
  BY <1>1
<1>. HIDE DEF now, old
<1>4. \A i \in DOMAIN old : i # 1 => i - 1 \in DOMAIN now /\ now[i - 1] = old[i]
  <2>. SUFFICES ASSUME NEW i \in DOMAIN old, i # 1
                PROVE  i - 1 \in DOMAIN now /\ now[i - 1] = old[i]
    OBVIOUS
  <2>. PICK n \in Nat \ {0} : n = Len(old)
    BY <1>2
  <2>1. i \in 1..n /\ i \in Int
    BY <1>2
  <2>2. i - 1 \in 1..n - 1 /\ (i - 1) + 1 = i
    BY <2>1
  <2>3. i - 1 \in DOMAIN now
    BY <1>2, <2>2
  <2>. QED  BY <1>2, <2>2, <2>3
<1>5. 1 \in DOMAIN old /\ DOMAIN old \subseteq Nat /\ DOMAIN now \subseteq Nat
  BY <1>2
<1>. QED  BY <1>2, <1>3, <1>4, <1>5 DEF old

LEMMA LastStays ==
    ASSUME SessionInv, Up, UNCHANGED <<life, rpc, server>>, news[rpc] # <<>>,
           news' = [news EXCEPT ![rpc] = Tail(@)], NEW u
    PROVE  /\ \A i \in DOMAIN news'[rpc] : LastAbout(i, u)' => LastAbout(i + 1, u)
           /\ About(u)' = {} => \A i \in About(u) : i = 1
<1>0. /\ \A i \in DOMAIN news'[rpc] : i + 1 \in DOMAIN news[rpc] /\ news'[rpc][i] = news[rpc][i + 1]
      /\ \A i \in DOMAIN news[rpc] : i # 1 => i - 1 \in DOMAIN news'[rpc] /\ news'[rpc][i - 1] = news[rpc][i]
      /\ DOMAIN news[rpc] \subseteq Nat /\ DOMAIN news'[rpc] \subseteq Nat
  BY NewsTail
<1>1. \A i \in About(u) : i # 1 => i - 1 \in About(u)'
  BY <1>0 DEF About
<1>2. ASSUME NEW i \in DOMAIN news'[rpc], LastAbout(i, u)'
      PROVE  LastAbout(i + 1, u)
  <2>1. i + 1 \in About(u) /\ i \in Nat
    BY <1>0, <1>2 DEF LastAbout, About
  <2>2. ASSUME NEW j \in About(u) PROVE j <= i + 1
    <3>1. j \in Nat
      BY <1>0 DEF About
    <3>2. j # 1 => j - 1 <= i
      BY <1>1, <1>2 DEF LastAbout
    <3>. QED  BY <2>1, <3>1, <3>2
  <2>. QED  BY <2>1, <2>2 DEF LastAbout
<1>. QED  BY <1>1, <1>2

LEMMA ReceiveLatest ==
    ASSUME SessionInv, NewsIsLatest, NEW c \in Conns, Receive(c)
    PROVE  NewsIsLatest'
<1>0. /\ UNCHANGED <<life, rpc, server>> /\ news[c] # <<>>
      /\ news' = [news EXCEPT ![c] = Tail(@)] /\ news \in [Conns -> Seq(Messages)]
  BY ReceiveEffect DEF SessionInv, SessionTypeOK
<1>. SUFFICES ASSUME Up, NEW u \in Uris, Known(u) # None,
                     NEW i \in DOMAIN news'[rpc], LastAbout(i, u)'
              PROVE  Told(u, news[rpc][i])'
  BY <1>0 DEF NewsIsLatest, Up, Known
<1>1. CASE c = rpc
  <2>1. LastAbout(i + 1, u) /\ i + 1 \in DOMAIN news[rpc] /\ news'[rpc][i] = news[rpc][i + 1]
    BY <1>0, <1>1, LastStays, NewsTail
  <2>2. Told(u, news[rpc][i + 1])
    BY <2>1 DEF NewsIsLatest
  <2>. QED  BY <1>0, <2>1, <2>2 DEF Told, Known
<1>2. CASE c # rpc
  <2>1. news'[rpc] = news[rpc]
    BY <1>0, <1>2, UpConn
  <2>2. LastAbout(i, u) /\ i \in DOMAIN news[rpc]
    BY <1>0, <2>1 DEF LastAbout, About
  <2>3. Told(u, news[rpc][i])
    BY <2>2 DEF NewsIsLatest
  <2>. QED  BY <1>0, <2>1, <2>3 DEF Told, Known
<1>. QED  BY <1>1, <1>2

LEMMA NewsNext ==
    ASSUME SessionInv, NewsIsLatest, Blank, [Next]_vars
    PROVE  NewsIsLatest'
<1>1. CASE life' # "up"
  BY <1>1 DEF NewsIsLatest, Up
<1>2. CASE /\ ~Begin /\ ~Start /\ ~\E c \in Conns : Receive(c)
           /\ life' = "up"
  <2>1. UNCHANGED <<life, server, news>>
    BY <1>2 DEF Next, UiThread, Editor, Lifecycle, Notified, Synchronized, GiveUp, RunPosted, Debounced,
       Answered, Activate, Edit, CloseView, Hover, Rename, Register, Configure, Die, RequestStop, Exit,
       Launch, vars, clientVars, serverVars
  <2>2. CASE UNCHANGED rpc
    BY <2>1, <2>2, NewsSame
  <2>3. CASE rpc' # rpc
    <3>1. PICK i \in DOMAIN posted : RunPosted(i)
      BY <1>2, <2>3 DEF Next, UiThread, Editor, Lifecycle, Notified, Synchronized, GiveUp, RunPosted, Debounced,
         Answered, Activate, Edit, CloseView, Hover, Rename, Register, Configure, Die, RequestStop, Exit,
         Launch, vars, sessionVars
    <3>2. life # "up"
      BY <2>3, <3>1, RunPostedCases DEF Calm
    <3>. QED  BY <1>2, <2>1, <3>2
  <2>. QED  BY <2>2, <2>3
<1>3. CASE Start
  <2>1. rpc' = Newest /\ UNCHANGED <<server, news>> /\ life = "starting"
    BY <1>3, StartEffect
  <2>2. \A u \in Uris : Known(u)' = None
    BY <2>1 DEF Blank, Known
  <2>. QED  BY <2>2 DEF NewsIsLatest
<1>. QED  BY <1>1, <1>2, <1>3, BeginLatest, ReceiveLatest DEF SessionInv, SessionTypeOK

LEMMA NewsInit ==
    ASSUME Init
    PROVE  NewsIsLatest
BY DEF Init, NewsIsLatest, Up

-----------------------------------------------------------------------------
(* Summaries and diagnostics.                                               *)

Summaries(d) == {doc[d].summary, doc[d].diagnostics} \ {None}
(* What a document shows is of the text it has, and of the settings the     *)
(* server has unless it has said something since that has yet to arrive.    *)
SummariesFit ==
    Up => \A d \in Open : ~ToHandle("changed", d) => \A h \in Summaries(d) :
            /\ doc[d].sent = doc[d].text
            /\ About(doc[d].uri) = {} => h.text = doc[d].text /\ h.settings = InForce(server[rpc])

KeepsNews(u) ==
    About(u)' # {} \/ (About(u)' = About(u) /\ InForce(server'[rpc]) = InForce(server[rpc]))
KeepsSummaries(d) ==
    /\ doc[d].state = "open" /\ doc'[d].uri = doc[d].uri /\ doc'[d].text = doc[d].text
    /\ doc'[d].summary \in {doc[d].summary, None}
    /\ doc'[d].diagnostics \in {doc[d].diagnostics, None}
    /\ ToHandle("changed", d) => ToHandle("changed", d)'
    /\ doc[d].sent # doc[d].text \/
         (doc'[d].sent = doc[d].sent /\ \A u \in Uris : u = doc[d].uri => KeepsNews(u))
NoSummary(d) == doc'[d].summary = None /\ doc'[d].diagnostics = None

LEMMA SummariesKept ==
    ASSUME SessionInv, SummariesFit, UNCHANGED <<life, rpc>>,
           \A d \in Docs : doc'[d].state = "open" =>
             NoSummary(d) \/ ToHandle("changed", d)' \/ KeepsSummaries(d)
    PROVE  SummariesFit'
<1>. SUFFICES ASSUME Up, NEW d \in Docs, doc'[d].state = "open", ~ToHandle("changed", d)',
                     KeepsSummaries(d), NEW h, h \in {doc'[d].summary, doc'[d].diagnostics}, h # None
              PROVE  /\ doc'[d].sent = doc'[d].text
                     /\ About(doc[d].uri)' = {} => h.text = doc'[d].text /\ h.settings = InForce(server'[rpc'])
  BY DEF SummariesFit, Summaries, Open, Up, NoSummary
<1>1. /\ d \in Open /\ h \in Summaries(d) /\ ~ToHandle("changed", d)
      /\ doc'[d].uri = doc[d].uri /\ doc'[d].text = doc[d].text
  BY DEF KeepsSummaries, Open, Summaries
<1>2. PICK u \in Uris : u = doc[d].uri
  BY <1>1 DEF Open, SessionInv, DocsOk
<1>3. /\ doc[d].sent = doc[d].text
      /\ About(u) = {} => h.text = doc[d].text /\ h.settings = InForce(server[rpc])
  BY <1>1, <1>2 DEF SummariesFit
<1>4. doc'[d].sent = doc[d].sent /\ KeepsNews(u)
  BY <1>2, <1>3 DEF KeepsSummaries
<1>5. About(doc[d].uri)' = About(u)'
  BY <1>1, <1>2 DEF About
<1>. QED  BY <1>1, <1>3, <1>4, <1>5 DEF KeepsNews

LEMMA SameNewsKept ==
    ASSUME UNCHANGED <<rpc, server, news>>
    PROVE  \A u : KeepsNews(u)
BY DEF KeepsNews, About, InForce

LEMMA CalmSummaries ==
    ASSUME SessionInv, SummariesFit, Calm,
           \A d \in Docs :
             /\ KeepText(d) \/ ToHandle("changed", d)'
             /\ ToHandle("changed", d) /\ d \in Open =>
                  ToHandle("changed", d)' \/ ShowsNothing(doc'[d])
    PROVE  SummariesFit'
<1>1. \A u : KeepsNews(u)
  BY SameNewsKept DEF Calm
<1>. SUFFICES ASSUME NEW d \in Docs, doc'[d].state = "open",
                     ~NoSummary(d), ~ToHandle("changed", d)'
              PROVE  KeepsSummaries(d)
  BY SummariesKept DEF Calm
<1>2. /\ doc[d].state = "open" /\ doc'[d].uri = doc[d].uri /\ doc'[d].sent = doc[d].sent
      /\ doc'[d].summary \in {doc[d].summary, None}
      /\ doc'[d].diagnostics \in {doc[d].diagnostics, None}
      /\ doc'[d].text = doc[d].text
  BY DEF Calm, KeepDoc, KeepText, ShowsLess
<1>3. ~ToHandle("changed", d)
  BY <1>2 DEF NoSummary, ShowsNothing, Open
<1>. QED  BY <1>1, <1>2, <1>3 DEF KeepsSummaries

LEMMA PostedStays ==
    ASSUME SessionInv, queue # <<>>, Done \/ UNCHANGED posted
    PROVE  \A d \in Docs : ToHandle("changed", d) => ToHandle("changed", d)'
BY DonePosts, TaskIs DEF ToHandle

(* The operation under way goes on.                                         *)
LEMMA HeadSummaries ==
    ASSUME SessionInv, SummariesFit, UNCHANGED <<life, rpc, server, news>>, queue # <<>>,
           Done \/ UNCHANGED posted,
           \A d \in Docs :
             /\ doc'[d].state = doc[d].state /\ doc'[d].uri = doc[d].uri /\ doc'[d].text = doc[d].text
             /\ doc'[d].summary = doc[d].summary /\ doc'[d].diagnostics = doc[d].diagnostics
             /\ doc[d].sent # doc[d].text \/ doc'[d].sent = doc[d].sent
    PROVE  SummariesFit'
BY SameNewsKept, PostedStays, SummariesKept DEF KeepsSummaries

LEMMA TakenSummaries ==
    ASSUME SessionInv, SummariesFit, KnownInv, Up, UNCHANGED <<life, rpc, posted>>,
           NEW r \in Servers, NEW us \in SUBSET Uris, TakesIn(rpc, r, us),
           \A u \in Uris \ us : Known(u) # None => InForce(r) = InForce(server[rpc]),
           \A d \in Docs :
             /\ doc'[d].state = doc[d].state /\ doc'[d].uri = doc[d].uri /\ doc'[d].text = doc[d].text
             /\ doc'[d].summary = doc[d].summary /\ doc'[d].diagnostics = doc[d].diagnostics
             /\ doc'[d].sent = doc[d].sent
    PROVE  SummariesFit'
<1>1. server'[rpc] = r
  BY TakenIn
<1>2. /\ \A u \in us : KeepsNews(u)
      /\ \A u \in Uris \ us : Known(u) # None => KeepsNews(u)
  BY <1>1, NewsTaken DEF KeepsNews
<1>3. \A d \in Docs : ToHandle("changed", d) => ToHandle("changed", d)'
  BY DEF ToHandle, IsPosted
<1>. SUFFICES ASSUME NEW d \in Docs, doc[d].state = "open", doc[d].sent = doc[d].text,
                     NEW u \in Uris, u = doc[d].uri
              PROVE  KeepsNews(u)
  BY <1>3, SummariesKept DEF KeepsSummaries
<1>4. doc[d].sent # None
  BY NoneAssumption DEF SessionInv, SessionTypeOK, Documents
<1>5. IsKnown(d)
  BY DEF Open, KnownInv, SentIsKnown
<1>6. Known(u) # None
  BY <1>4, <1>5 DEF IsKnown
<1>. QED  BY <1>2, <1>6

LEMMA BeginSummaries ==
    ASSUME SessionInv, SummariesFit, KnownInv, Begin
    PROVE  SummariesFit'
<1>. DEFINE op == Current
           still == UNCHANGED <<doc, server, news>>
<1>0. queue # <<>> /\ UNCHANGED <<life, rpc>> /\ doc \in [Docs -> Documents]
  BY BeginUp DEF SessionInv, SessionTypeOK
<1>1. CASE ~Up
  BY <1>0, <1>1 DEF SummariesFit, Up
<1>2. CASE still /\ (Done \/ UNCHANGED posted)
  BY <1>0, <1>2, HeadSummaries
<1>3. CASE Up /\ op.kind \in {"refresh", "hover"} /\ \E new \in Ops : SentUp(new)
  <2>. PICK d \in Docs, u \in Uris, t \in Nat, v \in Nat :
         d = op.doc /\ u = doc[d].uri /\ t = doc[d].text /\ v = doc[d].version + 1
    <3>1. /\ op.doc \in Docs /\ doc[op.doc].uri \in Uris /\ doc[op.doc].text \in Nat
          /\ doc[op.doc].version + 1 \in Nat
      BY <1>0, <1>3, DocOfHead
    <3>. QED  BY <3>1
  <2>0. /\ doc' = [doc EXCEPT ![d].version = v] /\ UNCHANGED posted
        /\ TakesIn(rpc, Opening(rpc, u, t, v), {u}) \/ UNCHANGED serverVars
    BY <1>3 DEF SentUp
  <2>1. \A e \in Docs : 
             /\ doc'[e].state = doc[e].state /\ doc'[e].uri = doc[e].uri /\ doc'[e].text = doc[e].text
             /\ doc'[e].summary = doc[e].summary /\ doc'[e].diagnostics = doc[e].diagnostics
             /\ doc'[e].sent = doc[e].sent
    BY <1>0, <2>0 DEF Documents
  <2>2. CASE UNCHANGED serverVars
    BY <1>0, <2>0, <2>1, <2>2, HeadSummaries DEF serverVars
  <2>3. CASE TakesIn(rpc, Opening(rpc, u, t, v), {u})
    <3>. DEFINE r == Opening(rpc, u, t, v)
                us == {u}
    <3>1. server[rpc] \in Servers /\ [text |-> t, version |-> v] \in Texts
      BY <1>3, UpConn DEF Texts
    <3>2. r \in Servers /\ InForce(r) = InForce(server[rpc]) /\ us \in SUBSET Uris /\ TakesIn(rpc, r, us)
      BY <2>3, <3>1 DEF Servers, Opening, InForce
    <3>. HIDE DEF r, us
    <3>. QED  BY <1>0, <1>3, <2>0, <2>1, <3>2, TakenSummaries
  <2>. QED  BY <2>0, <2>2, <2>3
<1>4. CASE /\ Up /\ op.kind = "close" /\ Notifies
           /\ TakesIn(rpc, [server[rpc] EXCEPT !.docs[op.uri] = None], {})
  <2>. PICK u \in Uris : u = op.uri
    BY <1>0, <1>4, HeadOk DEF OpOk
  <2>. DEFINE r == [server[rpc] EXCEPT !.docs[u] = None]
              us == {}
  <2>1. server[rpc] \in Servers
    BY <1>4, UpConn
  <2>2. r \in Servers /\ InForce(r) = InForce(server[rpc]) /\ us \in SUBSET Uris /\ TakesIn(rpc, r, us)
    BY <1>4, <2>1 DEF Servers, InForce
  <2>. HIDE DEF r, us
  <2>. QED  BY <1>0, <1>4, <2>2, TakenSummaries DEF Notifies
<1>5. CASE /\ Up /\ op.kind = "configure" /\ Notifies
           /\ TakesIn(rpc, [server[rpc] EXCEPT !.configured = op.settings],
                      Affected(rpc, op.settings))
  <2>. PICK s \in Settings : s = op.settings
    BY <1>0, <1>5, HeadOk DEF OpOk
  <2>. DEFINE r == [server[rpc] EXCEPT !.configured = s]
              us == Affected(rpc, s)
  <2>1. server[rpc] \in Servers
    BY <1>5, UpConn
  <2>2. /\ r \in Servers /\ us \in SUBSET Uris /\ TakesIn(rpc, r, us)
        /\ server[rpc].configured = s => r = server[rpc]
    BY <1>5, <2>1 DEF Servers, Affected
  <2>3. \A u \in Uris \ us : Known(u) # None => InForce(r) = InForce(server[rpc])
    BY <2>2 DEF Affected, Known
  <2>. HIDE DEF r, us
  <2>. QED  BY <1>0, <1>5, <2>2, <2>3, TakenSummaries DEF Notifies
<1>6. (Fails \/ \E new \in Ops : AskedAs(new)) => UNCHANGED posted
  BY DEF Fails, AskedAs
<1>. QED  BY <1>1, <1>2, <1>3, <1>4, <1>5, <1>6, BeginUp

LEMMA SynchronizedSummaries ==
    ASSUME SessionInv, NamesInv, SummariesFit, Synchronized
    PROVE  SummariesFit'
<1>. DEFINE op == Current
<1>0. /\ queue # <<>> /\ At("synchronizing") /\ op \in Ops /\ op.kind \in {"refresh", "hover"}
      /\ UNCHANGED <<life, rpc, generation, server, news>> /\ doc \in [Docs -> Documents]
      /\ op.doc \in Docs
  BY HeadOk, DocOfHead DEF Synchronized, At, OpOk, sessionVars, clientVars, serverVars, SessionInv,
     SessionTypeOK
<1>1. Done \/ UNCHANGED posted
  <2>1. CASE AskNext
    BY <1>0, <2>1, AskCases DEF Fails, AskedAs
  <2>. QED  BY <2>1 DEF Synchronized, Fails
<1>2. ASSUME NEW d \in Docs
      PROVE  /\ doc'[d].state = doc[d].state /\ doc'[d].uri = doc[d].uri /\ doc'[d].text = doc[d].text
             /\ doc'[d].summary = doc[d].summary /\ doc'[d].diagnostics = doc[d].diagnostics
             /\ doc'[d].sent = doc[d].sent \/ (d = op.doc /\ Underway)
  BY <1>0 DEF Synchronized, MarkSent, Documents, Underway
<1>3. ASSUME Underway
      PROVE  doc[op.doc].sent # doc[op.doc].text
  <2>1. op.snapshot \in Nat /\ doc[op.doc].text \in Nat /\ doc[op.doc].sent \in Nat \cup {None}
    BY <1>0, HeadOk DEF At, OpOk, Documents
  <2>2. op.snapshot <= doc[op.doc].text /\ (doc[op.doc].sent # None => doc[op.doc].sent < op.snapshot)
    BY <1>3 DEF NamesInv, SendingOk
  <2>. QED  BY <2>1, <2>2, NoneAssumption
<1>. QED  BY <1>0, <1>1, <1>2, <1>3, HeadSummaries

LEMMA OtherHeadSummaries ==
    ASSUME SessionInv, SummariesFit, Notified \/ GiveUp \/ Answered
    PROVE  SummariesFit'
<1>0. /\ queue # <<>> /\ UNCHANGED <<life, rpc, server, news>> /\ doc \in [Docs -> Documents]
      /\ Done \/ UNCHANGED posted
  BY DEF Notified, GiveUp, Answered, At, Fails, sessionVars, clientVars, serverVars, SessionInv,
     SessionTypeOK
<1>1. \A d \in Docs :
        /\ doc'[d].state = doc[d].state /\ doc'[d].uri = doc[d].uri /\ doc'[d].text = doc[d].text
        /\ doc'[d].summary = doc[d].summary /\ doc'[d].diagnostics = doc[d].diagnostics
        /\ doc'[d].sent = doc[d].sent
  <2>1. CASE Answered
    BY <1>0, <2>1 DEF Answered, Documents
  <2>2. CASE UNCHANGED doc
    BY <2>2
  <2>. QED  BY <2>1, <2>2 DEF Notified, GiveUp
<1>. QED  BY <1>0, <1>1, HeadSummaries

(* One is accepted only for the text that was sent, and shows the last one. *)
LEMMA ReceiveSummaries ==
    ASSUME SessionInv, NamesInv, SummariesFit, NewsIsLatest, KnownInv, NEW c \in Conns, Receive(c)
    PROVE  SummariesFit'
<1>. PICK m \in Messages : m = Head(news[c])
  BY ReceiveEffect
<1>0. /\ UNCHANGED <<life, rpc, server, posted, queue, generation>> /\ news[c] # <<>>
      /\ news' = [news EXCEPT ![c] = Tail(@)] /\ news \in [Conns -> Seq(Messages)]
      /\ \A d \in Docs :
           /\ doc'[d].state = doc[d].state /\ doc'[d].uri = doc[d].uri
           /\ doc'[d].text = doc[d].text /\ doc'[d].sent = doc[d].sent
           /\ IF doc[d].state # "open" \/ ~Accepts(m, d) THEN doc'[d] = doc[d]
              ELSE /\ doc'[d].summary = m
                   /\ doc'[d].diagnostics =
                        IF m.version = doc[d].version THEN m ELSE doc[d].diagnostics
  BY ReceiveEffect DEF SessionInv, SessionTypeOK
<1>1. m = news[c][1] /\ m.conn = c
  <2>1. news[c] \in Seq(Messages)
    BY <1>0
  <2>2. m = news[c][1] /\ 1 \in DOMAIN news[c]
    BY <1>0, <2>1
  <2>. QED  BY <2>2 DEF SessionInv, ServersOk
<1>. SUFFICES ASSUME Up, NEW d \in Docs, d \in Open, ~ToHandle("changed", d),
                     NEW h, h \in {doc'[d].summary, doc'[d].diagnostics}, h # None
              PROVE  /\ doc[d].sent = doc[d].text
                     /\ About(doc[d].uri)' = {} => h.text = doc[d].text /\ h.settings = InForce(server[rpc])
  <2>1. /\ Open' = Open /\ (Up' <=> Up) /\ InForce(server[rpc])' = InForce(server[rpc])
        /\ \A d \in Docs : ToHandle("changed", d)' <=> ToHandle("changed", d)
        /\ \A d \in Open : d \in Docs /\ doc'[d].text = doc[d].text /\ doc'[d].sent = doc[d].sent
                          /\ doc'[d].uri = doc[d].uri
    BY <1>0 DEF Open, Up, ToHandle, IsPosted, InForce
  <2>. QED  BY <2>1 DEF SummariesFit, Summaries, About
<1>2. PICK u \in Uris : u = doc[d].uri /\ u = doc'[d].uri /\ doc[d].state = "open"
  BY <1>0 DEF Open, SessionInv, DocsOk
<1>3. About(doc[d].uri)' = About(u)'
  BY <1>2 DEF About
<1>4. CASE Accepts(m, d)
  <2>1. c = rpc /\ m.uri = u /\ doc[d].sent = doc[d].text
    BY <1>1, <1>2, <1>4 DEF Accepts
  <2>2. doc[d].sent # None
    BY <2>1, NoneAssumption DEF SessionInv, SessionTypeOK, Documents
  <2>3. ~Sending(d)
    <3>. SUFFICES ASSUME Sending(d) PROVE FALSE
      OBVIOUS
    <3>1. Underway /\ Current.doc = d /\ OpOk(Current) /\ Current.step = "synchronizing"
      BY HeadOk DEF Sending, Underway, At
    <3>2. /\ Current.snapshot \in Nat /\ doc[d].text \in Nat
          /\ Current.snapshot <= doc[d].text /\ doc[d].sent < Current.snapshot
      BY <2>2, <3>1 DEF NamesInv, SendingOk, OpOk, SessionInv, SessionTypeOK, Documents
    <3>. QED  BY <2>1, <3>2
  <2>4. /\ Known(u) # None /\ Known(u).version = doc[d].version /\ Known(u).text = doc[d].text
    BY <1>2, <2>1, <2>2, <2>3 DEF KnownInv, SentIsKnown, IsKnown
  <2>5. ASSUME About(u)' = {}
        PROVE  h.text = doc[d].text /\ h.settings = InForce(server[rpc])
    <3>1. \A i \in About(u) : i = 1
      BY <1>0, <2>1, <2>5, LastStays
    <3>2. 1 \in DOMAIN news[rpc] /\ 1 \in About(u)
      BY <1>0, <1>1, <2>1, NewsTail DEF About
    <3>3. LastAbout(1, u)
      BY <3>1, <3>2 DEF LastAbout
    <3>4. Told(u, m)
      BY <1>1, <2>1, <2>4, <3>2, <3>3 DEF NewsIsLatest
    <3>5. h = m
      BY <1>0, <1>2, <1>4, <2>4, <3>4 DEF Told
    <3>. QED  BY <2>4, <3>4, <3>5 DEF Told
  <2>. QED  BY <1>3, <2>1, <2>5
<1>5. CASE ~Accepts(m, d)
  <2>1. h \in Summaries(d)
    BY <1>0, <1>5 DEF Summaries
  <2>2. /\ doc[d].sent = doc[d].text
        /\ About(u) = {} => h.text = doc[d].text /\ h.settings = InForce(server[rpc])
    BY <1>2, <2>1 DEF SummariesFit
  <2>3. ASSUME About(u)' = {} PROVE About(u) = {}
    <3>1. CASE c = rpc
      <4>1. m.uri # u
        BY <1>1, <1>2, <1>5, <2>2, <3>1 DEF Accepts
      <4>2. \A i \in About(u) : i = 1
        BY <1>0, <2>3, <3>1, LastStays
      <4>3. \A i \in About(u) : news[rpc][i].uri = u
        BY DEF About
      <4>. QED  BY <1>1, <3>1, <4>1, <4>2, <4>3
    <3>2. CASE c # rpc
      <4>1. news'[rpc] = news[rpc]
        BY <1>0, <3>2, UpConn
      <4>2. About(u)' = {i \in DOMAIN news'[rpc] : news'[rpc][i].uri = u}
        BY <1>0 DEF About
      <4>. QED  BY <2>3, <4>1, <4>2 DEF About
    <3>. QED  BY <3>1, <3>2
  <2>. QED  BY <1>3, <2>2, <2>3
<1>. QED  BY <1>4, <1>5

LEMMA EditSummaries ==
    ASSUME SessionInv, SummariesFit, NEW d \in Docs, Edit(d)
    PROVE  SummariesFit'
<1>1. Calm /\ \A e \in Docs : e # d => KeepText(e)
  BY EditCalm DEF KeepText
<1>2. /\ Task("changed", d, None) \in Tasks
      /\ posted' = Append(posted, Task("changed", d, None))
  BY EditCalm, TaskIs
<1>3. \A t \in Tasks : IsPosted(t)' <=> IsPosted(t) \/ t = Task("changed", d, None)
  BY <1>2, PostedMore DEF SessionInv
<1>4. \A e \in Docs : ToHandle("changed", e) => ToHandle("changed", e)'
  BY <1>3, TaskIs DEF ToHandle, Task
<1>5. ToHandle("changed", d)'
  BY <1>2, <1>3 DEF ToHandle, Task
<1>. QED  BY <1>1, <1>4, <1>5, CalmSummaries

LEMMA RunPostedSummaries ==
    ASSUME SessionInv, SummariesFit, NEW i \in DOMAIN posted, RunPosted(i)
    PROVE  SummariesFit'
<1>. DEFINE k == posted[i]
<1>1. CASE ~Up
  BY <1>1 DEF RunPosted, clientVars, SummariesFit, Up
<1>2. CASE Up
  <2>1. /\ \A t \in Tasks : IsPosted(t) => IsPosted(t)' \/ t = k
        /\ Calm /\ \A d \in Docs : KeepText(d)
        /\ k.kind = "changed" /\ k.doc \in Open => ShowsNothing(doc'[k.doc])
    BY <1>2, RunPostedCases DEF Up
  <2>2. ASSUME NEW d \in Docs, ToHandle("changed", d), d \in Open
        PROVE  ToHandle("changed", d)' \/ ShowsNothing(doc'[d])
    <3>1. ToHandle("changed", d)' \/ k = Task("changed", d, None)
      BY <2>1, <2>2, TaskIs DEF ToHandle, Task
    <3>2. k = Task("changed", d, None) => k.kind = "changed" /\ k.doc = d
      BY TaskIs
    <3>. QED  BY <2>1, <2>2, <3>1, <3>2
  <2>. QED  BY <2>1, <2>2, CalmSummaries
<1>. QED  BY <1>1, <1>2

(* A document gets a name, or loses it.                                     *)
LEMMA NamingSummaries ==
    ASSUME SessionInv, SummariesFit, NEW d \in Docs, NEW u \in Uris, NEW f \in BOOLEAN,
           CloseView(d) \/ Rename(d, u) \/ Register(d, u, f)
    PROVE  SummariesFit'
<1>0. /\ UNCHANGED <<life, rpc, server, news, posted>> /\ doc \in [Docs -> Documents]
  BY DEF CloseView, Rename, Register, sessionVars, clientVars, serverVars, SessionInv, SessionTypeOK
<1>1. /\ \A e \in Docs : e # d => doc'[e] = doc[e]
      /\ doc'[d].state # "open" \/ NoSummary(d)
  <2>1. CASE CloseView(d)
    BY <1>0, <2>1 DEF CloseView, Documents
  <2>2. CASE Rename(d, u)
    BY <1>0, <2>2 DEF Rename, Documents, Cleared, NoSummary
  <2>3. CASE Register(d, u, f)
    BY <1>0, <2>3 DEF Register, Documents, NoSummary, SessionInv, DocsOk, NewDoc
  <2>. QED  BY <2>1, <2>2, <2>3
<1>2. \A v : KeepsNews(v)
  BY <1>0, SameNewsKept
<1>. QED  BY <1>0, <1>1, <1>2, SummariesKept DEF KeepsSummaries, ToHandle, IsPosted

LEMMA SummariesNext ==
    ASSUME SessionInv, NamesInv, KnownInv, NewsIsLatest, SummariesFit, [Next]_vars
    PROVE  SummariesFit'
<1>0. ASSUME Calm, UNCHANGED posted, \A d \in Docs : KeepText(d)
      PROVE  SummariesFit'
  BY <1>0, CalmSummaries DEF ToHandle, IsPosted
<1>1. CASE UiThread
  <2>1. ASSUME NEW d \in Docs, Debounced(d) PROVE SummariesFit'
    BY <1>0, <2>1, DebouncedCalm, SameDocs
  <2>. QED  BY <1>1, <2>1, BeginSummaries, OtherHeadSummaries, SynchronizedSummaries, RunPostedSummaries,
               ReceiveSummaries DEF UiThread
<1>2. CASE Answered
  BY <1>2, OtherHeadSummaries
<1>3. CASE Editor
  <2>1. ASSUME NEW d \in Docs \cup {None}, Activate(d) PROVE SummariesFit'
    BY <1>0, <2>1, ActivateCalm, SameDocs
  <2>2. ASSUME NEW d \in Docs, Hover(d) PROVE SummariesFit'
    BY <1>0, <2>2, HoverCalm, SameDocs
  <2>3. ASSUME NEW s \in Settings, Configure(s) PROVE SummariesFit'
    BY <1>0, <2>3, ConfigureCalm
  <2>4. ASSUME NEW d \in Docs, CloseView(d) PROVE SummariesFit'
    <3>1. PICK u \in Uris : u = doc[d].uri
      BY <2>4 DEF CloseView, Open, SessionInv, DocsOk
    <3>. QED  BY <2>4, NamingSummaries
  <2>. QED  BY <1>3, <2>1, <2>2, <2>3, <2>4, EditSummaries, NamingSummaries DEF Editor
<1>4. CASE Lifecycle
  <2>1. CASE RequestStop \/ Die \/ Exit \/ \E c \in Conns : Launch(c)
    BY <2>1 DEF RequestStop, Die, Exit, Launch, SummariesFit, Up
  <2>2. CASE Start
    <3>1. Stopped
      BY <2>2, StartEffect
    <3>2. \A d \in Docs : doc'[d].state = "open" => ShowsNothing(doc'[d])
      BY <3>1, StoppedDocs
    <3>. QED  BY <3>2 DEF SummariesFit, Open, ShowsNothing, Summaries
  <2>. QED  BY <1>4, <2>1, <2>2 DEF Lifecycle
<1>5. CASE UNCHANGED vars
  <2>1. QueueGrows /\ New = {}
    BY <1>5, QueueSame DEF vars
  <2>2. Calm
    BY <1>5, <2>1, SameDocs DEF vars, Calm
  <2>. QED  BY <1>0, <1>5, <2>2 DEF vars, KeepText
<1>. QED  BY <1>1, <1>2, <1>3, <1>4, <1>5 DEF Next

LEMMA SummariesInit ==
    ASSUME Init
    PROVE  SummariesFit
BY DEF Init, SummariesFit, Up

-----------------------------------------------------------------------------
(* Functions.                                                               *)

Push(i) == queue[i].kind = "configure" /\ Live(queue[i])
Pushed == \E i \in DOMAIN queue : Push(i)
Pushing == Pushed \/ \E t \in Tasks : IsPosted(t) /\ t.kind = "configured"

(* The answer awaited, and those shown, are scored with the options of now, *)
(* or new settings are on their way and will have them asked for again.     *)
AskedFit ==
    Up /\ At("asked") /\ Current.answer # None /\ Current.askEpoch = generation
      => Current.answer.settings = options \/ Pushed
FunctionsFit ==
    Up => \A d \in Open : doc[d].functions # None =>
            doc[d].functions.settings = options \/ Pushing

LEMMA PushedGrows ==
    ASSUME QueueGrows, UNCHANGED <<rpc, generation>>, Pushed
    PROVE  Pushed'
BY DEF QueueGrows, Pushed, Push, Live

LEMMA PushedStays ==
    ASSUME SessionInv, queue # <<>>, UNCHANGED <<rpc, generation>>, Pushed,
           \/ queue' = Tail(queue) /\ ~(Current.kind = "configure" /\ Live(Current))
           \/ \E new \in Ops : Put(new) /\ SameButStep(new, Current)
    PROVE  Pushed'
<1>0. 1 \in DOMAIN queue /\ Current = queue[1]
  BY AtHead DEF SessionInv
<1>1. PICK i \in DOMAIN queue : Push(i)
  BY DEF Pushed
<1>2. CASE queue' = Tail(queue) /\ ~(Current.kind = "configure" /\ Live(Current))
  <2>1. i # 1
    BY <1>0, <1>1, <1>2 DEF Push
  <2>2. i - 1 \in DOMAIN queue' /\ queue'[i - 1] = queue[i]
    BY <1>2, <2>1, QueuePopped DEF SessionInv
  <2>. QED  BY <1>1, <2>2 DEF Pushed, Push, Live
<1>3. ASSUME NEW new \in Ops, Put(new), SameButStep(new, Current)
      PROVE  Pushed'
  <2>1. /\ DOMAIN queue' = DOMAIN queue /\ queue'[1] = new
        /\ \A j \in DOMAIN queue : j # 1 => queue'[j] = queue[j]
    BY <1>3, QueuePut DEF SessionInv, Put
  <2>2. Push(i)'
    BY <1>0, <1>1, <1>3, <2>1 DEF Push, Live, SameButStep
  <2>. QED  BY <2>1, <2>2 DEF Pushed
<1>. QED  BY <1>2, <1>3

LEMMA PushingStays ==
    ASSUME SessionInv, queue # <<>>, UNCHANGED <<rpc, generation>>, Pushing,
           \/ Done
           \/ Fails /\ ~(Current.kind = "configure" /\ Live(Current))
           \/ UNCHANGED posted /\ \E new \in Ops : Put(new) /\ SameButStep(new, Current)
    PROVE  Pushing'
<1>0. Current \in Ops /\ OpOk(Current)
  BY HeadOk
<1>1. Done \/ UNCHANGED posted
  BY DEF Fails
<1>2. \A t \in Tasks : IsPosted(t) => IsPosted(t)'
  BY <1>1, DonePosts
<1>3. CASE \E t \in Tasks : IsPosted(t) /\ t.kind = "configured"
  BY <1>2, <1>3 DEF Pushing
<1>4. CASE Pushed
  <2>1. CASE Done /\ Current.kind = "configure"
    <3>1. Current.then = "configured" /\ Current.then # None /\ Current.doc \in Docs \cup {None}
      BY <1>0, <2>1, NoneAssumption DEF OpOk, Ops
    <3>2. PICK t \in Tasks : t = Task(Current.then, Current.doc, None) /\ t.kind = "configured"
      BY <3>1, TaskIs
    <3>3. IsPosted(t)'
      BY <2>1, <3>1, <3>2, DonePosts
    <3>. QED  BY <3>2, <3>3 DEF Pushing
  <2>2. CASE ~(Done /\ Current.kind = "configure")
    BY <1>4, <2>2, PushedStays DEF Pushing, Done, Fails
  <2>. QED  BY <2>1, <2>2
<1>. QED  BY <1>3, <1>4 DEF Pushing

LEMMA AskedKept ==
    ASSUME SessionInv, AskedFit, QueueGrows, UNCHANGED <<life, rpc, generation, options>>
    PROVE  AskedFit'
<1>1. At("asked")' <=> At("asked")
  BY HeadSame
<1>2. At("asked") => Current' = Current
  BY HeadSame DEF At
<1>. QED  BY <1>1, <1>2, PushedGrows DEF AskedFit, Up

(* It is asked for.                                                         *)
LEMMA AskedNow ==
    ASSUME SessionInv, PushFit, Up, queue # <<>>, Current.kind \in {"refresh", "hover"},
           UNCHANGED <<life, rpc, generation, options, server>>,
           NEW new \in Ops, AskedAs(new)
    PROVE  AskedFit'
<1>1. /\ Put(new) /\ SameButStep(new, Current) /\ server[Current.conn].alive
      /\ new.answer = Answer(Current.conn, doc[Current.doc].uri)
  BY DEF AskedAs
<1>2. Current' = new
  BY <1>1, HeadPut
<1>3. Current.conn = rpc
  <2>1. Current.conn \in Conns
    BY HeadOk DEF Ops
  <2>. QED  BY <1>1, <2>1, UpConn DEF SessionInv, ServersOk
<1>4. new.answer # None => new.answer.settings = InForce(server[rpc])
  BY <1>1, <1>3 DEF Answer, Said
<1>5. CASE \E i \in DOMAIN queue : QueuedPush(i)
  <2>1. Pushed
    BY <1>5 DEF Pushed, Push, QueuedPush
  <2>2. Pushed'
    BY <1>1, <2>1, PushedStays
  <2>. QED  BY <2>2 DEF AskedFit
<1>6. CASE \A i \in DOMAIN queue : ~QueuedPush(i)
  <2>1. InForce(server[rpc]) = options
    BY <1>6 DEF PushFit
  <2>. QED  BY <1>2, <1>4, <2>1 DEF AskedFit
<1>. QED  BY <1>5, <1>6

LEMMA NotAsked ==
    ASSUME SessionInv, queue # <<>>,
           queue' = Tail(queue) \/ \E new \in Ops : Put(new) /\ new.step # "asked"
    PROVE  AskedFit'
<1>1. ~At("asked")'
  BY HeadGone, HeadPut DEF At
<1>. QED  BY <1>1 DEF AskedFit

LEMMA HeadAsked ==
    ASSUME SessionInv, PushFit, Begin \/ Notified \/ Synchronized \/ GiveUp \/ Answered
    PROVE  AskedFit'
<1>0. queue # <<>> /\ UNCHANGED <<life, rpc, generation, options>>
  BY HeadServers
<1>1. CASE ~Up
  BY <1>0, <1>1 DEF AskedFit, Up
<1>2. CASE Done \/ Fails
  BY <1>0, <1>2, NotAsked DEF Done, Fails
<1>3. ASSUME Up, Current.kind \in {"refresh", "hover"}, UNCHANGED server,
             NEW new \in Ops, AskedAs(new)
      PROVE  AskedFit'
  BY <1>0, <1>3, AskedNow
<1>4. ASSUME NEW new \in Ops, SentUp(new) PROVE AskedFit'
  BY <1>0, <1>4, NotAsked DEF SentUp
<1>5. CASE Notifies
  BY <1>0, <1>5, NotifiesPuts, NotAsked
<1>6. CASE Begin
  BY <1>1, <1>2, <1>3, <1>4, <1>5, <1>6, BeginUp
<1>7. CASE Synchronized /\ Up
  <2>1. Current.kind \in {"refresh", "hover"} /\ UNCHANGED server
    BY <1>7, HeadOk DEF Synchronized, At, OpOk, serverVars
  <2>2. CASE AskNext
    BY <1>0, <1>2, <1>3, <1>7, <2>1, <2>2, AskCases
  <2>. QED  BY <1>2, <1>7, <2>2 DEF Synchronized
<1>8. CASE Notified \/ GiveUp \/ Answered
  BY <1>2, <1>8 DEF Notified, GiveUp, Answered
<1>. QED  BY <1>1, <1>6, <1>7, <1>8

LEMMA ConfigureAsked ==
    ASSUME SessionInv, NEW s \in Settings, Configure(s)
    PROVE  AskedFit'
<1>1. CASE ~Up
  BY <1>1 DEF Configure, AskedFit, Up
<1>2. CASE Up
  <2>1. PICK i \in New : queue'[i].kind = "configure" /\ Live(queue'[i])
    BY <1>2, ConfigureCalm, UpConn
  <2>2. UNCHANGED <<rpc, generation>>
    BY ConfigureCalm DEF Calm
  <2>3. Pushed'
    BY <2>1, <2>2 DEF Pushed, Push, New, Live
  <2>. QED  BY <2>3 DEF AskedFit
<1>. QED  BY <1>1, <1>2

LEMMA AskedNext ==
    ASSUME SessionInv, PushFit, AskedFit, [Next]_vars
    PROVE  AskedFit'
<1>0. ASSUME Calm, UNCHANGED options PROVE AskedFit'
  BY <1>0, AskedKept DEF Calm
<1>1. CASE UiThread
  <2>1. ASSUME NEW c \in Conns, Receive(c) PROVE AskedFit'
    BY <2>1, ReceiveEffect, QueueSame, AskedKept
  <2>2. ASSUME NEW d \in Docs, Debounced(d) PROVE AskedFit'
    BY <1>0, <2>2, DebouncedCalm
  <2>3. ASSUME NEW i \in DOMAIN posted, RunPosted(i) PROVE AskedFit'
    <3>1. CASE Halts /\ life # "up"
      BY <2>3, <3>1 DEF RunPosted, clientVars, AskedFit, Up
    <3>2. UNCHANGED options
      BY <2>3, RunPostedCases
    <3>. QED  BY <1>0, <2>3, <3>1, <3>2, RunPostedCases
  <2>. QED  BY <1>1, <2>1, <2>2, <2>3, HeadAsked DEF UiThread
<1>2. CASE Answered
  BY <1>2, HeadAsked
<1>3. CASE Editor
  <2>1. ASSUME NEW d \in Docs \cup {None}, Activate(d) PROVE AskedFit'
    BY <1>0, <2>1, ActivateCalm
  <2>2. ASSUME NEW d \in Docs, Edit(d) PROVE AskedFit'
    BY <1>0, <2>2, EditCalm
  <2>3. ASSUME NEW d \in Docs, Hover(d) PROVE AskedFit'
    BY <1>0, <2>3, HoverCalm
  <2>4. ASSUME NEW s \in Settings, Configure(s) PROVE AskedFit'
    BY <2>4, ConfigureAsked
  <2>5. ASSUME NEW d \in Docs, NEW u \in Uris, NEW f \in BOOLEAN,
               CloseView(d) \/ Rename(d, u) \/ Register(d, u, f)
        PROVE  AskedFit'
    BY <2>5, NamingQueues, AskedKept
  <2>6. ASSUME NEW d \in Docs, CloseView(d) PROVE AskedFit'
    <3>1. PICK u \in Uris : u = doc[d].uri
      BY <2>6 DEF CloseView, Open, SessionInv, DocsOk
    <3>. QED  BY <2>5, <2>6
  <2>. QED  BY <1>3, <2>1, <2>2, <2>3, <2>4, <2>5, <2>6 DEF Editor
<1>4. CASE Lifecycle
  <2>1. CASE RequestStop \/ Die \/ Exit \/ \E c \in Conns : Launch(c)
    BY <2>1 DEF RequestStop, Die, Exit, Launch, AskedFit, Up
  <2>2. CASE Start
    <3>1. QueueGrows /\ Stopped
      BY <2>2, StartEffect
    <3>2. generation < generation' /\ generation \in Nat /\ generation' \in Nat
      BY <3>1, StoppedOk DEF SessionInv, SessionTypeOK
    <3>3. (At("asked")' <=> At("asked")) /\ (At("asked") => Current' = Current)
      BY <3>1, HeadSame DEF At
    <3>4. At("asked") => Current.askEpoch \in Nat /\ Current.askEpoch <= generation
      BY HeadOk DEF At, OpOk
    <3>. QED  BY <3>2, <3>3, <3>4 DEF AskedFit
  <2>. QED  BY <1>4, <2>1, <2>2 DEF Lifecycle
<1>5. CASE UNCHANGED vars
  BY <1>5, QueueSame, AskedKept DEF vars
<1>. QED  BY <1>1, <1>2, <1>3, <1>4, <1>5 DEF Next

LEMMA FunctionsKept ==
    ASSUME FunctionsFit, UNCHANGED <<life, options>>, Up /\ Pushing => Pushing',
           \A d \in Docs : doc'[d].state = "open" =>
             doc'[d].functions = None \/
             (doc[d].state = "open" /\ doc'[d].functions = doc[d].functions)
    PROVE  FunctionsFit'
BY DEF FunctionsFit, Open, Up

LEMMA CalmFunctions ==
    ASSUME SessionInv, FunctionsFit, Calm, UNCHANGED options,
           \A t \in Tasks : IsPosted(t) => IsPosted(t)'
    PROVE  FunctionsFit'
<1>1. Pushing => Pushing'
  BY PushedGrows DEF Calm, Pushing
<1>. QED  BY <1>1, FunctionsKept DEF Calm, KeepDoc, ShowsLess

LEMMA HeadFunctions ==
    ASSUME SessionInv, FunctionsFit, queue # <<>>, UNCHANGED <<life, rpc, generation, options>>,
           Up =>
             \/ Done
             \/ Fails /\ ~(Current.kind = "configure" /\ Live(Current))
             \/ UNCHANGED posted /\ \E new \in Ops : Put(new) /\ SameButStep(new, Current),
           \A d \in Docs : doc'[d].state = doc[d].state /\ doc'[d].functions = doc[d].functions
    PROVE  FunctionsFit'
BY PushingStays, FunctionsKept

LEMMA BeginFunctions ==
    ASSUME SessionInv, FunctionsFit, Begin
    PROVE  FunctionsFit'
<1>. DEFINE op == Current
           still == UNCHANGED <<doc, server, news>>
<1>0. /\ queue # <<>> /\ UNCHANGED <<life, rpc, generation, options>>
      /\ doc \in [Docs -> Documents]
  BY BeginUp DEF SessionInv, SessionTypeOK
<1>1. CASE ~Up
  BY <1>0, <1>1 DEF FunctionsFit, Up
<1>2. CASE still /\ Done
  BY <1>0, <1>2, HeadFunctions
<1>3. CASE still /\ op.kind = "hover" /\ Fails
  BY <1>0, <1>3, HeadFunctions
<1>4. CASE still /\ \E new \in Ops : AskedAs(new)
  BY <1>0, <1>4, HeadFunctions DEF AskedAs
<1>5. CASE op.kind \in {"refresh", "hover"} /\ \E new \in Ops : SentUp(new)
  <2>1. \A d \in Docs : doc'[d].state = doc[d].state /\ doc'[d].functions = doc[d].functions
    BY <1>0, <1>5, DocOfHead DEF SentUp, Documents
  <2>. QED  BY <1>0, <1>5, <2>1, HeadFunctions DEF SentUp
<1>6. CASE Notifies
  <2>1. UNCHANGED <<doc, posted>> /\ \E new \in Ops : Put(new) /\ SameButStep(new, Current)
    BY <1>0, <1>6, NotifiesPuts DEF Notifies
  <2>. QED  BY <1>0, <2>1, HeadFunctions
<1>. QED  BY <1>1, <1>2, <1>3, <1>4, <1>5, <1>6, BeginUp

LEMMA OtherHeadFunctions ==
    ASSUME SessionInv, FunctionsFit, Notified \/ Synchronized \/ GiveUp
    PROVE  FunctionsFit'
<1>0. /\ queue # <<>> /\ UNCHANGED <<life, rpc, generation, options>>
      /\ doc \in [Docs -> Documents] /\ Current \in Ops /\ OpOk(Current)
  BY HeadServers, HeadOk DEF SessionInv, SessionTypeOK
<1>1. Current.step \in {"asked", "synchronizing"} => Current.kind \in {"refresh", "hover"}
  BY <1>0 DEF OpOk
<1>2. \A d \in Docs : doc'[d].state = doc[d].state /\ doc'[d].functions = doc[d].functions
  BY <1>0 DEF Notified, Synchronized, GiveUp, MarkSent, Documents
<1>3. Up =>
        \/ Done
        \/ Fails /\ ~(Current.kind = "configure" /\ Live(Current))
        \/ UNCHANGED posted /\ \E new \in Ops : Put(new) /\ SameButStep(new, Current)
  <2>1. CASE Notified
    BY <2>1, UpConn DEF Notified, Live
  <2>2. CASE GiveUp
    BY <1>1, <2>2 DEF GiveUp, At
  <2>3. CASE Synchronized /\ AskNext
    BY <1>0, <1>1, <2>3, AskCases DEF Synchronized, At, AskedAs
  <2>4. CASE Synchronized /\ Fails
    BY <1>1, <2>4 DEF Synchronized, At
  <2>. QED  BY <2>1, <2>2, <2>3, <2>4 DEF Synchronized
<1>. QED  BY <1>0, <1>2, <1>3, HeadFunctions

LEMMA AnsweredFunctions ==
    ASSUME SessionInv, AskedFit, FunctionsFit, Answered
    PROVE  FunctionsFit'
<1>0. /\ queue # <<>> /\ UNCHANGED <<life, rpc, generation, options>> /\ At("asked")
      /\ doc \in [Docs -> Documents] /\ Current \in Ops /\ OpOk(Current) /\ Done
  BY HeadServers, HeadOk DEF SessionInv, SessionTypeOK, Answered
<1>1. CASE UNCHANGED doc
  BY <1>0, <1>1, HeadFunctions
<1>2. CASE /\ Current.kind = "refresh" /\ Fresh(Current)
           /\ doc' = [doc EXCEPT ![Current.doc].functions = Current.answer]
  <2>1. Pushing => Pushing'
    BY <1>0, PushingStays
  <2>2. Current.answer # None /\ Up => Current.answer.settings = options \/ Pushing
    BY <1>0, <1>2 DEF Fresh, AskedFit, Pushing
  <2>3. \A d \in Docs : /\ doc'[d].state = doc[d].state
                        /\ doc'[d].functions = doc[d].functions \/ doc'[d].functions = Current.answer
    BY <1>0, <1>2 DEF Documents
  <2>. QED  BY <1>0, <2>1, <2>2, <2>3 DEF FunctionsFit, Open, Up
<1>. QED  BY <1>1, <1>2 DEF Answered

LEMMA RunPostedFunctions ==
    ASSUME SessionInv, FunctionsFit, NEW i \in DOMAIN posted, RunPosted(i)
    PROVE  FunctionsFit'
<1>. DEFINE k == posted[i]
<1>1. CASE ~Up
  BY <1>1 DEF RunPosted, clientVars, FunctionsFit, Up
<1>2. CASE Up
  <2>1. /\ \A t \in Tasks : IsPosted(t) => IsPosted(t)' \/ t = k
        /\ Calm /\ UNCHANGED <<life, options>>
        /\ k.kind = "configured" => \A d \in Open : doc'[d].functions = None
    BY <1>2, RunPostedCases DEF Up
  <2>2. CASE k.kind = "configured"
    BY <2>1, <2>2 DEF FunctionsFit, Open, Calm, KeepDoc
  <2>3. CASE k.kind # "configured"
    <3>1. Pushing => Pushing'
      BY <2>1, <2>3, PushedGrows DEF Calm, Pushing
    <3>. QED  BY <2>1, <3>1, FunctionsKept DEF Calm, KeepDoc, ShowsLess
  <2>. QED  BY <2>2, <2>3
<1>. QED  BY <1>1, <1>2

LEMMA NamingFunctions ==
    ASSUME SessionInv, FunctionsFit, NEW d \in Docs, NEW u \in Uris, NEW f \in BOOLEAN,
           CloseView(d) \/ Rename(d, u) \/ Register(d, u, f)
    PROVE  FunctionsFit'
<1>0. /\ UNCHANGED <<life, rpc, generation, options, posted>> /\ QueueGrows
      /\ doc \in [Docs -> Documents]
  BY NamingQueues DEF CloseView, Rename, Register, SessionInv, SessionTypeOK
<1>1. Pushing => Pushing'
  BY <1>0, PushedGrows DEF Pushing, IsPosted
<1>2. /\ \A e \in Docs : e # d => doc'[e] = doc[e]
      /\ doc'[d].state # "open" \/ doc'[d].functions = None
  <2>1. CASE CloseView(d)
    BY <1>0, <2>1 DEF CloseView, Documents
  <2>2. CASE Rename(d, u)
    BY <1>0, <2>2 DEF Rename, Documents, Cleared
  <2>3. CASE Register(d, u, f)
    BY <1>0, <2>3 DEF Register, Documents, SessionInv, DocsOk, NewDoc
  <2>. QED  BY <2>1, <2>2, <2>3
<1>. QED  BY <1>0, <1>1, <1>2, FunctionsKept

LEMMA ConfigureFunctions ==
    ASSUME SessionInv, NEW s \in Settings, Configure(s)
    PROVE  FunctionsFit'
<1>1. \A d \in Docs : doc'[d].state = "open" => doc'[d].functions = None
  BY ConfigureCalm DEF Calm, KeepDoc, ShowsNothing
<1>. QED  BY <1>1 DEF FunctionsFit, Open

LEMMA FunctionsNext ==
    ASSUME SessionInv, AskedFit, FunctionsFit, [Next]_vars
    PROVE  FunctionsFit'
<1>0. ASSUME Calm, UNCHANGED <<options, posted>> PROVE FunctionsFit'
  BY <1>0, CalmFunctions DEF IsPosted
<1>1. CASE UiThread
  <2>1. ASSUME NEW c \in Conns, Receive(c) PROVE FunctionsFit'
    <3>1. /\ UNCHANGED <<life, rpc, generation, options, posted>>
          /\ \A d \in Docs : doc'[d].state = doc[d].state /\ doc'[d].functions = doc[d].functions
      BY <2>1, ReceiveEffect
    <3>2. QueueGrows
      BY <2>1, ReceiveEffect, QueueSame
    <3>3. Pushing => Pushing'
      BY <3>1, <3>2, PushedGrows DEF Pushing, IsPosted
    <3>. QED  BY <3>1, <3>3, FunctionsKept
  <2>2. ASSUME NEW d \in Docs, Debounced(d) PROVE FunctionsFit'
    BY <1>0, <2>2, DebouncedCalm
  <2>. QED  BY <1>1, <2>1, <2>2, BeginFunctions, OtherHeadFunctions, RunPostedFunctions DEF UiThread
<1>2. CASE Answered
  BY <1>2, AnsweredFunctions
<1>3. CASE Editor
  <2>1. ASSUME NEW d \in Docs \cup {None}, Activate(d) PROVE FunctionsFit'
    BY <1>0, <2>1, ActivateCalm
  <2>2. ASSUME NEW d \in Docs, Edit(d) PROVE FunctionsFit'
    <3>1. Calm /\ UNCHANGED options /\ posted' = Append(posted, Task("changed", d, None))
      BY <2>2, EditCalm
    <3>2. Task("changed", d, None) \in Tasks
      BY TaskIs
    <3>3. \A t \in Tasks : IsPosted(t) => IsPosted(t)'
      BY <3>1, <3>2, PostedMore DEF SessionInv
    <3>. QED  BY <3>1, <3>3, CalmFunctions
  <2>3. ASSUME NEW d \in Docs, Hover(d) PROVE FunctionsFit'
    BY <1>0, <2>3, HoverCalm
  <2>4. ASSUME NEW s \in Settings, Configure(s) PROVE FunctionsFit'
    BY <2>4, ConfigureFunctions
  <2>5. ASSUME NEW d \in Docs, CloseView(d) PROVE FunctionsFit'
    <3>1. PICK u \in Uris : u = doc[d].uri
      BY <2>5 DEF CloseView, Open, SessionInv, DocsOk
    <3>. QED  BY <2>5, NamingFunctions
  <2>. QED  BY <1>3, <2>1, <2>2, <2>3, <2>4, <2>5, NamingFunctions DEF Editor
<1>4. CASE Lifecycle
  <2>1. CASE RequestStop \/ Die \/ Exit \/ \E c \in Conns : Launch(c)
    BY <2>1 DEF RequestStop, Die, Exit, Launch, FunctionsFit, Up
  <2>2. CASE Start
    <3>1. Stopped
      BY <2>2, StartEffect
    <3>2. \A d \in Docs : doc'[d].state = "open" => doc'[d].functions = None
      BY <3>1, StoppedDocs DEF ShowsNothing
    <3>. QED  BY <3>2 DEF FunctionsFit, Open
  <2>. QED  BY <1>4, <2>1, <2>2 DEF Lifecycle
<1>5. CASE UNCHANGED vars
  <2>1. QueueGrows /\ New = {}
    BY <1>5, QueueSame DEF vars
  <2>2. Calm
    BY <1>5, <2>1, SameDocs DEF vars, Calm
  <2>. QED  BY <1>0, <1>5, <2>2 DEF vars
<1>. QED  BY <1>1, <1>2, <1>3, <1>4, <1>5 DEF Next

-----------------------------------------------------------------------------
(* At rest.                                                                 *)

ShownInv ==
    /\ SettledInv /\ NewsIsLatest
    /\ ~reused => SummariesFit
    /\ ~missed => AskedFit /\ FunctionsFit

LEMMA ShownTells ==
    ASSUME ShownInv
    PROVE  ShownIsCurrent
<1>. USE DEF ShownInv, SettledInv
<1>. SUFFICES ASSUME AtRest, Up, NEW d \in Open
              PROVE  /\ ~reused => \A h \in Summaries(d) :
                          h.text = doc[d].text /\ (~missed => h.settings = options)
                     /\ ~missed =>
                          (doc[d].functions # None => doc[d].functions.settings = options)
  BY DEF ShownIsCurrent, Settled, Up, Summaries
<1>0. /\ DOMAIN queue = {} /\ DOMAIN posted = {} /\ rpc \in Conns /\ news[rpc] = <<>>
  BY UpConn DEF AtRest
<1>1. ~missed => InForce(server[rpc]) = options
  BY <1>0 DEF SettingsInv, PushFit
<1>2. /\ ~ToHandle("changed", d) /\ ~Pushing
      /\ About(doc[d].uri) = {}
  BY <1>0 DEF ToHandle, IsPosted, Pushing, Pushed, About
<1>3. ~reused => \A h \in Summaries(d) : h.text = doc[d].text /\ h.settings = InForce(server[rpc])
  BY <1>2 DEF SummariesFit
<1>4. ~missed => (doc[d].functions # None => doc[d].functions.settings = options)
  BY <1>2 DEF FunctionsFit
<1>. QED  BY <1>1, <1>3, <1>4

(* A server that starts, and one whose options change, forget what earlier  *)
(* ones missed.                                                             *)
LEMMA ShownFunctionsNext ==
    ASSUME SessionInv, ~missed => PushFit /\ AskedFit /\ FunctionsFit, ~missed', [Next]_vars
    PROVE  AskedFit' /\ FunctionsFit'
<1>1. CASE ~missed
  BY <1>1, AskedNext, FunctionsNext
<1>2. ASSUME NEW c \in Conns, Launch(c) PROVE AskedFit' /\ FunctionsFit'
  BY <1>2 DEF Launch, AskedFit, FunctionsFit, Up
<1>3. ASSUME NEW s \in Settings, Configure(s) PROVE AskedFit' /\ FunctionsFit'
  BY <1>3, ConfigureAsked, ConfigureFunctions
<1>. QED  BY <1>1, <1>2, <1>3, HistoryNext

LEMMA ShownNext ==
    ASSUME ShownInv, [Next]_vars
    PROVE  ShownInv'
<1>. USE DEF ShownInv, SettledInv
<1>1. SettledInv' /\ NewsIsLatest'
  BY SettledNext, NewsNext
<1>2. ASSUME ~reused' PROVE SummariesFit'
  BY <1>2, HistoryNext, SummariesNext
<1>3. ASSUME ~missed' PROVE AskedFit' /\ FunctionsFit'
  BY <1>3, ShownFunctionsNext DEF SettingsInv
<1>. QED  BY <1>1, <1>2, <1>3

(* Once there is nothing more to do, the summary and diagnostics an open    *)
(* document shows are of the text it has unless a name was given while its  *)
(* didClose was queued; and these, under the same condition, and its        *)
(* functions are scored with the options in force unless they changed while *)
(* the server initialized: whatever was edited, configured, renamed, closed,*)
(* started and stopped on the way (AnalysisSession.cs, ReceiveSummaryAsync, *)
(* ReceiveDiagnosticsAsync and Schedule).  Nothing is said of the text the  *)
(* functions are of.                                                        *)
THEOREM ShownIsAlwaysCurrent == Spec => []ShownIsCurrent
<1>1. Init => ShownInv
  <2>1. Init => NewsIsLatest /\ SummariesFit /\ AskedFit /\ FunctionsFit
    BY NewsInit, SummariesInit DEF Init, AskedFit, FunctionsFit, Up
  <2>. QED  BY <2>1, SettledInit DEF ShownInv
<1>2. ShownInv /\ [Next]_vars => ShownInv'
  BY ShownNext
<1>3. ShownInv => ShownIsCurrent
  BY ShownTells
<1>. QED  BY <1>1, <1>2, <1>3, PTL DEF Spec

-----------------------------------------------------------------------------
(* The commands and the server they ask for.                                *)

QueuedSteps == {"start", "stop", "stopping"}

RequestsTyped ==
    request \in [Requests -> [kind : {"none", "open", "start", "stop", "restart"},
                              step : {"none", "started", "stopped", "done"} \cup QueuedSteps,
                              transport : Transports]]

GateTyped == gate \in Seq(Requests)

LifecycleTypeOK ==
    /\ manuallyStopped \in BOOLEAN
    /\ transport \in Transports
    /\ RequestsTyped
    /\ GateTyped
    /\ loaded \in BOOLEAN
    /\ link \in {"none", "process", "exited", "debug"}

(* Who is in the queue, once, has not been served.                          *)
QueueIsSound ==
    /\ \A i \in 1 .. Len(gate) : request[gate[i]].step \in QueuedSteps
    /\ \A i, j \in 1 .. Len(gate) : gate[i] = gate[j] => i = j

(* Only a restart gets between its halves.                                  *)
StoppedIsRestart ==
    \A r \in Requests : request[r].step = "stopped" => request[r].kind = "restart"

StopAt(i) == request[gate[i]].kind = "stop"

StopIsLast ==
    manuallyStopped =>
        /\ ~Restarting
        /\ \A j \in 1 .. Len(gate) :
               request[gate[j]].step = "start" => \E i \in (j + 1) .. Len(gate) : StopAt(i)
        /\ Running => \E i \in 1 .. Len(gate) : StopAt(i)

LifecycleInv == LifecycleTypeOK /\ QueueIsSound /\ StoppedIsRestart /\ StopIsLast

-----------------------------------------------------------------------------
(* The queue                                                                *)

LEMMA Appended ==
    ASSUME GateTyped, NEW r \in Requests, gate' = Append(gate, r)
    PROVE  /\ GateTyped'
           /\ Len(gate') = Len(gate) + 1
           /\ \A i \in 1 .. Len(gate) : gate'[i] = gate[i]
           /\ gate'[Len(gate) + 1] = r
BY DEF GateTyped

LEMMA Served ==
    ASSUME GateTyped, gate # <<>>, gate' = Tail(gate)
    PROVE  /\ GateTyped'
           /\ Len(gate) > 0
           /\ Len(gate') = Len(gate) - 1
           /\ \A i \in 1 .. Len(gate') : gate'[i] = gate[i + 1]
           /\ Head(gate) = gate[1] /\ gate[1] \in Requests
BY DEF GateTyped

LEMMA Members ==
    ASSUME GateTyped
    PROVE  Len(gate) \in Nat /\ \A i \in 1 .. Len(gate) : gate[i] \in Requests
BY DEF GateTyped

(* A request that joins the queue was not in it.                            *)
LEMMA JoinsSoundly ==
    ASSUME LifecycleInv, NEW r \in Requests, NEW q,
           request[r].step \notin QueuedSteps,
           request' = [request EXCEPT ![r] = q], q.step \in QueuedSteps,
           gate' = Append(gate, r)
    PROVE  /\ GateTyped' /\ QueueIsSound'
           /\ \A i \in 1 .. Len(gate) :
                  gate'[i] = gate[i] /\ request'[gate'[i]] = request[gate[i]]
<1>1. GateTyped /\ RequestsTyped /\ QueueIsSound
  BY DEF LifecycleInv, LifecycleTypeOK
<1>2. /\ GateTyped' /\ Len(gate') = Len(gate) + 1 /\ Len(gate) \in Nat
      /\ \A i \in 1 .. Len(gate) : gate'[i] = gate[i] /\ gate[i] \in Requests
      /\ gate'[Len(gate) + 1] = r
  BY <1>1, Appended, Members
<1>3. \A i \in 1 .. Len(gate) : gate[i] # r
  BY <1>1 DEF QueueIsSound
<1>4. request'[r] = q /\ \A p \in Requests \ {r} : request'[p] = request[p]
  BY <1>1 DEF RequestsTyped
<1>5. \A i \in 1 .. Len(gate) :
          gate'[i] = gate[i] /\ request'[gate'[i]] = request[gate[i]]
  BY <1>2, <1>3, <1>4
<1>6. QueueIsSound'
  <2>1. \A i \in 1 .. Len(gate') : i \in 1 .. Len(gate) \/ i = Len(gate) + 1
    BY <1>2
  <2>2. \A i \in 1 .. Len(gate') : request'[gate'[i]].step \in QueuedSteps
    BY <1>1, <1>2, <1>4, <1>5, <2>1 DEF QueueIsSound
  <2>3. \A i, j \in 1 .. Len(gate') : gate'[i] = gate'[j] => i = j
    BY <1>1, <1>2, <1>3, <2>1 DEF QueueIsSound
  <2> QED BY <2>2, <2>3 DEF QueueIsSound
<1> QED BY <1>2, <1>5, <1>6

(* The holder of the semaphore moves on and lets it go.                     *)
LEMMA LeavesSoundly ==
    ASSUME LifecycleInv, NEW r \in Requests, NEW s,
           gate # <<>>, r = Head(gate),
           request' = [request EXCEPT ![r].step = s], gate' = Tail(gate)
    PROVE  /\ GateTyped' /\ QueueIsSound' /\ r = gate[1]
           /\ Len(gate) \in Nat /\ Len(gate) > 0 /\ Len(gate') = Len(gate) - 1
           /\ \A i \in 1 .. Len(gate') :
                  gate'[i] = gate[i + 1] /\ request'[gate'[i]] = request[gate[i + 1]]
<1>1. GateTyped /\ RequestsTyped /\ QueueIsSound
  BY DEF LifecycleInv, LifecycleTypeOK
<1>2. /\ GateTyped' /\ Len(gate) > 0 /\ Len(gate') = Len(gate) - 1 /\ Len(gate) \in Nat
      /\ \A i \in 1 .. Len(gate') : gate'[i] = gate[i + 1]
      /\ \A i \in 1 .. Len(gate) : gate[i] \in Requests
      /\ r = gate[1]
  BY <1>1, Served, Members
<1>3. \A i \in 1 .. Len(gate') : i + 1 \in 1 .. Len(gate) /\ gate[i + 1] # r
  BY <1>1, <1>2 DEF QueueIsSound
<1>4. \A p \in Requests \ {r} : request'[p] = request[p]
  BY <1>1 DEF RequestsTyped
<1>5. \A i \in 1 .. Len(gate') : request'[gate'[i]] = request[gate[i + 1]]
  BY <1>2, <1>3, <1>4
<1>6. QueueIsSound'
  BY <1>1, <1>2, <1>3, <1>5 DEF QueueIsSound
<1> QED BY <1>2, <1>5, <1>6

(* ... and a stop is still behind every start and server.                   *)
LEMMA LeavesStopLast ==
    ASSUME LifecycleInv, NEW r \in Requests, NEW s,
           gate # <<>>, r = Head(gate),
           request' = [request EXCEPT ![r].step = s], gate' = Tail(gate),
           UNCHANGED manuallyStopped,
           Running' => Running \/ request[r].step = "start",
           request[r].step \in {"stop", "stopping"} => ~Running'
    PROVE  StopIsLast'
<1> USE DEF LifecycleInv, LifecycleTypeOK
<1> SUFFICES ASSUME manuallyStopped
             PROVE  /\ ~Restarting'
                    /\ \A j \in 1 .. Len(gate') :
                           request'[gate'[j]].step = "start" =>
                               \E i \in (j + 1) .. Len(gate') : StopAt(i)'
                    /\ Running' => \E i \in 1 .. Len(gate') : StopAt(i)'
  BY DEF StopIsLast
<1>1. /\ r = gate[1] /\ Len(gate) \in Nat /\ Len(gate) > 0 /\ Len(gate') = Len(gate) - 1
      /\ \A i \in 1 .. Len(gate') : request'[gate'[i]] = request[gate[i + 1]]
  BY LeavesSoundly
<1>2. request[r].step \in QueuedSteps
  BY <1>1 DEF QueueIsSound
<1>3. ~Restarting'
  <2>1. ~Restarting
    BY DEF StopIsLast
  <2>2. \A q \in Requests : request'[q].kind = request[q].kind
                            /\ (q # r => request'[q].step = request[q].step)
    BY DEF RequestsTyped
  <2> QED BY <1>2, <2>1, <2>2 DEF Restarting, UnderWay, QueuedSteps
<1>4. \A i \in 2 .. Len(gate) : StopAt(i) => StopAt(i - 1)' /\ i - 1 \in 1 .. Len(gate')
  BY <1>1 DEF StopAt
<1>5. ASSUME NEW j \in 1 .. Len(gate'), request'[gate'[j]].step = "start"
      PROVE  \E i \in (j + 1) .. Len(gate') : StopAt(i)'
  <2>1. j + 1 \in 1 .. Len(gate) /\ request[gate[j + 1]].step = "start"
    <3>1. j + 1 \in 1 .. Len(gate)
      BY <1>1
    <3>2. request'[gate'[j]] = request[gate[j + 1]]
      BY <1>1
    <3> QED BY <1>5, <3>1, <3>2
  <2>2. PICK i \in (j + 2) .. Len(gate) : StopAt(i)
    BY <2>1 DEF StopIsLast
  <2>3. i - 1 \in (j + 1) .. Len(gate') /\ StopAt(i - 1)'
    BY <1>1, <1>4, <2>2
  <2> QED BY <2>3
<1>6. ASSUME Running' PROVE \E i \in 1 .. Len(gate') : StopAt(i)'
  <2>1. request[r].step = "start"
    BY <1>2, <1>6 DEF QueuedSteps
  <2>2. PICK i \in 2 .. Len(gate) : StopAt(i)
    BY <1>1, <2>1 DEF StopIsLast
  <2> QED BY <1>4, <2>2
<1> QED BY <1>3, <1>5, <1>6

-----------------------------------------------------------------------------
(* The requests                                                             *)

Kinds == {"none", "open", "start", "stop", "restart"}
Steps == {"none", "started", "stopped", "done"} \cup QueuedSteps

LEMMA Moved ==
    ASSUME RequestsTyped, StoppedIsRestart, NEW r \in Requests, NEW s \in Steps,
           request' = [request EXCEPT ![r].step = s],
           s = "stopped" => request[r].kind = "restart"
    PROVE  /\ RequestsTyped' /\ StoppedIsRestart'
           /\ request'[r].step = s /\ request'[r].kind = request[r].kind
           /\ \A q \in Requests \ {r} : request'[q] = request[q]
<1>1. request'[r] = [request[r] EXCEPT !.step = s]
      /\ \A q \in Requests \ {r} : request'[q] = request[q]
  BY DEF RequestsTyped
<1>2. request'[r].step = s /\ request'[r].kind = request[r].kind
  BY <1>1 DEF RequestsTyped
<1>3. RequestsTyped'
  BY DEF RequestsTyped, Steps
<1>4. StoppedIsRestart'
  BY <1>1, <1>2 DEF StoppedIsRestart
<1> QED BY <1>1, <1>2, <1>3, <1>4

(* A request made finds its place in the queue.                             *)
LEMMA Made ==
    ASSUME LifecycleInv, NEW k \in Kinds, NEW s \in {"start", "stop"}, NEW t \in Transports,
           Make(k, s, t)
    PROVE  /\ RequestsTyped' /\ StoppedIsRestart' /\ GateTyped' /\ QueueIsSound'
           /\ \E r \in Requests :
                 /\ request' = [request EXCEPT ![r] = [kind |-> k, step |-> s, transport |-> t]]
                 /\ gate' = Append(gate, r)
                 /\ \A i \in 1 .. Len(gate) :
                        gate'[i] = gate[i] /\ request'[gate'[i]] = request[gate[i]]
<1>1. PICK r \in Requests :
          /\ request[r] = Unmade
          /\ request' = [request EXCEPT ![r] = [kind |-> k, step |-> s, transport |-> t]]
          /\ gate' = Append(gate, r)
  BY DEF Make
<1> DEFINE q == [kind |-> k, step |-> s, transport |-> t]
<1>2. request[r].step \notin QueuedSteps /\ q.step \in QueuedSteps
  BY <1>1 DEF Unmade, QueuedSteps
<1>3. /\ GateTyped' /\ QueueIsSound'
      /\ \A i \in 1 .. Len(gate) :
             gate'[i] = gate[i] /\ request'[gate'[i]] = request[gate[i]]
  BY <1>1, <1>2, JoinsSoundly
<1>4. RequestsTyped /\ StoppedIsRestart
  BY DEF LifecycleInv, LifecycleTypeOK
<1>5. RequestsTyped'
  BY <1>1, <1>4 DEF RequestsTyped, Kinds, QueuedSteps
<1>6. StoppedIsRestart'
  BY <1>1, <1>4 DEF RequestsTyped, StoppedIsRestart
<1> QED BY <1>1, <1>3, <1>5, <1>6

(* The holder moves on, typed.                                              *)
LEMMA Leaves ==
    ASSUME LifecycleInv, NEW r \in Requests, NEW s \in Steps, NEW h, Holds(r, h),
           Moves(r, s), Release,
           s = "stopped" => request[r].kind = "restart",
           UNCHANGED manuallyStopped,
           Running' => Running \/ h = "start",
           h \in {"stop", "stopping"} => ~Running'
    PROVE  /\ RequestsTyped' /\ GateTyped'
           /\ QueueIsSound' /\ StoppedIsRestart' /\ StopIsLast'
<1>1. /\ gate # <<>> /\ r = Head(gate) /\ request[r].step = h
      /\ request' = [request EXCEPT ![r].step = s] /\ gate' = Tail(gate)
  BY DEF Holds, Moves, Release
<1>2. GateTyped' /\ QueueIsSound'
  BY <1>1, LeavesSoundly
<1>3. StopIsLast'
  BY <1>1, LeavesStopLast
<1>4. RequestsTyped' /\ StoppedIsRestart'
  BY <1>1, Moved DEF LifecycleInv, LifecycleTypeOK
<1> QED BY <1>2, <1>3, <1>4

-----------------------------------------------------------------------------
(* The steps                                                                *)

(* Everything a manual stop has to outlast, from the first state on and     *)
(* through every step (AnalysisPackage.cs, AnalysisLanguageClient.cs).      *)
LEMMA LifecycleInitial == LifecycleInit => LifecycleInv
<1> SUFFICES ASSUME LifecycleInit PROVE LifecycleInv
  OBVIOUS
<1> USE DEF LifecycleInit
<1>1. LifecycleTypeOK
  <2>1. RequestsTyped
    BY DEF RequestsTyped, Unmade, Transports
  <2>2. GateTyped
    BY DEF GateTyped
  <2> QED BY <2>1, <2>2 DEF LifecycleTypeOK, Transports
<1>2. QueueIsSound
  BY DEF QueueIsSound
<1>3. StoppedIsRestart
  BY DEF StoppedIsRestart, Unmade
<1>4. StopIsLast
  BY DEF StopIsLast
<1> QED BY <1>1, <1>2, <1>3, <1>4 DEF LifecycleInv

LEMMA LifecycleStep ==
    ~StopDuringRestart => (LifecycleInv /\ [LifecycleNext]_lifecycleVars => LifecycleInv')
<1> SUFFICES ASSUME ~StopDuringRestart, LifecycleInv, [LifecycleNext]_lifecycleVars
             PROVE  LifecycleInv'
  OBVIOUS
<1> USE DEF LifecycleInv, LifecycleTypeOK
<1>0. {"open", "start", "stop", "restart"} \subseteq Kinds
  BY DEF Kinds
<1>1. CASE EnsureStarted
  <2>1. RequestsTyped' /\ StoppedIsRestart' /\ GateTyped' /\ QueueIsSound'
    BY <1>0, <1>1, Made DEF EnsureStarted
  <2> QED BY <1>1, <2>1 DEF EnsureStarted, StopIsLast
<1>2. ASSUME NEW t \in Transports, StartCommand(t) PROVE LifecycleInv'
  <2>1. RequestsTyped' /\ StoppedIsRestart' /\ GateTyped' /\ QueueIsSound'
    BY <1>0, <1>2, Made DEF StartCommand
  <2> QED BY <1>2, <2>1 DEF StartCommand, StopIsLast
<1>3. CASE InvalidPort
  BY <1>3 DEF InvalidPort, StopIsLast, RequestsTyped, GateTyped, QueueIsSound, StoppedIsRestart
<1>4. CASE RestartCommand
  <2>1. RequestsTyped' /\ StoppedIsRestart' /\ GateTyped' /\ QueueIsSound'
    BY <1>0, <1>4, Made DEF RestartCommand
  <2> QED BY <1>4, <2>1 DEF RestartCommand, StopIsLast
<1>5. CASE StopCommand
  <2>1. /\ RequestsTyped' /\ StoppedIsRestart' /\ GateTyped' /\ QueueIsSound'
        /\ \E r \in Requests :
              /\ request' = [request EXCEPT
                                ![r] = [kind |-> "stop", step |-> "stop", transport |-> transport]]
              /\ gate' = Append(gate, r)
              /\ \A i \in 1 .. Len(gate) :
                     gate'[i] = gate[i] /\ request'[gate'[i]] = request[gate[i]]
    BY <1>0, <1>5, Made DEF StopCommand
  <2>2. PICK r \in Requests :
          /\ request' = [request EXCEPT
                            ![r] = [kind |-> "stop", step |-> "stop", transport |-> transport]]
          /\ gate' = Append(gate, r)
    BY <2>1
  <2>3. /\ Len(gate') = Len(gate) + 1 /\ Len(gate) \in Nat
        /\ gate'[Len(gate) + 1] = r
    BY <2>2, Appended, Members
  <2>4. request'[r].kind = "stop" /\ request'[r].step = "stop"
        /\ \A q \in Requests \ {r} : request'[q] = request[q]
    BY <2>2 DEF RequestsTyped
  <2>5. PICK n \in Nat : n = Len(gate')
    BY <2>3
  <2>6. StopAt(n)'
    BY <2>3, <2>4, <2>5 DEF StopAt
  <2>7. ~Restarting'
    BY <1>5, <2>4 DEF StopCommand, Restarting, UnderWay
  <2>8. ASSUME NEW j \in 1 .. Len(gate'), request'[gate'[j]].step = "start"
        PROVE  \E i \in (j + 1) .. Len(gate') : StopAt(i)'
    <3>1. j # n
      BY <2>3, <2>4, <2>5, <2>8
    <3>2. n \in (j + 1) .. Len(gate')
      BY <2>3, <2>5, <3>1
    <3> QED BY <2>6, <3>2
  <2>9. \E i \in 1 .. Len(gate') : StopAt(i)'
    <3>1. n \in 1 .. Len(gate')
      BY <2>3, <2>5
    <3> QED BY <2>6, <3>1
  <2>10. StopIsLast'
    BY <2>7, <2>8, <2>9 DEF StopIsLast
  <2> QED BY <1>5, <2>1, <2>10 DEF StopCommand
<1>6. ASSUME NEW r \in Requests, AlreadyRunning(r) PROVE LifecycleInv'
  <2>1. /\ RequestsTyped' /\ GateTyped'
        /\ QueueIsSound' /\ StoppedIsRestart' /\ StopIsLast'
    BY <1>6, Leaves DEF AlreadyRunning, Running, Steps
  <2> QED BY <1>6, <2>1 DEF AlreadyRunning
<1>7. ASSUME NEW r \in Requests, ActivateServer(r) PROVE LifecycleInv'
  <2>1. /\ RequestsTyped' /\ GateTyped'
        /\ QueueIsSound' /\ StoppedIsRestart' /\ StopIsLast'
    <3>1. PICK s \in Steps : Moves(r, s) /\ s # "stopped"
      BY <1>7 DEF ActivateServer, Steps
    <3> QED BY <1>7, <3>1, Leaves DEF ActivateServer
  <2> QED BY <1>7, <2>1 DEF ActivateServer
<1>8. ASSUME NEW r \in Requests, FailToActivate(r) PROVE LifecycleInv'
  <2>1. /\ RequestsTyped' /\ GateTyped'
        /\ QueueIsSound' /\ StoppedIsRestart' /\ StopIsLast'
    <3>1. PICK s \in Steps : Moves(r, s) /\ s # "stopped"
      BY <1>8 DEF FailToActivate, Steps
    <3> QED BY <1>8, <3>1, Leaves DEF FailToActivate
  <2> QED BY <1>8, <2>1 DEF FailToActivate
<1>9. ASSUME NEW r \in Requests, RememberTransport(r) PROVE LifecycleInv'
  <2>1. /\ RequestsTyped' /\ StoppedIsRestart'
        /\ request'[r].step = "done" /\ request'[r].kind = request[r].kind
        /\ \A q \in Requests \ {r} : request'[q] = request[q]
    BY <1>9, Moved DEF RememberTransport, Moves, Steps
  <2>2. request[r].transport \in Transports
    BY DEF RequestsTyped
  <2>3. \A i \in 1 .. Len(gate) : gate[i] \in Requests \ {r}
    BY <1>9, Members DEF RememberTransport, QueueIsSound, QueuedSteps
  <2>4. QueueIsSound'
    BY <1>9, <2>1, <2>3 DEF RememberTransport, QueueIsSound
  <2>5. StopIsLast'
    BY <1>9, <2>1, <2>3
    DEF RememberTransport, StopIsLast, StopAt, Running, Restarting, UnderWay
  <2> QED BY <1>9, <2>1, <2>2, <2>4, <2>5 DEF RememberTransport, GateTyped
<1>10. ASSUME NEW r \in Requests, NotRunning(r) PROVE LifecycleInv'
  <2>1. AfterStop(r) \in Steps /\ (AfterStop(r) = "stopped" => request[r].kind = "restart")
    BY DEF AfterStop, Steps
  <2>2. ~Running'
    BY <1>10 DEF NotRunning, Running
  <2>3. /\ RequestsTyped' /\ GateTyped'
        /\ QueueIsSound' /\ StoppedIsRestart' /\ StopIsLast'
    BY <1>10, <2>1, <2>2, Leaves DEF NotRunning
  <2> QED BY <1>10, <2>3 DEF NotRunning
<1>11. ASSUME NEW r \in Requests, EndStop(r) PROVE LifecycleInv'
  <2>1. PICK s \in Steps : Moves(r, s) /\ (s = "stopped" => request[r].kind = "restart")
    BY <1>11 DEF EndStop, AfterStop, Steps
  <2>2. ~Running'
    BY <1>11 DEF EndStop, Running
  <2>3. /\ RequestsTyped' /\ GateTyped'
        /\ QueueIsSound' /\ StoppedIsRestart' /\ StopIsLast'
    BY <1>11, <2>1, <2>2, Leaves DEF EndStop
  <2> QED BY <1>11, <2>3 DEF EndStop
<1>12. ASSUME NEW r \in Requests, BeginStop(r) PROVE LifecycleInv'
  <2>1. /\ RequestsTyped' /\ StoppedIsRestart'
        /\ request'[r].step = "stopping" /\ request'[r].kind = request[r].kind
        /\ \A q \in Requests \ {r} : request'[q] = request[q]
    BY <1>12, Moved DEF BeginStop, Moves, Steps, QueuedSteps
  <2>2. QueueIsSound'
    BY <1>12, <2>1, Members DEF BeginStop, QueueIsSound, QueuedSteps
  <2>3. StopIsLast'
    <3> SUFFICES ASSUME manuallyStopped PROVE StopIsLast'
      BY <1>12 DEF BeginStop, StopIsLast
    <3>1. gate' = gate /\ link' = link /\ manuallyStopped' = manuallyStopped
          /\ request[r].step = "stop"
      BY <1>12 DEF BeginStop, Holds
    <3>2. \A i \in 1 .. Len(gate) : StopAt(i)' <=> StopAt(i)
      BY <2>1, <3>1, Members DEF StopAt
    <3>3. \A i \in 1 .. Len(gate) :
              request'[gate[i]].step = "start" => request[gate[i]].step = "start"
      BY <2>1, Members
    <3>4. ~Restarting'
      BY <2>1, <3>1 DEF StopIsLast, Restarting, UnderWay
    <3>5. ASSUME NEW j \in 1 .. Len(gate), request'[gate[j]].step = "start"
          PROVE  \E i \in (j + 1) .. Len(gate) : StopAt(i)'
      <4>1. PICK i \in (j + 1) .. Len(gate) : StopAt(i)
        BY <3>3, <3>5 DEF StopIsLast
      <4>2. i \in 1 .. Len(gate)
        BY <4>1, Members
      <4> QED BY <3>2, <4>1, <4>2
    <3>6. ASSUME Running' PROVE \E i \in 1 .. Len(gate) : StopAt(i)'
      BY <3>1, <3>2, <3>6 DEF StopIsLast, Running
    <3> QED BY <3>1, <3>4, <3>5, <3>6 DEF StopIsLast
  <2> QED BY <1>12, <2>1, <2>2, <2>3 DEF BeginStop, GateTyped
<1>13. ASSUME NEW r \in Requests, StartAgain(r) PROVE LifecycleInv'
  <2>1. request[r].kind = "restart" /\ request[r].step = "stopped"
    BY <1>13 DEF StartAgain, StoppedIsRestart
  <2>2. ~manuallyStopped
    BY <2>1 DEF StopIsLast, Restarting, UnderWay
  <2>3. PICK q : /\ q = [request[r] EXCEPT !.step = "start", !.transport = transport]
                 /\ request' = [request EXCEPT ![r] = q]
    BY <1>13 DEF StartAgain
  <2>4. q = [kind |-> "restart", step |-> "start", transport |-> transport]
    BY <2>1, <2>3 DEF RequestsTyped
  <2>5. GateTyped' /\ QueueIsSound'
    BY <1>13, <2>1, <2>3, <2>4, JoinsSoundly DEF StartAgain, QueuedSteps
  <2>6. RequestsTyped'
    BY <2>3, <2>4 DEF RequestsTyped, QueuedSteps
  <2>7. StoppedIsRestart'
    BY <2>3, <2>4 DEF StoppedIsRestart, RequestsTyped
  <2> QED BY <1>13, <2>2, <2>5, <2>6, <2>7 DEF StartAgain, StopIsLast
<1>14. CASE InitializeFails
  BY <1>14
  DEF InitializeFails, RequestsTyped, GateTyped, QueueIsSound, StoppedIsRestart, StopIsLast,
      Running, StopAt, Restarting, UnderWay
<1>15. CASE ProcessExits
  BY <1>15
  DEF ProcessExits, RequestsTyped, GateTyped, QueueIsSound, StoppedIsRestart, StopIsLast,
      Running, StopAt, Restarting, UnderWay
<1>16. CASE UNCHANGED lifecycleVars
  BY <1>16
  DEF lifecycleVars, RequestsTyped, GateTyped, QueueIsSound, StoppedIsRestart, StopIsLast,
      Running, StopAt, Restarting, UnderWay
<1> QED
  BY <1>1, <1>2, <1>3, <1>4, <1>5, <1>6, <1>7, <1>8, <1>9, <1>10, <1>11, <1>12, <1>13,
     <1>14, <1>15, <1>16
  DEF LifecycleNext, Commands, Proceed

(* As long as no stop is asked for while a restart is under way, a manual   *)
(* stop holds, with any number of editors, starts and restarts queued       *)
(* around it in any order (EnsureStartedAsync, RunCommand and the two       *)
(* Request...Async; the run manual_stop shows why the condition is needed). *)
THEOREM ManualStop ==
    ASSUME ~StopDuringRestart
    PROVE  LifecycleSpec => []ManualStopHolds
<1>1. LifecycleInv => ManualStopHolds
  <2> SUFFICES ASSUME LifecycleInv, UnderWay = {}, manuallyStopped, Running PROVE FALSE
    BY DEF ManualStopHolds
  <2>1. PICK i \in 1 .. Len(gate) : StopAt(i)
    BY DEF LifecycleInv, StopIsLast
  <2>2. gate[i] \in UnderWay
    BY Members DEF LifecycleInv, LifecycleTypeOK, QueueIsSound, QueuedSteps, UnderWay
  <2> QED BY <2>2
<1>2. LifecycleInv /\ [LifecycleNext]_lifecycleVars => LifecycleInv'
  BY LifecycleStep
<1> QED BY <1>1, <1>2, LifecycleInitial, PTL DEF LifecycleSpec

=============================================================================
