----------------------- MODULE AnalysisSessionProofs ------------------------
(***************************************************************************)
(* The Visual Studio client's session (AnalysisSession.cs) for any number  *)
(* of documents, names, settings and connections: its types, and what holds*)
(* of its queue, its posted tasks and the servers it has started.          *)
(*                                                                         *)
(* The argument: a connection is known by its number and an epoch by       *)
(* `generation', both of which only grow, and what is queued or posted     *)
(* carries the ones it was made under (OpOk, TaskOk).  An answer is kept   *)
(* only if its epoch is the present one, by when its connection can only be*)
(* the present one too (the last conjunct of OpOk): so nothing that is     *)
(* shown came across a restart.  Every step is one of a few kinds: one of  *)
(* the editor's, which at most adds to the queue and the posted tasks      *)
(* (EditorStep); one of the queue's head, which changes nothing else of    *)
(* the queue (HeadStep); or one of the server's lifecycle.                 *)
(*                                                                         *)
(* And what the server ends up with, of the documents and settings.  That  *)
(* it is right when all is done takes an invariant of what is under        *)
(* way.  Names are given and closed in order (NamesInv).  A server knows   *)
(* of a document what was last sent to it, and nothing that is not open or *)
(* about to be closed (KnownInv; of a new one, Blank).  A text it does not *)
(* know yet is on its way: a task is posted, the timer runs, a refresh is  *)
(* queued or the text is being sent (WillBeSent).  The last settings that  *)
(* are queued are those of now, or the server has them (SettingsInv).      *)
(***************************************************************************)
EXTENDS AnalysisSession, FiniteSetTheorems, SequenceTheorems, TLAPS

(* Types.                                                                   *)

Servers == [alive : BOOLEAN, docs : [Uris -> Texts \cup {None}],
            init : Settings \cup {None}, configured : Settings \cup {None}]
Documents == [state : {"unopened", "open", "closed"}, uri : Uris \cup {None}, text : Nat,
              sent : Nat \cup {None}, version : Nat, summary : Messages \cup {None},
              functions : Messages \cup {None}, diagnostics : Messages \cup {None}]
Ops == [kind : {"refresh", "hover", "close", "configure"}, doc : Docs \cup {None},
        uri : Uris \cup {None}, settings : Settings \cup {None},
        conn : Conns, epoch : Nat, then : {None, "renamed", "configured"},
        step : {"queued", "notifying", "synchronizing", "asked"},
        snapshot : Nat \cup {None}, sentUri : Uris \cup {None},
        answer : Messages \cup {None}, askEpoch : Nat \cup {None},
        askRevision : Nat \cup {None}]
Tasks == [kind : {"changed", "renamed", "configured", "disconnected"},
          doc : Docs \cup {None}, epoch : Nat \cup {None}]

SessionTypeOK ==
    /\ doc \in [Docs -> Documents]
    /\ active \in Docs \cup {None}
    /\ timer \subseteq Docs
    /\ rpc \in Conns \cup {None}
    /\ generation \in Nat /\ settingsRevision \in Nat
    /\ queue \in Seq(Ops)
    /\ posted \in Seq(Tasks)
    /\ options \in Settings
    /\ life \in {"off", "starting", "up", "stopping"}
    /\ server \in [Conns -> Servers]
    /\ news \in [Conns -> Seq(Messages)]

-----------------------------------------------------------------------------
(* The connection.                                                          *)

Launched == {c \in Conns : server[c].init # None}

ServersOk ==
    /\ \A c \in Conns : server[c].init = None => server[c] = NewServer
    /\ \A c \in Conns : server[c].alive => life # "off" /\ c = Newest
    /\ life # "off" =>
         Newest \in Launched /\ server[Newest].alive /\ \A b \in Launched : b <= Newest
    /\ \A c \in Conns : \A i \in DOMAIN news[c] : news[c][i].conn = c

RpcOk ==
    /\ rpc # None => rpc \in Launched
    /\ life = "up" => rpc = Newest
    /\ life = "stopping" => rpc = None
    /\ life = "starting" => rpc # Newest

DocsOk ==
    \A d \in Docs :
        /\ doc[d].state = "unopened" => doc[d] = NewDoc
        /\ doc[d].state # "unopened" => doc[d].uri \in Uris

WasOpened(d) == d \in Docs /\ doc[d].state # "unopened"

OpOk(op) ==
    /\ op.kind \in {"refresh", "hover"} => WasOpened(op.doc) /\ op.then = None
    /\ op.kind = "close" =>
         /\ op.uri \in Uris /\ op.then \in {None, "renamed"}
         /\ op.then = "renamed" => WasOpened(op.doc)
    /\ op.kind = "configure" => op.settings \in Settings /\ op.then = "configured"
    /\ op.step = "notifying" => op.kind \in {"close", "configure"}
    /\ op.step \in {"asked", "synchronizing"} =>
         /\ op.kind \in {"refresh", "hover"}
         /\ op.snapshot \in Nat /\ op.sentUri \in Uris
         /\ op.askEpoch \in Nat /\ op.askEpoch <= generation
    /\ op.epoch <= generation
    /\ op.conn \in Launched /\ (life = "starting" => op.conn # Newest)
    /\ op.step = "asked" /\ op.answer # None =>
         /\ op.answer.uri = op.sentUri /\ op.answer.conn = op.conn
         /\ op.askEpoch = generation /\ rpc # None => op.conn = rpc

InQueue(op) == \E i \in DOMAIN queue : queue[i] = op
OpsOk == \A op \in Ops : InQueue(op) => OpOk(op)
HeadOnly == \A i \in DOMAIN queue : queue[i].step # "queued" => i = 1

TaskOk(k) ==
    /\ k.kind \in {"changed", "renamed"} => WasOpened(k.doc)
    /\ k.kind = "disconnected" =>
         k.epoch \in Nat /\ k.epoch <= generation /\ (life = "up" => k.epoch # generation)

IsPosted(k) == \E i \in DOMAIN posted : posted[i] = k
TasksOk == \A k \in Tasks : IsPosted(k) => TaskOk(k)

TimerOk == \A d \in timer : WasOpened(d)

SessionInv ==
    /\ SessionTypeOK
    /\ ServersOk /\ RpcOk
    /\ DocsOk
    /\ OpsOk /\ HeadOnly
    /\ TasksOk
    /\ TimerOk

-----------------------------------------------------------------------------
(* Sequences.                                                               *)

LEMMA Permuted ==
    ASSUME NEW S, IsFiniteSet(S), NEW f \in SetToSeqs(S)
    PROVE  /\ f \in Seq(S)
           /\ \A s \in S : \E i \in DOMAIN f : f[i] = s
<1>. DEFINE n == Cardinality(S)
<1>1. n \in Nat /\ IsFiniteSet(1..n) /\ Cardinality(1..n) = n
  BY FS_CardinalityType, FS_Interval
<1>2. f \in [1..n -> S] /\ \A i, j \in 1..n : i # j => f[i] # f[j]
  BY DEF SetToSeqs
<1>3. f \in Injection(1..n, S)
  BY <1>2 DEF Injection, IsInjective
<1>4. f \in Surjection(1..n, S)
  BY <1>1, <1>3, FS_Injection
<1>. HIDE DEF n
<1>5. f \in Seq(S)
  BY <1>1, <1>2
<1>. QED  BY <1>2, <1>4, <1>5 DEF Surjection

LEMMA Imaged ==
    ASSUME NEW S, IsFiniteSet(S), NEW f, DOMAIN f = S
    PROVE  IsFiniteSet({f[s] : s \in S})
<1>. DEFINE T == {f[s] : s \in S}
           g == [s \in S |-> f[s]]
<1>1. g \in Surjection(S, T)
  BY DEF Surjection
<1>. HIDE DEF g
<1>. QED  BY <1>1, FS_Surjection

LEMMA Concatenated ==
    ASSUME NEW S, NEW a \in Seq(S), NEW b \in Seq(S)
    PROVE  /\ a \o b \in Seq(S) /\ Len(a) \in Nat /\ Len(b) \in Nat
           /\ DOMAIN a = 1..Len(a) /\ DOMAIN b = 1..Len(b)
           /\ DOMAIN (a \o b) = 1..Len(a) + Len(b)
           /\ \A i \in DOMAIN a : (a \o b)[i] = a[i]
           /\ \A i \in DOMAIN b : (a \o b)[Len(a) + i] = b[i]
<1>1. a \o b \in Seq(S) /\ Len(a \o b) = Len(a) + Len(b) /\ Len(a) \in Nat /\ Len(b) \in Nat
  BY ConcatProperties
<1>2. DOMAIN a = 1..Len(a) /\ DOMAIN b = 1..Len(b) /\ DOMAIN (a \o b) = 1..Len(a) + Len(b)
  BY <1>1
<1>3. \A i \in 1..Len(a) + Len(b) : (a \o b)[i] = IF i <= Len(a) THEN a[i] ELSE b[i - Len(a)]
  BY ConcatProperties
<1>4. \A i \in DOMAIN a : (a \o b)[i] = a[i]
  BY <1>1, <1>2, <1>3
<1>5. ASSUME NEW i \in DOMAIN b PROVE (a \o b)[Len(a) + i] = b[i]
  <2>1. Len(a) + i \in 1..Len(a) + Len(b) /\ ~(Len(a) + i <= Len(a)) /\ (Len(a) + i) - Len(a) = i
    BY <1>1, <1>2
  <2>. QED  BY <1>3, <2>1
<1>. QED  BY <1>1, <1>2, <1>4, <1>5

LEMMA Removed ==
    ASSUME NEW S, NEW s \in Seq(S), NEW i \in DOMAIN s
    PROVE  /\ RemoveAt(s, i) \in Seq(S)
           /\ \A j \in DOMAIN RemoveAt(s, i) : \E k \in DOMAIN s : k # i /\ RemoveAt(s, i)[j] = s[k]
           /\ \A k \in DOMAIN s : k # i => \E j \in DOMAIN RemoveAt(s, i) : RemoveAt(s, i)[j] = s[k]
<1>. DEFINE front == SubSeq(s, 1, i - 1)
           back == SubSeq(s, i + 1, Len(s))
<1>1. i \in 1..Len(s) /\ Len(s) \in Nat /\ DOMAIN s = 1..Len(s)
  OBVIOUS
<1>2. front \in Seq(S) /\ Len(front) = i - 1 /\ \A j \in 1..i - 1 : front[j] = s[j]
  BY <1>1
<1>3. back \in Seq(S) /\ Len(back) = Len(s) - i /\ \A j \in 1..Len(s) - i : back[j] = s[i + j]
  BY <1>1
<1>. HIDE DEF front, back
<1>4. /\ front \o back \in Seq(S) /\ DOMAIN (front \o back) = 1..Len(s) - 1
      /\ \A j \in 1..Len(s) - 1 : (front \o back)[j] = IF j < i THEN s[j] ELSE s[j + 1]
  <2>1. /\ front \o back \in Seq(S) /\ DOMAIN (front \o back) = 1..Len(s) - 1
        /\ \A j \in 1..i - 1 : (front \o back)[j] = front[j]
        /\ \A j \in 1..Len(s) - i : (front \o back)[(i - 1) + j] = back[j]
    <3>1. /\ front \o back \in Seq(S) /\ DOMAIN (front \o back) = 1..Len(front) + Len(back)
          /\ DOMAIN front = 1..Len(front) /\ DOMAIN back = 1..Len(back)
          /\ \A j \in DOMAIN front : (front \o back)[j] = front[j]
          /\ \A j \in DOMAIN back : (front \o back)[Len(front) + j] = back[j]
      <4>1. front \in Seq(S) /\ back \in Seq(S)
        BY <1>2, <1>3
      <4>. QED  BY <4>1, Concatenated
    <3>2. Len(front) + Len(back) = Len(s) - 1
      BY <1>1, <1>2, <1>3
    <3>. QED  BY <1>2, <1>3, <3>1, <3>2
  <2>2. ASSUME NEW j \in 1..Len(s) - 1, ~(j < i)
        PROVE  (front \o back)[j] = s[j + 1]
    <3>. DEFINE k == j - (i - 1)
    <3>1. k \in 1..Len(s) - i /\ (i - 1) + k = j /\ i + k = j + 1
      BY <1>1, <2>2
    <3>. HIDE DEF k
    <3>. QED  BY <1>3, <2>1, <3>1
  <2>3. ASSUME NEW j \in 1..Len(s) - 1, j < i
        PROVE  (front \o back)[j] = s[j]
    <3>1. j \in 1..i - 1
      BY <1>1, <2>3
    <3>. QED  BY <1>2, <2>1, <3>1
  <2>. QED  BY <2>1, <2>2, <2>3
<1>5. RemoveAt(s, i) = front \o back
  BY DEF RemoveAt, front, back
<1>. DEFINE r == front \o back
<1>. HIDE DEF r
<1>6. /\ \A j \in 1..Len(s) - 1 : r[j] = IF j < i THEN s[j] ELSE s[j + 1]
      /\ r \in Seq(S) /\ DOMAIN r = 1..Len(s) - 1
  BY <1>4 DEF r
<1>7. ASSUME NEW k \in DOMAIN s, k # i
      PROVE  \E j \in DOMAIN r : r[j] = s[k]
  <2>1. CASE k < i
    BY <1>1, <1>6, <2>1
  <2>2. CASE k > i
    <3>1. k - 1 \in DOMAIN r /\ r[k - 1] = s[k]
      BY <1>1, <1>6, <2>2
    <3>. QED  BY <3>1
  <2>. QED  BY <1>1, <1>7, <2>1, <2>2
<1>8. ASSUME NEW j \in DOMAIN r
      PROVE  \E k \in DOMAIN s : k # i /\ r[j] = s[k]
  <2>1. CASE j < i
    BY <1>1, <1>6, <2>1
  <2>2. CASE ~(j < i)
    <3>1. j + 1 \in DOMAIN s /\ r[j] = s[j + 1] /\ j + 1 # i
      BY <1>1, <1>6, <2>2
    <3>. QED  BY <3>1
  <2>. QED  BY <2>1, <2>2
<1>. QED  BY <1>5, <1>6, <1>7, <1>8 DEF r

(* What becomes of the queue.                                               *)
LEMMA AtHead ==
    ASSUME SessionTypeOK, queue # <<>>
    PROVE  /\ Len(queue) \in Nat \ {0} /\ DOMAIN queue = 1..Len(queue)
           /\ 1 \in DOMAIN queue /\ Current = queue[1] /\ Current \in Ops /\ InQueue(Current)
<1>1. queue \in Seq(Ops)
  BY DEF SessionTypeOK
<1>2. Len(queue) \in Nat \ {0} /\ DOMAIN queue = 1..Len(queue)
  BY <1>1
<1>3. Current = queue[1] /\ queue[1] \in Ops
  BY <1>1, <1>2 DEF Current
<1>. QED  BY <1>2, <1>3 DEF InQueue

LEMMA QueuePopped ==
    ASSUME SessionTypeOK, queue # <<>>, queue' = Tail(queue)
    PROVE  /\ queue' \in Seq(Ops)
           /\ \A i \in DOMAIN queue' : i + 1 \in DOMAIN queue /\ queue'[i] = queue[i + 1]
           /\ \A i \in DOMAIN queue : i # 1 => i - 1 \in DOMAIN queue' /\ queue'[i - 1] = queue[i]
           /\ \A op \in Ops : InQueue(op)' => InQueue(op)
<1>1. queue \in Seq(Ops)
  BY DEF SessionTypeOK
<1>2. /\ queue' \in Seq(Ops) /\ Len(queue) \in Nat \ {0}
      /\ DOMAIN queue = 1..Len(queue) /\ DOMAIN queue' = 1..Len(queue) - 1
      /\ \A i \in 1..Len(queue) - 1 : queue'[i] = queue[i + 1]
  BY <1>1
<1>3. \A i \in DOMAIN queue' : i + 1 \in DOMAIN queue /\ queue'[i] = queue[i + 1]
  BY <1>2
<1>4. ASSUME NEW i \in DOMAIN queue, i # 1
      PROVE  i - 1 \in DOMAIN queue' /\ queue'[i - 1] = queue[i]
  <2>1. i - 1 \in 1..Len(queue) - 1 /\ (i - 1) + 1 = i
    BY <1>2, <1>4
  <2>. QED  BY <1>2, <2>1
<1>. QED  BY <1>2, <1>3, <1>4 DEF InQueue

LEMMA QueuePut ==
    ASSUME SessionTypeOK, queue # <<>>, NEW new \in Ops, queue' = <<new>> \o Tail(queue)
    PROVE  /\ queue' \in Seq(Ops)
           /\ DOMAIN queue' = DOMAIN queue
           /\ queue'[1] = new
           /\ \A i \in DOMAIN queue : i # 1 => queue'[i] = queue[i]
           /\ \A op \in Ops : InQueue(op)' => InQueue(op) \/ op = new
<1>. DEFINE rest == Tail(queue)
<1>1. queue \in Seq(Ops)
  BY DEF SessionTypeOK
<1>2. /\ rest \in Seq(Ops) /\ Len(queue) \in Nat \ {0} /\ Len(rest) = Len(queue) - 1
      /\ DOMAIN queue = 1..Len(queue)
      /\ \A i \in 1..Len(queue) - 1 : rest[i] = queue[i + 1]
  BY <1>1
<1>3. <<new>> \in Seq(Ops) /\ Len(<<new>>) = 1 /\ <<new>>[1] = new
  OBVIOUS
<1>. HIDE DEF rest
<1>4. /\ queue' \in Seq(Ops) /\ DOMAIN queue' = 1..1 + Len(rest)
      /\ queue'[1] = new
      /\ \A i \in 1..Len(rest) : queue'[1 + i] = rest[i]
  <2>. DEFINE one == <<new>>
  <2>1. one \in Seq(Ops) /\ Len(one) = 1 /\ one[1] = new /\ queue' = one \o rest
    BY <1>3 DEF rest
  <2>. HIDE DEF one
  <2>2. /\ one \o rest \in Seq(Ops) /\ DOMAIN one = 1..Len(one) /\ DOMAIN rest = 1..Len(rest)
        /\ DOMAIN (one \o rest) = 1..Len(one) + Len(rest)
        /\ \A i \in DOMAIN one : (one \o rest)[i] = one[i]
        /\ \A i \in DOMAIN rest : (one \o rest)[Len(one) + i] = rest[i]
    BY <1>2, <2>1, Concatenated
  <2>3. /\ queue' \in Seq(Ops)
        /\ DOMAIN queue' = 1..1 + Len(rest)
    BY <2>1, <2>2
  <2>4. queue'[1] = new
    <3>1. 1 \in DOMAIN one
      BY <2>1, <2>2
    <3>. QED  BY <2>1, <2>2, <3>1
  <2>5. \A i \in 1..Len(rest) : queue'[1 + i] = rest[i]
    BY <2>1, <2>2
  <2>. QED  BY <2>3, <2>4, <2>5
<1>5. ASSUME NEW i \in DOMAIN queue, i # 1
      PROVE  queue'[i] = queue[i]
  <2>1. i - 1 \in 1..Len(rest) /\ 1 + (i - 1) = i /\ (i - 1) + 1 = i /\ i - 1 \in 1..Len(queue) - 1
    BY <1>2, <1>5
  <2>2. queue'[1 + (i - 1)] = rest[i - 1] /\ rest[i - 1] = queue[(i - 1) + 1]
    BY <1>2, <1>4, <2>1
  <2>. QED  BY <2>1, <2>2
<1>6. DOMAIN queue' = DOMAIN queue
  BY <1>2, <1>4
<1>. QED  BY <1>4, <1>5, <1>6 DEF InQueue

(* ops are queued behind the others.                                        *)
Queued(ops) ==
    /\ queue' \in Seq(Ops)
    /\ \A i \in DOMAIN queue : i \in DOMAIN queue' /\ queue'[i] = queue[i]
    /\ \A i \in DOMAIN ops :
         LET j == Len(queue) + i
         IN  /\ j \in DOMAIN queue' /\ queue'[j] = ops[i]
             /\ \A k \in DOMAIN queue : k < j
    /\ \A i \in DOMAIN queue' :
         i \in DOMAIN queue \/ \E j \in DOMAIN ops : i = Len(queue) + j
    /\ \A op \in Ops : InQueue(op)' => InQueue(op) \/ \E j \in DOMAIN ops : op = ops[j]

LEMMA QueueAppended ==
    ASSUME SessionTypeOK, NEW ops \in Seq(Ops), queue' = queue \o ops
    PROVE  Queued(ops)
<1>1. queue \in Seq(Ops)
  BY DEF SessionTypeOK
<1>2. /\ queue' \in Seq(Ops) /\ Len(queue) \in Nat /\ Len(ops) \in Nat
      /\ DOMAIN queue = 1..Len(queue) /\ DOMAIN ops = 1..Len(ops)
      /\ DOMAIN queue' = 1..Len(queue) + Len(ops)
      /\ \A i \in DOMAIN queue : queue'[i] = queue[i]
      /\ \A i \in DOMAIN ops : queue'[Len(queue) + i] = ops[i]
  BY <1>1, Concatenated
<1>3. ASSUME NEW i \in DOMAIN queue'
      PROVE  i \in DOMAIN queue \/ \E j \in DOMAIN ops : i = Len(queue) + j
  <2>1. CASE ~(i <= Len(queue))
    <3>1. i - Len(queue) \in DOMAIN ops /\ i = Len(queue) + (i - Len(queue))
      BY <1>2, <2>1
    <3>. QED  BY <3>1
  <2>. QED  BY <1>2, <2>1
<1>4. ASSUME NEW op \in Ops, InQueue(op)'
      PROVE  InQueue(op) \/ \E j \in DOMAIN ops : op = ops[j]
  BY <1>2, <1>3, <1>4 DEF InQueue
<1>. QED  BY <1>2, <1>3, <1>4 DEF Queued

LEMMA PostedMore ==
    ASSUME SessionTypeOK, NEW k \in Tasks, posted' = Append(posted, k)
    PROVE  /\ posted' \in Seq(Tasks)
           /\ \A t \in Tasks : IsPosted(t)' <=> IsPosted(t) \/ t = k
<1>1. posted \in Seq(Tasks)
  BY DEF SessionTypeOK
<1>2. /\ posted' \in Seq(Tasks) /\ Len(posted) \in Nat /\ DOMAIN posted = 1..Len(posted)
      /\ DOMAIN posted' = 1..Len(posted) + 1
      /\ \A i \in 1..Len(posted) : posted'[i] = posted[i]
      /\ posted'[Len(posted) + 1] = k
  BY <1>1
<1>3. \A t \in Tasks : IsPosted(t)' => IsPosted(t) \/ t = k
  BY <1>2 DEF IsPosted
<1>4. \A t \in Tasks : IsPosted(t) => IsPosted(t)'
  BY <1>2 DEF IsPosted
<1>5. \A t \in Tasks : t = k => IsPosted(t)'
  BY <1>2 DEF IsPosted
<1>. QED  BY <1>2, <1>3, <1>4, <1>5

LEMMA PostedLess ==
    ASSUME SessionTypeOK, NEW i \in DOMAIN posted, posted' = RemoveAt(posted, i)
    PROVE  /\ posted' \in Seq(Tasks) /\ posted[i] \in Tasks /\ IsPosted(posted[i])
           /\ \A t \in Tasks : IsPosted(t)' => IsPosted(t)
           /\ \A t \in Tasks : IsPosted(t) => IsPosted(t)' \/ t = posted[i]
<1>1. posted \in Seq(Tasks)
  BY DEF SessionTypeOK
<1>2. posted[i] \in Tasks
  BY <1>1
<1>3. /\ posted' \in Seq(Tasks)
      /\ \A j \in DOMAIN posted' : \E k \in DOMAIN posted : k # i /\ posted'[j] = posted[k]
      /\ \A k \in DOMAIN posted : k # i => \E j \in DOMAIN posted' : posted'[j] = posted[k]
  BY <1>1, Removed
<1>4. \A t \in Tasks : IsPosted(t)' => IsPosted(t)
  BY <1>3 DEF IsPosted
<1>5. \A t \in Tasks : IsPosted(t) => IsPosted(t)' \/ t = posted[i]
  BY <1>3 DEF IsPosted
<1>. QED  BY <1>2, <1>3, <1>4, <1>5 DEF IsPosted

-----------------------------------------------------------------------------
(* What keeps operations and continuations as they should be.               *)

Grows ==
    /\ \A d \in Docs : doc[d].state # "unopened" => doc'[d].state # "unopened"
    /\ generation' \in Nat /\ generation <= generation'
    /\ rpc' = None \/ rpc' = rpc \/ generation < generation'
    /\ Launched \subseteq Launched'
    /\ life' = "starting" => (life = "starting" /\ Newest' = Newest) \/ Newest' \notin Launched
    /\ life' = "up" => life = "up" \/ generation < generation'

LEMMA OpStaysOk ==
    ASSUME SessionTypeOK, Grows, NEW op \in Ops, OpOk(op)
    PROVE  OpOk(op)'
<1>1. generation \in Nat /\ generation' \in Nat /\ op.epoch \in Nat
  BY DEF Grows, SessionTypeOK, Ops
<1>2. \A d : WasOpened(d) => WasOpened(d)'
  BY DEF Grows, WasOpened
<1>3. op.epoch <= generation'
  BY <1>1 DEF Grows, OpOk
<1>4. op.step \in {"asked", "synchronizing"} =>
         /\ op.kind \in {"refresh", "hover"}
         /\ op.snapshot \in Nat /\ op.sentUri \in Uris
         /\ op.askEpoch \in Nat /\ op.askEpoch <= generation'
  BY <1>1 DEF Grows, OpOk
<1>5. op.conn \in Launched' /\ (life' = "starting" => op.conn # Newest')
  BY DEF Grows, OpOk
<1>6. op.step = "asked" /\ op.answer # None =>
         /\ op.answer.uri = op.sentUri /\ op.answer.conn = op.conn
         /\ op.askEpoch = generation' /\ rpc' # None => op.conn = rpc'
  BY <1>1 DEF Grows, OpOk
<1>7. /\ op.kind \in {"refresh", "hover"} => WasOpened(op.doc)' /\ op.then = None
      /\ op.kind = "close" => /\ op.uri \in Uris /\ op.then \in {None, "renamed"}
                              /\ op.then = "renamed" => WasOpened(op.doc)'
      /\ op.kind = "configure" => op.settings \in Settings /\ op.then = "configured"
      /\ op.step = "notifying" => op.kind \in {"close", "configure"}
  BY <1>2 DEF OpOk
<1>. QED  BY <1>3, <1>4, <1>5, <1>6, <1>7 DEF OpOk

LEMMA TaskStaysOk ==
    ASSUME SessionTypeOK, Grows, NEW k \in Tasks, TaskOk(k)
    PROVE  TaskOk(k)'
<1>1. generation \in Nat /\ generation' \in Nat
  BY DEF Grows, SessionTypeOK
<1>2. \A d : WasOpened(d) => WasOpened(d)'
  BY DEF Grows, WasOpened
<1>. QED  BY <1>1, <1>2 DEF Grows, TaskOk

LEMMA AllStayOk ==
    ASSUME SessionInv, Grows,
           \A op \in Ops : InQueue(op)' => InQueue(op) \/ OpOk(op)',
           \A k \in Tasks : IsPosted(k)' => IsPosted(k) \/ TaskOk(k)'
    PROVE  OpsOk' /\ TasksOk'
<1>1. ASSUME NEW op \in Ops, InQueue(op)'
      PROVE  OpOk(op)'
  BY <1>1, OpStaysOk DEF SessionInv, OpsOk
<1>2. ASSUME NEW k \in Tasks, IsPosted(k)'
      PROVE  TaskOk(k)'
  BY <1>2, TaskStaysOk DEF SessionInv, TasksOk
<1>3. OpsOk'
  BY <1>1 DEF OpsOk
<1>4. TasksOk'
  BY <1>2 DEF TasksOk
<1>. QED  BY <1>3, <1>4

LEMMA SameServers ==
    ASSUME ServersOk, RpcOk, UNCHANGED <<server, life, news, rpc>>
    PROVE  ServersOk' /\ RpcOk' /\ Launched' = Launched /\ Newest' = Newest
BY DEF ServersOk, RpcOk, Launched, Newest

(* New operations, and what is queued by them.                              *)
LEMMA OpMade ==
    ASSUME SessionTypeOK, rpc # None,
           NEW k \in {"refresh", "hover", "close", "configure"},
           NEW d \in Docs \cup {None}, NEW u \in Uris \cup {None}
    PROVE  Op(k, d, u) \in Ops
BY DEF Op, Ops, SessionTypeOK

LEMMA Enqueues ==
    ASSUME SessionTypeOK, HeadOnly, NEW ops, Enqueue(ops),
           rpc # None => ops \in Seq(Ops),
           \A j \in DOMAIN ops : ops[j].step = "queued"
    PROVE  /\ queue' \in Seq(Ops)
           /\ HeadOnly'
           /\ rpc # None => Queued(ops)
           /\ rpc = None => queue' = queue
           /\ \A op \in Ops : InQueue(op)' =>
                InQueue(op) \/ (rpc # None /\ \E j \in DOMAIN ops : op = ops[j])
<1>1. CASE rpc = None
  BY <1>1 DEF Enqueue, SessionTypeOK, HeadOnly, InQueue
<1>2. CASE rpc # None
  <2>1. Queued(ops)
    BY <1>2, QueueAppended DEF Enqueue
  <2>2. HeadOnly'
    BY <2>1 DEF Queued, HeadOnly
  <2>. QED  BY <1>2, <2>1, <2>2 DEF Queued
<1>. QED  BY <1>1, <1>2

LEMMA GrowsIfStill ==
    ASSUME SessionTypeOK, UNCHANGED <<rpc, generation, life, server>>,
           \A d \in Docs : doc[d].state # "unopened" => doc'[d].state # "unopened"
    PROVE  Grows
BY DEF Grows, SessionTypeOK, Launched, Newest

(* An action of the editor: it changes documents, and queues and posts.     *)
LEMMA EditorStep ==
    ASSUME SessionInv, UNCHANGED <<rpc, generation, life, server, news>>,
           doc' \in [Docs -> Documents],
           active' \in Docs \cup {None}, \A d \in timer' : d \in timer \/ WasOpened(d)',
           settingsRevision' \in Nat, options' \in Settings,
           \A d \in Docs : \/ doc'[d] = doc[d]
                           \/ doc'[d].state # "unopened" /\ doc'[d].uri \in Uris,
           NEW ops, Enqueue(ops), rpc # None => ops \in Seq(Ops),
           \A j \in DOMAIN ops : ops[j].step = "queued",
           rpc # None => \A op \in Ops : (\E j \in DOMAIN ops : op = ops[j]) => OpOk(op)',
           posted' \in Seq(Tasks),
           \A k \in Tasks : IsPosted(k)' => IsPosted(k) \/ TaskOk(k)'
    PROVE  SessionInv'
<1>1. SessionTypeOK /\ HeadOnly /\ ServersOk /\ RpcOk /\ DocsOk
  BY DEF SessionInv
<1>2. /\ queue' \in Seq(Ops) /\ HeadOnly'
      /\ \A op \in Ops : InQueue(op)' =>
           InQueue(op) \/ (rpc # None /\ \E j \in DOMAIN ops : op = ops[j])
  BY <1>1, Enqueues
<1>3. SessionTypeOK'
  BY <1>1, <1>2 DEF SessionTypeOK, WasOpened
<1>4. Grows
  BY <1>1, GrowsIfStill
<1>5. OpsOk' /\ TasksOk'
  BY <1>2, <1>4, AllStayOk
<1>6. ServersOk' /\ RpcOk'
  BY <1>1, SameServers
<1>7. DocsOk'
  BY <1>1, <1>3 DEF DocsOk, SessionTypeOK
<1>8. TimerOk'
  BY <1>1, <1>4 DEF SessionInv, TimerOk, SessionTypeOK, Grows, WasOpened
<1>. QED  BY <1>2, <1>3, <1>5, <1>6, <1>7, <1>8 DEF SessionInv

(* Operations that can be queued for the present connection.                *)
LEMMA NewOpOk ==
    ASSUME SessionInv, NEW op \in Ops, UNCHANGED <<rpc, generation, life, server>>,
           rpc # None, op.conn = rpc, op.epoch = generation, op.step = "queued",
           op.kind \in {"refresh", "hover"} => WasOpened(op.doc)' /\ op.then = None,
           op.kind = "close" => /\ op.uri \in Uris /\ op.then \in {None, "renamed"}
                                /\ op.then = "renamed" => WasOpened(op.doc)',
           op.kind = "configure" => op.settings \in Settings /\ op.then = "configured"
    PROVE  OpOk(op)'
BY DEF SessionInv, SessionTypeOK, RpcOk, OpOk, Launched, Newest

LEMMA RegisterKeeps ==
    ASSUME SessionInv, NEW d \in Docs, NEW u \in Uris, NEW f \in BOOLEAN, Register(d, u, f)
    PROVE  SessionInv'
<1>. DEFINE ops == IF f THEN <<Refresh(d), Refresh(d)>> ELSE <<Refresh(d)>>
<1>0. SessionTypeOK
  BY DEF SessionInv
<1>1. /\ doc' = [doc EXCEPT ![d].state = "open", ![d].uri = u]
      /\ active' \in Docs \cup {None} /\ Enqueue(ops)
      /\ UNCHANGED <<timer, rpc, generation, settingsRevision, posted, options, life, server, news>>
  BY <1>0 DEF Register, SessionTypeOK, sessionVars, clientVars, serverVars
<1>2. doc' \in [Docs -> Documents]
  BY ZenonT(60), <1>0, <1>1 DEF SessionTypeOK, Documents
<1>3. \A e \in Docs : \/ doc'[e] = doc[e]
                      \/ doc'[e].state # "unopened" /\ doc'[e].uri \in Uris
  BY <1>0, <1>1 DEF SessionTypeOK, Documents
<1>4. /\ rpc # None => ops \in Seq(Ops) /\ \A op \in Ops : (\E j \in DOMAIN ops : op = ops[j]) => OpOk(op)'
      /\ \A j \in DOMAIN ops : ops[j].step = "queued"
  <2>1. \A j \in DOMAIN ops : ops[j] = Refresh(d)
    OBVIOUS
  <2>2. Refresh(d).step = "queued"
    BY DEF Refresh, Op
  <2>3. ASSUME rpc # None PROVE Refresh(d) \in Ops
    BY <1>0, <2>3, OpMade DEF Refresh
  <2>4. ASSUME NEW op \in Ops, rpc # None, op = Refresh(d)
        PROVE  OpOk(op)'
    <3>1. /\ op.conn = rpc /\ op.epoch = generation /\ op.step = "queued"
          /\ op.kind = "refresh" /\ op.doc = d /\ op.then = None
      BY <2>4 DEF Refresh, Op
    <3>2. WasOpened(d)'
      BY <1>0, <1>1 DEF WasOpened, SessionTypeOK, Documents
    <3>. QED  BY <1>1, <2>4, <3>1, <3>2, NewOpOk
  <2>. QED  BY <2>1, <2>2, <2>3, <2>4
<1>5. posted' \in Seq(Tasks) /\ \A k \in Tasks : IsPosted(k)' => IsPosted(k)
  BY <1>0, <1>1 DEF SessionTypeOK, IsPosted
<1>. HIDE DEF ops
<1>. QED
  <2>1. timer' \subseteq timer /\ settingsRevision' \in Nat /\ options' \in Settings
    BY <1>0, <1>1 DEF SessionTypeOK
  <2>. QED  BY <1>1, <1>2, <1>3, <1>4, <1>5, <2>1, EditorStep

LEMMA OneEditorStep ==
    ASSUME SessionInv, UNCHANGED <<rpc, generation, life, server, news>>,
           doc' \in [Docs -> Documents],
           active' \in Docs \cup {None}, \A d \in timer' : d \in timer \/ WasOpened(d)',
           settingsRevision' \in Nat, options' \in Settings,
           \A d \in Docs : \/ doc'[d] = doc[d]
                           \/ doc'[d].state # "unopened" /\ doc'[d].uri \in Uris,
           NEW new, Enqueue(<<new>>) \/ UNCHANGED queue, new.step = "queued",
           rpc # None => new \in Ops,
           rpc # None => \A op \in Ops : op = new => OpOk(op)',
           posted' \in Seq(Tasks),
           \A k \in Tasks : IsPosted(k)' => IsPosted(k) \/ TaskOk(k)'
    PROVE  SessionInv'
<1>1. CASE Enqueue(<<new>>)
  <2>. DEFINE ops == <<new>>
  <2>1. /\ rpc # None => ops \in Seq(Ops)
        /\ \A j \in DOMAIN ops : ops[j].step = "queued"
        /\ rpc # None => \A op \in Ops : (\E j \in DOMAIN ops : op = ops[j]) => OpOk(op)'
        /\ Enqueue(ops)
    BY <1>1
  <2>. HIDE DEF ops
  <2>. QED  BY <2>1, EditorStep
<1>2. CASE UNCHANGED queue
  <2>. DEFINE ops == <<>>
  <2>1. Enqueue(ops)
    BY <1>2 DEF SessionInv, SessionTypeOK, Enqueue
  <2>2. /\ ops \in Seq(Ops)
        /\ \A j \in DOMAIN ops : ops[j].step = "queued"
        /\ \A op \in Ops : ~(\E j \in DOMAIN ops : op = ops[j])
    OBVIOUS
  <2>. HIDE DEF ops
  <2>. QED  BY <2>1, <2>2, EditorStep
<1>. QED  BY <1>1, <1>2

LEMMA RefreshOk ==
    ASSUME SessionInv, NEW d \in Docs, WasOpened(d)', UNCHANGED <<rpc, generation, life, server>>
    PROVE  /\ Refresh(d).step = "queued"
           /\ rpc # None => Refresh(d) \in Ops
           /\ rpc # None => \A op \in Ops : op = Refresh(d) => OpOk(op)'
<1>0. SessionTypeOK
  BY DEF SessionInv
<1>1. Refresh(d).step = "queued"
  BY DEF Refresh, Op
<1>2. ASSUME rpc # None PROVE Refresh(d) \in Ops
  BY <1>0, <1>2, OpMade DEF Refresh
<1>3. ASSUME rpc # None, NEW op \in Ops, op = Refresh(d)
      PROVE  OpOk(op)'
  <2>1. /\ op.conn = rpc /\ op.epoch = generation /\ op.step = "queued"
        /\ op.kind = "refresh" /\ op.doc = d /\ op.then = None
    BY <1>3 DEF Refresh, Op
  <2>. QED  BY <1>3, <2>1, NewOpOk
<1>. QED  BY <1>1, <1>2, <1>3

LEMMA SamePosted ==
    ASSUME SessionTypeOK, UNCHANGED posted
    PROVE  posted' \in Seq(Tasks) /\ \A k \in Tasks : IsPosted(k)' <=> IsPosted(k)
BY DEF SessionTypeOK, IsPosted

LEMMA ActivateKeeps ==
    ASSUME SessionInv, NEW d \in Docs \cup {None}, Activate(d)
    PROVE  SessionInv'
<1>0. SessionTypeOK
  BY DEF SessionInv
<1>1. /\ active' \in Docs \cup {None} /\ doc' = doc
      /\ timer' \subseteq timer /\ settingsRevision' \in Nat /\ options' \in Settings
      /\ UNCHANGED <<rpc, generation, posted, life, server, news>>
  BY <1>0 DEF Activate, SessionTypeOK, sessionVars, clientVars, serverVars
<1>2. posted' \in Seq(Tasks) /\ \A k \in Tasks : IsPosted(k)' => IsPosted(k)
  BY <1>0, <1>1, SamePosted
<1>3. doc' \in [Docs -> Documents]
  BY <1>0, <1>1 DEF SessionTypeOK
<1>4. CASE d \in Open
  <2>1. WasOpened(d)'
    BY <1>1, <1>4 DEF Open, WasOpened
  <2>2. Enqueue(<<Refresh(d)>>) \/ UNCHANGED queue
    BY DEF Activate
  <2>3. d \in Docs
    BY <1>4 DEF Open
  <2>4. /\ Refresh(d).step = "queued"
        /\ rpc # None => Refresh(d) \in Ops
        /\ rpc # None => \A op \in Ops : op = Refresh(d) => OpOk(op)'
    BY <1>1, <2>1, <2>3, RefreshOk
  <2>. QED  BY <1>1, <1>2, <1>3, <2>2, <2>4, OneEditorStep
<1>5. CASE d \notin Open
  <2>1. UNCHANGED queue
    BY <1>5, NoneAssumption DEF Activate, ActiveIn, Open
  <2>2. Enqueue(<<>>)
    BY <1>0, <2>1 DEF SessionTypeOK, Enqueue
  <2>. DEFINE ops == <<>>
  <2>3. /\ Enqueue(ops) /\ ops \in Seq(Ops)
        /\ \A j \in DOMAIN ops : ops[j].step = "queued"
        /\ \A op \in Ops : ~(\E j \in DOMAIN ops : op = ops[j])
    BY <2>2
  <2>. HIDE DEF ops
  <2>. QED  BY <1>1, <1>2, <1>3, <2>3, EditorStep
<1>. QED  BY <1>4, <1>5

LEMMA QuietEditorStep ==
    ASSUME SessionInv, UNCHANGED <<rpc, generation, life, server, news, queue>>,
           doc' \in [Docs -> Documents],
           active' \in Docs \cup {None}, \A d \in timer' : d \in timer \/ WasOpened(d)',
           settingsRevision' \in Nat, options' \in Settings,
           \A d \in Docs : \/ doc'[d] = doc[d]
                           \/ doc'[d].state # "unopened" /\ doc'[d].uri \in Uris,
           posted' \in Seq(Tasks),
           \A k \in Tasks : IsPosted(k)' => IsPosted(k) \/ TaskOk(k)'
    PROVE  SessionInv'
<1>. DEFINE ops == <<>>
<1>1. /\ Enqueue(ops) /\ ops \in Seq(Ops)
      /\ \A j \in DOMAIN ops : ops[j].step = "queued"
      /\ \A op \in Ops : ~(\E j \in DOMAIN ops : op = ops[j])
  BY DEF SessionInv, SessionTypeOK, Enqueue
<1>. HIDE DEF ops
<1>. QED  BY <1>1, EditorStep

LEMMA EditKeeps ==
    ASSUME SessionInv, NEW d \in Docs, Edit(d)
    PROVE  SessionInv'
<1>. DEFINE k == Task("changed", d, None)
<1>0. SessionTypeOK
  BY DEF SessionInv
<1>1. /\ active' \in Docs \cup {None} /\ doc' = [doc EXCEPT ![d].text = @ + 1]
      /\ timer' \subseteq timer /\ settingsRevision' \in Nat /\ options' \in Settings
      /\ UNCHANGED <<rpc, generation, queue, life, server, news>>
      /\ posted' = Append(posted, k) /\ doc[d].state = "open"
  BY <1>0 DEF Edit, Post, Open, SessionTypeOK, sessionVars, clientVars, serverVars
<1>2. doc' \in [Docs -> Documents]
  <2>1. doc[d] \in Documents /\ doc[d].text + 1 \in Nat
    BY <1>0 DEF SessionTypeOK, Documents
  <2>2. [doc[d] EXCEPT !.text = doc[d].text + 1] \in Documents
    BY <2>1 DEF Documents
  <2>. QED  BY <1>0, <1>1, <2>2 DEF SessionTypeOK
<1>3. \A e \in Docs : \/ doc'[e] = doc[e]
                      \/ doc'[e].state # "unopened" /\ doc'[e].uri \in Uris
  BY <1>0, <1>1 DEF SessionInv, SessionTypeOK, Documents, DocsOk
<1>4. k \in Tasks /\ k.kind = "changed" /\ k.doc = d
  BY DEF Task, Tasks
<1>. HIDE DEF k
<1>5. posted' \in Seq(Tasks) /\ \A t \in Tasks : IsPosted(t)' => IsPosted(t) \/ t = k
  BY <1>0, <1>1, <1>4, PostedMore
<1>6. ASSUME NEW t \in Tasks, t = k
      PROVE  TaskOk(t)'
  <2>1. WasOpened(d)'
    BY <1>0, <1>1 DEF WasOpened, SessionTypeOK, Documents
  <2>. QED  BY <1>4, <1>6, <2>1 DEF TaskOk
<1>7. \A t \in Tasks : IsPosted(t)' => IsPosted(t) \/ TaskOk(t)'
  BY <1>5, <1>6
<1>. QED  BY <1>1, <1>2, <1>3, <1>5, <1>7, QuietEditorStep

LEMMA RenameKeeps ==
    ASSUME SessionInv, NEW d \in Docs, NEW u \in Uris, Rename(d, u)
    PROVE  SessionInv'
<1>. DEFINE new == [Close(doc[d].uri) EXCEPT !.then = "renamed", !.doc = d]
<1>0. SessionTypeOK
  BY DEF SessionInv
<1>1. /\ active' \in Docs \cup {None}
      /\ doc' = [doc EXCEPT ![d] = [Cleared(@) EXCEPT !.uri = u, !.sent = None]]
      /\ timer' \subseteq timer /\ settingsRevision' \in Nat /\ options' \in Settings
      /\ UNCHANGED <<rpc, generation, posted, life, server, news>>
      /\ doc[d].state = "open" /\ Enqueue(<<new>>)
  BY <1>0 DEF Rename, Open, SessionTypeOK, sessionVars, clientVars, serverVars
<1>2. doc' \in [Docs -> Documents]
  BY ZenonT(60), <1>0, <1>1 DEF SessionTypeOK, Documents, Cleared
<1>3. \A e \in Docs : \/ doc'[e] = doc[e]
                      \/ doc'[e].state # "unopened" /\ doc'[e].uri \in Uris
  BY <1>0, <1>1 DEF SessionTypeOK, Documents, Cleared
<1>4. posted' \in Seq(Tasks) /\ \A k \in Tasks : IsPosted(k)' => IsPosted(k)
  BY <1>0, <1>1, SamePosted
<1>5. doc[d].uri \in Uris
  BY <1>1 DEF SessionInv, DocsOk
<1>6. /\ new.step = "queued" /\ new.kind = "close" /\ new.uri = doc[d].uri /\ new.then = "renamed"
      /\ new.doc = d /\ new.conn = rpc /\ new.epoch = generation
      /\ rpc # None => new \in Ops
  BY <1>0, <1>5 DEF Close, Op, Ops, SessionTypeOK
<1>. HIDE DEF new
<1>7. ASSUME rpc # None, NEW op \in Ops, op = new
      PROVE  OpOk(op)'
  <2>1. WasOpened(d)'
    BY <1>0, <1>1 DEF WasOpened, SessionTypeOK, Documents, Cleared
  <2>2. /\ op.conn = rpc /\ op.epoch = generation /\ op.step = "queued"
        /\ op.kind = "close" /\ op.uri \in Uris /\ op.then = "renamed" /\ WasOpened(op.doc)'
    BY <1>5, <1>6, <1>7, <2>1
  <2>. QED  BY <1>1, <1>7, <2>2, NewOpOk
<1>. QED  BY <1>1, <1>2, <1>3, <1>4, <1>6, <1>7, OneEditorStep

LEMMA CloseViewKeeps ==
    ASSUME SessionInv, NEW d \in Docs, CloseView(d)
    PROVE  SessionInv'
<1>. DEFINE new == Close(doc[d].uri)
<1>0. SessionTypeOK
  BY DEF SessionInv
<1>1. /\ active' \in Docs \cup {None}
      /\ doc' = [doc EXCEPT ![d].state = "closed"]
      /\ timer' \subseteq timer /\ settingsRevision' \in Nat /\ options' \in Settings
      /\ UNCHANGED <<rpc, generation, posted, life, server, news>>
      /\ doc[d].state = "open" /\ Enqueue(<<new>>)
  BY <1>0 DEF CloseView, Open, SessionTypeOK, sessionVars, clientVars, serverVars
<1>2. doc' \in [Docs -> Documents]
  BY ZenonT(60), <1>0, <1>1 DEF SessionTypeOK, Documents
<1>3. \A e \in Docs : \/ doc'[e] = doc[e]
                      \/ doc'[e].state # "unopened" /\ doc'[e].uri \in Uris
  BY <1>0, <1>1 DEF SessionInv, SessionTypeOK, Documents, DocsOk
<1>4. posted' \in Seq(Tasks) /\ \A k \in Tasks : IsPosted(k)' => IsPosted(k)
  BY <1>0, <1>1, SamePosted
<1>5. doc[d].uri \in Uris
  BY <1>1 DEF SessionInv, DocsOk
<1>6. /\ new.step = "queued" /\ new.kind = "close" /\ new.uri = doc[d].uri /\ new.then = None
      /\ new.conn = rpc /\ new.epoch = generation
      /\ rpc # None => new \in Ops
  BY <1>0, <1>5, NoneAssumption DEF Close, Op, Ops, SessionTypeOK
<1>. HIDE DEF new
<1>7. ASSUME rpc # None, NEW op \in Ops, op = new
      PROVE  OpOk(op)'
  <2>1. op.then # "renamed"
    BY <1>6, <1>7, NoneAssumption
  <2>2. /\ op.conn = rpc /\ op.epoch = generation /\ op.step = "queued"
        /\ op.kind = "close" /\ op.uri \in Uris /\ op.then = None
    BY <1>5, <1>6, <1>7
  <2>. QED  BY <1>1, <1>7, <2>1, <2>2, NewOpOk
<1>. QED  BY <1>1, <1>2, <1>3, <1>4, <1>6, <1>7, OneEditorStep

LEMMA HoverKeeps ==
    ASSUME SessionInv, NEW d \in Docs, Hover(d)
    PROVE  SessionInv'
<1>. DEFINE new == Op("hover", d, None)
<1>0. SessionTypeOK
  BY DEF SessionInv
<1>1. /\ active' \in Docs \cup {None} /\ doc' = doc
      /\ timer' \subseteq timer /\ settingsRevision' \in Nat /\ options' \in Settings
      /\ UNCHANGED <<rpc, generation, posted, life, server, news>>
      /\ doc[d].state = "open" /\ Enqueue(<<new>>)
  BY <1>0 DEF Hover, Open, SessionTypeOK, sessionVars, clientVars, serverVars
<1>2. posted' \in Seq(Tasks) /\ \A k \in Tasks : IsPosted(k)' => IsPosted(k)
  BY <1>0, <1>1, SamePosted
<1>3. doc' \in [Docs -> Documents]
  BY <1>0, <1>1 DEF SessionTypeOK
<1>4. /\ new.step = "queued" /\ new.kind = "hover" /\ new.doc = d /\ new.then = None
      /\ new.conn = rpc /\ new.epoch = generation
      /\ rpc # None => new \in Ops
  BY <1>0 DEF Op, Ops, SessionTypeOK
<1>. HIDE DEF new
<1>5. ASSUME rpc # None, NEW op \in Ops, op = new
      PROVE  OpOk(op)'
  <2>1. WasOpened(d)'
    BY <1>1 DEF WasOpened
  <2>2. /\ op.conn = rpc /\ op.epoch = generation /\ op.step = "queued"
        /\ op.kind = "hover" /\ WasOpened(op.doc)' /\ op.then = None
    BY <1>4, <1>5, <2>1
  <2>. QED  BY <1>1, <1>5, <2>2, NewOpOk
<1>. QED  BY <1>1, <1>2, <1>3, <1>4, <1>5, OneEditorStep

LEMMA AllClearedOk ==
    ASSUME SessionTypeOK
    PROVE  /\ AllCleared \in [Docs -> Documents]
           /\ \A d \in Docs : doc[d].state # "open" => AllCleared[d] = doc[d]
           /\ \A d \in Docs :
                /\ AllCleared[d].state = doc[d].state /\ AllCleared[d].uri = doc[d].uri
                /\ AllCleared[d].text = doc[d].text /\ AllCleared[d].sent = doc[d].sent
                /\ AllCleared[d].version = doc[d].version
BY ZenonT(60) DEF SessionTypeOK, AllCleared, Cleared, Documents, Open

LEMMA ConfigureKeeps ==
    ASSUME SessionInv, NEW s \in Settings, Configure(s)
    PROVE  SessionInv'
<1>. DEFINE new == [Op("configure", None, None) EXCEPT !.settings = s, !.then = "configured"]
<1>0. SessionTypeOK
  BY DEF SessionInv
<1>1. /\ active' \in Docs \cup {None} /\ doc' = AllCleared
      /\ timer' \subseteq timer /\ settingsRevision' \in Nat /\ options' \in Settings
      /\ UNCHANGED <<rpc, generation, posted, life, server, news>>
      /\ Enqueue(<<new>>)
  BY <1>0 DEF Configure, SessionTypeOK, serverVars
<1>2. posted' \in Seq(Tasks) /\ \A k \in Tasks : IsPosted(k)' => IsPosted(k)
  BY <1>0, <1>1, SamePosted
<1>3. doc' \in [Docs -> Documents]
  BY <1>0, <1>1, AllClearedOk
<1>4. \A e \in Docs : \/ doc'[e] = doc[e]
                      \/ doc'[e].state # "unopened" /\ doc'[e].uri \in Uris
  <2>1. \A e \in Docs : doc[e].state = "open" => doc[e].uri \in Uris
    BY DEF SessionInv, DocsOk
  <2>. QED  BY <1>0, <1>1, <2>1, AllClearedOk
<1>5. /\ new.step = "queued" /\ new.kind = "configure" /\ new.settings = s
      /\ new.then = "configured" /\ new.conn = rpc /\ new.epoch = generation
      /\ rpc # None => new \in Ops
  BY <1>0 DEF Op, Ops, SessionTypeOK
<1>. HIDE DEF new
<1>6. ASSUME rpc # None, NEW op \in Ops, op = new
      PROVE  OpOk(op)'
  <2>1. /\ op.conn = rpc /\ op.epoch = generation /\ op.step = "queued"
        /\ op.kind = "configure" /\ op.settings \in Settings /\ op.then = "configured"
    BY <1>5, <1>6
  <2>. QED  BY <1>1, <1>6, <2>1, NewOpOk
<1>. QED  BY <1>1, <1>2, <1>3, <1>4, <1>5, <1>6, OneEditorStep

LEMMA DebouncedKeeps ==
    ASSUME SessionInv, NEW d \in Docs, Debounced(d)
    PROVE  SessionInv'
<1>0. SessionTypeOK
  BY DEF SessionInv
<1>1. /\ active' \in Docs \cup {None} /\ doc' = doc
      /\ timer' \subseteq timer /\ settingsRevision' \in Nat /\ options' \in Settings
      /\ UNCHANGED <<rpc, generation, posted, life, server, news>>
      /\ Enqueue(<<Refresh(d)>>) /\ d \in timer
  BY <1>0 DEF Debounced, SessionTypeOK, sessionVars, clientVars, serverVars
<1>2. posted' \in Seq(Tasks) /\ \A k \in Tasks : IsPosted(k)' => IsPosted(k)
  BY <1>0, <1>1, SamePosted
<1>3. doc' \in [Docs -> Documents]
  BY <1>0, <1>1 DEF SessionTypeOK
<1>4. WasOpened(d)'
  BY <1>1 DEF SessionInv, TimerOk, WasOpened
<1>5. /\ Refresh(d).step = "queued"
      /\ rpc # None => Refresh(d) \in Ops
      /\ rpc # None => \A op \in Ops : op = Refresh(d) => OpOk(op)'
  BY <1>1, <1>4, RefreshOk
<1>. QED  BY <1>1, <1>2, <1>3, <1>5, OneEditorStep

LEMMA InitOk ==
    ASSUME Init
    PROVE  SessionInv
<1>1. options \in Settings
  BY FiniteAssumption DEF Init
<1>2. SessionTypeOK
  BY <1>1, NoneAssumption DEF Init, SessionTypeOK, NewDoc, NewServer, Documents, Servers
<1>3. ServersOk /\ RpcOk
  BY NoneAssumption DEF Init, ServersOk, RpcOk, NewServer, Launched
<1>4. DocsOk /\ HeadOnly /\ TimerOk
  BY DEF Init, DocsOk, NewDoc, HeadOnly, TimerOk
<1>5. OpsOk /\ TasksOk
  BY DEF Init, OpsOk, TasksOk, InQueue, IsPosted
<1>. QED  BY <1>2, <1>3, <1>4, <1>5 DEF SessionInv

-----------------------------------------------------------------------------
(* The life of a connection.                                                *)

NewestOf(f) == CHOOSE c \in Conns : f[c].init # None
                                     /\ \A b \in Conns : f[b].init # None => b <= c

LEMMA NewestIs ==
    ASSUME NEW f, NEW c \in Conns, f[c].init # None,
           \A b \in Conns : f[b].init # None => b <= c
    PROVE  NewestOf(f) = c
<1>. DEFINE N == NewestOf(f)
<1>1. N \in Conns /\ f[N].init # None /\ \A b \in Conns : f[b].init # None => b <= N
  BY DEF NewestOf
<1>. HIDE DEF N
<1>2. N <= c /\ c <= N /\ N \in Nat /\ c \in Nat
  BY <1>1, ConnsAssumption
<1>. QED  BY <1>2 DEF N

LEMMA SameInits ==
    ASSUME SessionInv, \A c \in Conns : server'[c].init = server[c].init
    PROVE  Launched' = Launched /\ (life # "off" => Newest' = Newest)
<1>1. Launched' = Launched
  BY DEF Launched
<1>2. ASSUME life # "off" PROVE Newest' = Newest
  <2>1. Newest \in Launched /\ \A b \in Launched : b <= Newest
    BY <1>2 DEF SessionInv, ServersOk
  <2>2. ASSUME NEW n, n = Newest PROVE NewestOf(server') = n
    BY <2>1, <2>2, NewestIs DEF Launched
  <2>3. Newest' = NewestOf(server')
    BY DEF Newest, NewestOf
  <2>. QED  BY <2>2, <2>3
<1>. QED  BY <1>1, <1>2

(* The connections stay, and their servers take in what they are sent.      *)
LEMMA SteadyServers ==
    ASSUME SessionInv, life' = life, rpc' = rpc,
           \A c \in Conns : /\ server'[c].init = server[c].init
                            /\ server'[c].alive = server[c].alive
                            /\ server[c].init = None => server'[c] = server[c],
           \A c \in Conns : \A i \in DOMAIN news'[c] : news'[c][i].conn = c
    PROVE  ServersOk' /\ RpcOk' /\ Launched' = Launched /\ (life # "off" => Newest' = Newest)
<1>1. Launched' = Launched /\ (life # "off" => Newest' = Newest)
  BY SameInits
<1>2. ServersOk'
  <2>1. /\ \A c \in Conns : server[c].init = None => server[c] = NewServer
        /\ \A c \in Conns : server[c].alive => life # "off" /\ c = Newest
        /\ life # "off" =>
             Newest \in Launched /\ server[Newest].alive /\ \A b \in Launched : b <= Newest
    BY DEF SessionInv, ServersOk
  <2>2. \A c \in Conns : server'[c].init = None => server'[c] = NewServer
    BY <2>1
  <2>3. \A c \in Conns : server'[c].alive => life' # "off" /\ c = Newest'
    BY <1>1, <2>1
  <2>4. life' # "off" => /\ Newest' \in Launched' /\ server'[Newest'].alive
                         /\ \A b \in Launched' : b <= Newest'
    BY <1>1, <2>1 DEF Launched
  <2>. QED  BY <2>2, <2>3, <2>4 DEF ServersOk, NewServer
<1>3. RpcOk'
  BY <1>1 DEF SessionInv, RpcOk
<1>. QED  BY <1>1, <1>2, <1>3

LEMMA DocsStayOk ==
    ASSUME SessionInv, doc' \in [Docs -> Documents],
           \A d \in Docs : \/ doc'[d] = doc[d]
                           \/ doc'[d].state # "unopened" /\ doc'[d].uri \in Uris
    PROVE  DocsOk' /\ \A d \in Docs : doc[d].state # "unopened" => doc'[d].state # "unopened"
BY DEF SessionInv, DocsOk

LEMMA StoppedOk ==
    ASSUME SessionInv, Stopped
    PROVE  /\ doc' \in [Docs -> Documents] /\ DocsOk'
           /\ generation' \in Nat /\ generation < generation'
           /\ \A d \in Docs : doc'[d].state = doc[d].state
<1>0. SessionTypeOK /\ generation \in Nat
  BY DEF SessionInv, SessionTypeOK
<1>1. \A d \in Docs : doc[d].state = "open" => doc[d].uri \in Uris
  BY DEF SessionInv, DocsOk
<1>2. doc' = [d \in Docs |-> IF d \in Open THEN [AllCleared[d] EXCEPT !.sent = None] ELSE doc[d]]
  BY DEF Stopped
<1>3. doc' \in [Docs -> Documents]
  <2>1. ASSUME NEW d \in Docs
        PROVE  [AllCleared[d] EXCEPT !.sent = None] \in Documents
    BY <1>0, AllClearedOk DEF Documents
  <2>. QED  BY <1>0, <1>2, <2>1 DEF SessionTypeOK
<1>4. \A d \in Docs : \/ doc'[d] = doc[d]
                      \/ doc'[d].state # "unopened" /\ doc'[d].uri \in Uris
  <2>1. ASSUME NEW d \in Docs, d \in Open
        PROVE  doc'[d].state = "open" /\ doc'[d].uri \in Uris
    BY <1>0, <1>1, <1>2, <2>1, AllClearedOk DEF Open, Documents
  <2>. QED  BY <1>2, <2>1
<1>5. \A d \in Docs : doc'[d].state = doc[d].state
  BY <1>0, <1>2, AllClearedOk DEF Documents
<1>. QED  BY <1>0, <1>3, <1>4, <1>5, DocsStayOk DEF Stopped

LEMMA TimerStaysOk ==
    ASSUME SessionInv, Grows, timer' \subseteq timer
    PROVE  TimerOk'
BY DEF SessionInv, TimerOk, SessionTypeOK, Grows, WasOpened

LEMMA LaunchKeeps ==
    ASSUME SessionInv, NEW c \in Conns, Launch(c)
    PROVE  SessionInv'
<1>0. SessionTypeOK /\ life = "off"
  BY DEF SessionInv, Launch
<1>1. /\ \A b \in Conns : server[b].init # None <=> b < c
      /\ server' = [server EXCEPT ![c].alive = TRUE, ![c].init = options]
      /\ life' = "starting"
      /\ UNCHANGED <<doc, active, timer, rpc, generation, settingsRevision, queue, posted,
                     options, news>>
  BY DEF Launch, sessionVars
<1>2. options \in Settings /\ options # None
  BY <1>0, NoneAssumption DEF SessionTypeOK
<1>3. server' \in [Conns -> Servers]
  BY <1>0, <1>1, <1>2 DEF SessionTypeOK, Servers
<1>4. SessionTypeOK'
  BY <1>0, <1>1, <1>3 DEF SessionTypeOK
<1>5. /\ server'[c].init = options /\ server'[c].alive
      /\ \A b \in Conns : b # c => server'[b] = server[b]
  BY <1>0, <1>1 DEF SessionTypeOK, Servers
<1>6. c \notin Launched
  BY <1>1, ConnsAssumption DEF Launched
<1>7. \A b \in Conns : server'[b].init # None => b <= c
  <2>1. ASSUME NEW b \in Conns, b # c, server'[b].init # None PROVE b <= c
    BY <1>1, <1>5, <2>1, ConnsAssumption
  <2>. QED  BY <2>1, ConnsAssumption
<1>8. Newest' = c
  <2>1. NewestOf(server') = c
    BY <1>2, <1>5, <1>7, NewestIs
  <2>. QED  BY <2>1 DEF Newest, NewestOf
<1>9. Launched \subseteq Launched' /\ c \in Launched' /\ \A b \in Launched' : b <= c
  BY <1>2, <1>5, <1>7 DEF Launched
<1>10. ServersOk'
  <2>1. \A b \in Conns : server[b].alive => FALSE
    BY <1>0 DEF SessionInv, ServersOk
  <2>. QED  BY <1>1, <1>2, <1>5, <1>8, <1>9, <2>1 DEF SessionInv, ServersOk
<1>11. RpcOk'
  BY <1>1, <1>6, <1>8, <1>9, ConnsAssumption DEF SessionInv, RpcOk
<1>12. Grows
  BY <1>0, <1>1, <1>6, <1>8, <1>9 DEF Grows, SessionTypeOK
<1>13. OpsOk' /\ TasksOk'
  BY <1>1, <1>12, AllStayOk DEF InQueue, IsPosted
<1>14. DocsOk' /\ HeadOnly' /\ TimerOk'
  BY <1>1 DEF SessionInv, DocsOk, HeadOnly, TimerOk, WasOpened
<1>. QED  BY <1>4, <1>10, <1>11, <1>13, <1>14 DEF SessionInv

LEMMA StartKeeps ==
    ASSUME SessionInv, Start
    PROVE  SessionInv'
<1>0. SessionTypeOK /\ HeadOnly /\ life = "starting"
  BY DEF SessionInv, Start
<1>1. /\ Stopped /\ rpc' = Newest /\ life' = "up"
      /\ UNCHANGED <<active, timer, settingsRevision, posted, options, server, news>>
  BY DEF Start, serverVars
<1>2. Newest \in Launched /\ Newest \in Conns
  BY <1>0 DEF SessionInv, ServersOk, Launched
<1>3. /\ doc' \in [Docs -> Documents] /\ DocsOk'
      /\ generation' \in Nat /\ generation < generation' /\ generation' = generation + 1
      /\ \A d \in Docs : doc'[d].state = doc[d].state
  BY <1>1, StoppedOk DEF Stopped
<1>. DEFINE made(d) == [Refresh(d) EXCEPT !.conn = Newest, !.epoch = generation + 1]
           S == {made(d) : d \in Open}
<1>4. PICK ops \in SetToSeqs(S) : queue' = queue \o ops
  BY DEF Start
<1>5. ASSUME NEW d \in Open
      PROVE  /\ made(d) \in Ops
             /\ made(d).kind = "refresh" /\ made(d).doc = d /\ made(d).then = None
             /\ made(d).step = "queued" /\ made(d).conn = Newest /\ made(d).epoch = generation'
  <2>1. d \in Docs
    BY DEF Open
  <2>. QED  BY <1>0, <1>2, <1>3, <2>1 DEF Refresh, Op, Ops, SessionTypeOK
<1>. HIDE DEF made
<1>6. IsFiniteSet(S)
  <2>. DEFINE f == [d \in Open |-> made(d)]
  <2>1. IsFiniteSet(Open)
    BY FiniteAssumption, FS_Subset DEF Open
  <2>2. IsFiniteSet({f[d] : d \in Open})
    BY <2>1, Imaged
  <2>3. {f[d] : d \in Open} = S
    OBVIOUS
  <2>. QED  BY <2>2, <2>3
<1>7. ops \in Seq(S) /\ \A s \in S : \E i \in DOMAIN ops : ops[i] = s
  BY <1>4, <1>6, Permuted
<1>8. S \subseteq Ops
  BY <1>5
<1>9. ops \in Seq(Ops) /\ \A i \in DOMAIN ops : \E d \in Open : ops[i] = made(d)
  BY <1>7, <1>8
<1>. HIDE DEF S
<1>10. \A i \in DOMAIN ops : ops[i].step = "queued"
  BY <1>5, <1>9
<1>11. \A i \in DOMAIN ops : \E d \in Open :
          /\ ops[i].kind = "refresh" /\ ops[i].doc = d /\ ops[i].then = None
          /\ ops[i].step = "queued" /\ ops[i].conn = Newest /\ ops[i].epoch = generation'
  BY <1>5, <1>9
<1>12. Queued(ops)
  BY <1>0, <1>4, <1>9, QueueAppended
<1>13. HeadOnly'
  BY <1>0, <1>10, <1>12 DEF Queued, HeadOnly
<1>14. SessionTypeOK'
  BY <1>0, <1>1, <1>2, <1>3, <1>12 DEF SessionTypeOK, Queued
<1>15. Grows
  BY <1>0, <1>1, <1>3 DEF Grows, SessionTypeOK, Launched, Newest
<1>16. Launched' = Launched /\ Newest' = Newest /\ ServersOk'
  BY <1>0, <1>1 DEF SessionInv, ServersOk, Launched, Newest
<1>17. RpcOk'
  BY <1>1, <1>2, <1>16 DEF RpcOk
<1>18. ASSUME NEW op \in Ops, NEW i \in DOMAIN ops, op = ops[i]
       PROVE  OpOk(op)'
  <2>1. PICK d \in Open :
          /\ op.kind = "refresh" /\ op.doc = d /\ op.then = None
          /\ op.step = "queued" /\ op.conn = Newest /\ op.epoch = generation'
    BY <1>11, <1>18
  <2>2. WasOpened(op.doc)'
    BY <1>3, <2>1 DEF WasOpened, Open
  <2>. QED  BY <1>1, <1>2, <1>3, <1>16, <2>1, <2>2 DEF OpOk
<1>19. \A op \in Ops : InQueue(op)' => InQueue(op) \/ OpOk(op)'
  BY <1>12, <1>18 DEF Queued
<1>20. OpsOk' /\ TasksOk'
  BY <1>1, <1>15, <1>19, AllStayOk DEF IsPosted
<1>21. TimerOk'
  BY <1>1, <1>15, TimerStaysOk
<1>. QED  BY <1>3, <1>13, <1>14, <1>16, <1>17, <1>20, <1>21 DEF SessionInv

(* The newest server ends: of its own accord or as it was asked to.         *)
Ended ==
    /\ server' = [server EXCEPT ![Newest] = [NewServer EXCEPT !.init = server[Newest].init]]
    /\ life' = "off"

LEMMA EndedOk ==
    ASSUME SessionInv, life # "off", Ended, UNCHANGED <<news, rpc>>
    PROVE  /\ server' \in [Conns -> Servers]
           /\ ServersOk' /\ RpcOk' /\ Launched' = Launched
<1>0. SessionTypeOK
  BY DEF SessionInv
<1>1. Newest \in Conns /\ server[Newest].init # None
  BY DEF SessionInv, ServersOk, Launched
<1>. DEFINE r == [NewServer EXCEPT !.init = server[Newest].init]
<1>2. r \in Servers /\ r.init = server[Newest].init /\ ~r.alive
  BY <1>0, <1>1 DEF SessionTypeOK, Servers, NewServer
<1>3. server' = [server EXCEPT ![Newest] = r]
  BY DEF Ended
<1>. HIDE DEF r
<1>4. server' \in [Conns -> Servers]
  BY <1>0, <1>2, <1>3 DEF SessionTypeOK
<1>5. /\ \A c \in Conns : server'[c].init = server[c].init
      /\ \A c \in Conns : c # Newest => server'[c] = server[c]
      /\ ~server'[Newest].alive
  BY <1>0, <1>1, <1>2, <1>3 DEF SessionTypeOK
<1>6. Launched' = Launched
  BY <1>5 DEF Launched
<1>7. \A c \in Conns : ~server'[c].alive
  BY <1>5 DEF SessionInv, ServersOk
<1>8. ServersOk'
  <2>1. \A c \in Conns : server'[c].init = None => server'[c] = NewServer
    <3>1. \A c \in Conns : server[c].init = None => server[c] = NewServer
      BY DEF SessionInv, ServersOk
    <3>. QED  BY <1>1, <1>5, <3>1
  <2>2. \A c \in Conns : \A i \in DOMAIN news'[c] : news'[c][i].conn = c
    BY DEF SessionInv, ServersOk
  <2>. QED  BY <1>7, <2>1, <2>2 DEF ServersOk, NewServer, Ended
<1>9. RpcOk'
  BY <1>6 DEF SessionInv, RpcOk, Ended
<1>. QED  BY <1>4, <1>6, <1>8, <1>9

LEMMA DieKeeps ==
    ASSUME SessionInv, Die
    PROVE  SessionInv'
<1>. DEFINE k == Task("disconnected", None, generation)
<1>0. SessionTypeOK /\ life # "off"
  BY DEF SessionInv, Die
<1>1. /\ Ended
      /\ posted' = Append(posted, k) \/ posted' = posted
      /\ UNCHANGED <<doc, active, timer, rpc, generation, settingsRevision, queue, options, news>>
  BY DEF Die, Ended, Post, sessionVars
<1>2. server' \in [Conns -> Servers] /\ ServersOk' /\ RpcOk' /\ Launched' = Launched
  BY <1>0, <1>1, EndedOk
<1>3. k \in Tasks /\ k.kind = "disconnected" /\ k.epoch = generation
  BY <1>0 DEF Task, Tasks, SessionTypeOK
<1>. HIDE DEF k
<1>4. posted' \in Seq(Tasks) /\ \A t \in Tasks : IsPosted(t)' => IsPosted(t) \/ t = k
  <2>1. CASE posted' = Append(posted, k)
    BY <1>0, <1>3, <2>1, PostedMore
  <2>2. CASE posted' = posted
    BY <1>0, <2>2, SamePosted
  <2>. QED  BY <1>1, <2>1, <2>2
<1>5. ASSUME NEW t \in Tasks, t = k
      PROVE  TaskOk(t)'
  BY <1>0, <1>1, <1>3, <1>5 DEF TaskOk, Ended, SessionTypeOK
<1>6. Grows
  BY <1>0, <1>1, <1>2 DEF Grows, SessionTypeOK, Ended
<1>7. OpsOk' /\ TasksOk'
  <2>1. \A op \in Ops : InQueue(op)' => InQueue(op)
    BY <1>1 DEF InQueue
  <2>2. \A t \in Tasks : IsPosted(t)' => IsPosted(t) \/ TaskOk(t)'
    BY <1>4, <1>5
  <2>. QED  BY <1>6, <2>1, <2>2, AllStayOk
<1>8. SessionTypeOK'
  BY <1>0, <1>1, <1>2, <1>4 DEF SessionTypeOK, Ended
<1>9. DocsOk' /\ HeadOnly' /\ TimerOk'
  BY <1>1 DEF SessionInv, DocsOk, HeadOnly, TimerOk, WasOpened
<1>. QED  BY <1>2, <1>7, <1>8, <1>9 DEF SessionInv

LEMMA ExitKeeps ==
    ASSUME SessionInv, Exit
    PROVE  SessionInv'
<1>0. SessionTypeOK /\ life # "off"
  BY DEF SessionInv, Exit
<1>1. /\ Ended
      /\ UNCHANGED <<doc, active, timer, rpc, generation, settingsRevision, queue, posted,
                     options, news>>
  BY DEF Exit, Ended, sessionVars
<1>2. server' \in [Conns -> Servers] /\ ServersOk' /\ RpcOk' /\ Launched' = Launched
  BY <1>0, <1>1, EndedOk
<1>3. Grows
  BY <1>0, <1>1, <1>2 DEF Grows, SessionTypeOK, Ended
<1>4. OpsOk' /\ TasksOk'
  BY <1>1, <1>3, AllStayOk DEF InQueue, IsPosted
<1>5. SessionTypeOK'
  BY <1>0, <1>1, <1>2 DEF SessionTypeOK, Ended
<1>6. DocsOk' /\ HeadOnly' /\ TimerOk'
  BY <1>1 DEF SessionInv, DocsOk, HeadOnly, TimerOk, WasOpened
<1>. QED  BY <1>2, <1>4, <1>5, <1>6 DEF SessionInv

LEMMA RequestStopKeeps ==
    ASSUME SessionInv, RequestStop
    PROVE  SessionInv'
<1>0. SessionTypeOK /\ life = "up"
  BY DEF SessionInv, RequestStop
<1>1. /\ Stopped /\ rpc' = None /\ life' = "stopping"
      /\ UNCHANGED <<active, timer, settingsRevision, queue, posted, options, server, news>>
  BY DEF RequestStop, serverVars
<1>2. /\ doc' \in [Docs -> Documents] /\ DocsOk'
      /\ generation' \in Nat /\ generation < generation'
      /\ \A d \in Docs : doc'[d].state = doc[d].state
  BY <1>1, StoppedOk
<1>3. Launched' = Launched /\ Newest' = Newest /\ ServersOk'
  BY <1>0, <1>1 DEF SessionInv, ServersOk, Launched, Newest
<1>4. RpcOk'
  BY <1>1 DEF RpcOk
<1>5. Grows
  BY <1>0, <1>1, <1>2, <1>3 DEF Grows, SessionTypeOK
<1>6. OpsOk' /\ TasksOk'
  BY <1>1, <1>5, AllStayOk DEF InQueue, IsPosted
<1>7. SessionTypeOK'
  BY <1>0, <1>1, <1>2 DEF SessionTypeOK
<1>8. HeadOnly'
  BY <1>1 DEF SessionInv, HeadOnly
<1>9. TimerOk'
  BY <1>1, <1>5, TimerStaysOk
<1>. QED  BY <1>2, <1>3, <1>4, <1>6, <1>7, <1>8, <1>9 DEF SessionInv

-----------------------------------------------------------------------------
(* Messages that arrive, and what the server takes in.                      *)

LEMMA Popped ==
    ASSUME NEW S, NEW s \in Seq(S), s # <<>>
    PROVE  /\ Head(s) \in S /\ Tail(s) \in Seq(S) /\ Head(s) = s[1]
           /\ DOMAIN s = 1..Len(s) /\ Len(s) \in Nat \ {0} /\ DOMAIN Tail(s) = 1..Len(s) - 1
           /\ \A i \in DOMAIN Tail(s) : i + 1 \in DOMAIN s /\ Tail(s)[i] = s[i + 1]
<1>1. Len(s) \in Nat \ {0} /\ DOMAIN s = 1..Len(s) /\ Head(s) = s[1] /\ Head(s) \in S
  OBVIOUS
<1>2. /\ Tail(s) \in Seq(S) /\ DOMAIN Tail(s) = 1..Len(s) - 1
      /\ \A i \in 1..Len(s) - 1 : Tail(s)[i] = s[i + 1]
  BY <1>1
<1>. QED  BY <1>1, <1>2

LEMMA ReceiveKeeps ==
    ASSUME SessionInv, NEW c \in Conns, Receive(c)
    PROVE  SessionInv'
<1>0. SessionTypeOK
  BY DEF SessionInv
<1>. DEFINE m == Head(news[c])
<1>1. /\ news[c] # <<>> /\ news' = [news EXCEPT ![c] = Tail(@)]
      /\ doc' = [d \in Docs |->
             IF d \notin Open \/ ~Accepts(m, d) THEN doc[d]
             ELSE [doc[d] EXCEPT !.summary = m,
                                 !.diagnostics = IF m.version = doc[d].version THEN m ELSE @]]
      /\ UNCHANGED <<active, timer, rpc, generation, settingsRevision, queue, posted, options,
                     life, server>>
  BY DEF Receive, sessionVars, clientVars
<1>2. /\ news[c] \in Seq(Messages) /\ m \in Messages /\ Tail(news[c]) \in Seq(Messages)
      /\ \A i \in DOMAIN Tail(news[c]) : i + 1 \in DOMAIN news[c] /\ Tail(news[c])[i] = news[c][i + 1]
  <2>1. news[c] \in Seq(Messages)
    BY <1>0 DEF SessionTypeOK
  <2>. QED  BY <1>1, <2>1, Popped
<1>. HIDE DEF m
<1>3. doc' \in [Docs -> Documents]
  <2>1. ASSUME NEW d \in Docs
        PROVE  [doc[d] EXCEPT !.summary = m,
                    !.diagnostics = IF m.version = doc[d].version THEN m ELSE @] \in Documents
    <3>. DEFINE x == IF m.version = doc[d].version THEN m ELSE doc[d].diagnostics
    <3>1. doc[d] \in Documents /\ x \in Messages \cup {None}
      BY <1>0, <1>2 DEF SessionTypeOK, Documents
    <3>2. [doc[d] EXCEPT !.summary = m, !.diagnostics = x] \in Documents
      <4>. HIDE DEF x
      <4>. QED  BY <1>2, <3>1 DEF Documents
    <3>. QED  BY <3>2
  <2>. QED  BY <1>0, <1>1, <2>1 DEF SessionTypeOK
<1>4. \A d \in Docs : \/ doc'[d] = doc[d]
                      \/ doc'[d].state # "unopened" /\ doc'[d].uri \in Uris
  <2>1. \A d \in Open : doc[d].uri \in Uris
    BY DEF SessionInv, DocsOk, Open
  <2>. QED  BY <1>0, <1>1, <2>1 DEF Open, SessionTypeOK, Documents
<1>5. DocsOk' /\ \A d \in Docs : doc[d].state # "unopened" => doc'[d].state # "unopened"
  BY <1>3, <1>4, DocsStayOk
<1>6. \A b \in Conns : \A i \in DOMAIN news'[b] : news'[b][i].conn = b
  <2>1. \A b \in Conns : \A i \in DOMAIN news[b] : news[b][i].conn = b
    BY DEF SessionInv, ServersOk
  <2>2. news'[c] = Tail(news[c]) /\ \A b \in Conns : b # c => news'[b] = news[b]
    BY <1>0, <1>1 DEF SessionTypeOK
  <2>3. \A i \in DOMAIN news'[c] : news'[c][i].conn = c
    BY <1>2, <2>1, <2>2
  <2>. QED  BY <2>1, <2>2, <2>3
<1>7. news' \in [Conns -> Seq(Messages)]
  BY <1>0, <1>1, <1>2 DEF SessionTypeOK
<1>8. ServersOk' /\ RpcOk'
  BY <1>1, <1>6, SteadyServers
<1>9. Grows
  BY <1>0, <1>1, <1>5, GrowsIfStill
<1>10. OpsOk' /\ TasksOk'
  BY <1>1, <1>9, AllStayOk DEF InQueue, IsPosted
<1>11. SessionTypeOK'
  BY <1>0, <1>1, <1>3, <1>7 DEF SessionTypeOK
<1>12. HeadOnly' /\ TimerOk'
  BY <1>1, <1>9, TimerStaysOk DEF SessionInv, HeadOnly
<1>. QED  BY <1>5, <1>8, <1>10, <1>11, <1>12 DEF SessionInv

(* The server of c becomes r, and says so of us.                            *)
TakesIn(c, r, us) ==
    /\ server' = [server EXCEPT ![c] = r]
    /\ \E said \in Seq(Messages) :
         /\ \A i \in DOMAIN said : \E u \in us : said[i] = Said(c, r, u)
         /\ \A u \in us : \E i \in DOMAIN said : said[i] = Said(c, r, u)
         /\ news' = [news EXCEPT ![c] = @ \o said]

LEMMA SaidOk ==
    ASSUME NEW c \in Conns, NEW r \in Servers, r.init # None,
           NEW u \in Uris, r.docs[u] # None
    PROVE  Said(c, r, u) \in Messages /\ Said(c, r, u).conn = c /\ Said(c, r, u).uri = u
<1>1. InForce(r) \in Settings
  BY DEF Servers, InForce
<1>2. r.docs[u] \in Texts
  BY DEF Servers
<1>. QED  BY <1>1, <1>2 DEF Said, Messages, Texts

LEMMA BecomesTakesIn ==
    ASSUME NEW c \in Conns, NEW r \in Servers, r.init # None, NEW us \in SUBSET Uris,
           \A u \in us : r.docs[u] # None, Becomes(c, r, us)
    PROVE  TakesIn(c, r, us)
<1>. DEFINE what(u) == Said(c, r, u)
           S == {what(u) : u \in us}
<1>1. PICK said \in SetToSeqs(S) : news' = [news EXCEPT ![c] = @ \o said]
  BY DEF Becomes
<1>2. \A u \in us : what(u) \in Messages
  BY SaidOk
<1>. HIDE DEF what
<1>3. IsFiniteSet(S)
  <2>. DEFINE f == [u \in us |-> what(u)]
  <2>1. IsFiniteSet(us)
    BY FiniteAssumption, FS_Subset
  <2>2. IsFiniteSet({f[u] : u \in us})
    BY <2>1, Imaged
  <2>3. {f[u] : u \in us} = S
    OBVIOUS
  <2>. QED  BY <2>2, <2>3
<1>4. said \in Seq(S) /\ \A s \in S : \E i \in DOMAIN said : said[i] = s
  BY <1>1, <1>3, Permuted
<1>5. S \subseteq Messages
  BY <1>2
<1>6. said \in Seq(Messages) /\ \A i \in DOMAIN said : \E u \in us : said[i] = what(u)
  BY <1>4, <1>5
<1>7. \A u \in us : \E i \in DOMAIN said : said[i] = what(u)
  BY <1>4
<1>. QED  BY <1>1, <1>6, <1>7 DEF what, Becomes, TakesIn

ServersSteady ==
    /\ server' \in [Conns -> Servers] /\ news' \in [Conns -> Seq(Messages)]
    /\ \A c \in Conns : /\ server'[c].init = server[c].init
                        /\ server'[c].alive = server[c].alive
                        /\ server[c].init = None => server'[c] = server[c]
    /\ \A c \in Conns : \A i \in DOMAIN news'[c] : news'[c][i].conn = c

LEMMA UnchangedSteady ==
    ASSUME SessionInv, UNCHANGED serverVars
    PROVE  ServersSteady
BY DEF SessionInv, SessionTypeOK, ServersOk, ServersSteady, serverVars

LEMMA TakesInSteady ==
    ASSUME SessionInv, NEW c \in Launched, NEW r \in Servers, NEW us \in SUBSET Uris,
           r.init = server[c].init, r.alive = server[c].alive,
           \A u \in us : r.docs[u] # None, TakesIn(c, r, us)
    PROVE  ServersSteady
<1>0. SessionTypeOK /\ c \in Conns /\ r.init # None
  BY DEF SessionInv, Launched
<1>1. PICK said \in Seq(Messages) :
         /\ \A i \in DOMAIN said : \E u \in us : said[i] = Said(c, r, u)
         /\ news' = [news EXCEPT ![c] = @ \o said]
  BY DEF TakesIn
<1>2. server' = [server EXCEPT ![c] = r]
  BY DEF TakesIn
<1>3. \A i \in DOMAIN said : said[i].conn = c
  BY <1>0, <1>1, SaidOk
<1>4. news[c] \in Seq(Messages)
  BY <1>0 DEF SessionTypeOK
<1>5. /\ news[c] \o said \in Seq(Messages)
      /\ \A i \in DOMAIN (news[c] \o said) : (news[c] \o said)[i].conn = c
  <2>. DEFINE before == news[c]
  <2>1. before \in Seq(Messages) /\ \A i \in DOMAIN before : before[i].conn = c
    BY <1>0, <1>4 DEF SessionInv, ServersOk
  <2>. HIDE DEF before
  <2>2. /\ before \o said \in Seq(Messages) /\ Len(before) \in Nat /\ Len(said) \in Nat
        /\ DOMAIN before = 1..Len(before) /\ DOMAIN said = 1..Len(said)
        /\ DOMAIN (before \o said) = 1..Len(before) + Len(said)
        /\ \A i \in DOMAIN before : (before \o said)[i] = before[i]
        /\ \A i \in DOMAIN said : (before \o said)[Len(before) + i] = said[i]
    BY <2>1, Concatenated
  <2>3. ASSUME NEW i \in DOMAIN (before \o said)
        PROVE  (before \o said)[i].conn = c
    <3>1. CASE i <= Len(before)
      <4>1. i \in DOMAIN before
        BY <2>2, <3>1
      <4>. QED  BY <2>1, <2>2, <4>1
    <3>2. CASE ~(i <= Len(before))
      <4>1. i - Len(before) \in DOMAIN said /\ Len(before) + (i - Len(before)) = i
        BY <2>2, <3>2
      <4>2. (before \o said)[Len(before) + (i - Len(before))] = said[i - Len(before)]
        BY <2>2, <4>1
      <4>. QED  BY <1>3, <4>1, <4>2
    <3>. QED  BY <3>1, <3>2
  <2>. QED  BY <2>2, <2>3 DEF before
<1>. DEFINE now == news[c] \o said
<1>6. news' = [news EXCEPT ![c] = now] /\ now \in Seq(Messages) /\ \A i \in DOMAIN now : now[i].conn = c
  BY <1>1, <1>5
<1>. HIDE DEF now
<1>7. \A b \in Conns : \A i \in DOMAIN news'[b] : news'[b][i].conn = b
  BY <1>0, <1>6 DEF SessionInv, SessionTypeOK, ServersOk
<1>8. news' \in [Conns -> Seq(Messages)]
  BY <1>0, <1>6 DEF SessionTypeOK
<1>. QED  BY <1>0, <1>2, <1>7, <1>8 DEF SessionTypeOK, ServersSteady

-----------------------------------------------------------------------------
(* The operation under way.                                                 *)

Still ==
    /\ UNCHANGED <<active, timer, rpc, generation, settingsRevision, options, life>>
    /\ ServersSteady
    /\ doc' \in [Docs -> Documents]
    /\ \A d \in Docs : \/ doc'[d] = doc[d]
                       \/ doc'[d].state # "unopened" /\ doc'[d].uri \in Uris

HeadMoves ==
    /\ \/ queue' = Tail(queue)
       \/ \E new \in Ops : queue' = <<new>> \o Tail(queue) /\ OpOk(new)'
    /\ posted' \in Seq(Tasks)
    /\ \A k \in Tasks : IsPosted(k)' => IsPosted(k) \/ TaskOk(k)'

LEMMA StillOk ==
    ASSUME SessionInv, Still
    PROVE  /\ Grows /\ ServersOk' /\ RpcOk' /\ DocsOk'
           /\ Launched' = Launched /\ (life # "off" => Newest' = Newest)
           /\ \A d \in Docs : WasOpened(d) => WasOpened(d)'
<1>0. SessionTypeOK
  BY DEF SessionInv
<1>1. DocsOk' /\ \A d \in Docs : doc[d].state # "unopened" => doc'[d].state # "unopened"
  BY DocsStayOk DEF Still
<1>2. ServersOk' /\ RpcOk' /\ Launched' = Launched /\ (life # "off" => Newest' = Newest)
  BY SteadyServers DEF Still, ServersSteady
<1>3. Grows
  BY <1>0, <1>1, <1>2 DEF Grows, Still, SessionTypeOK
<1>. QED  BY <1>1, <1>2, <1>3 DEF WasOpened

LEMMA HeadStep ==
    ASSUME SessionInv, queue # <<>>, Still, HeadMoves
    PROVE  SessionInv'
<1>0. SessionTypeOK
  BY DEF SessionInv
<1>1. Grows /\ ServersOk' /\ RpcOk' /\ DocsOk'
  BY StillOk
<1>2. /\ queue' \in Seq(Ops) /\ HeadOnly'
      /\ \A op \in Ops : InQueue(op)' => InQueue(op) \/ OpOk(op)'
  <2>1. CASE queue' = Tail(queue)
    <3>1. /\ queue' \in Seq(Ops)
          /\ \A i \in DOMAIN queue' : i + 1 \in DOMAIN queue /\ queue'[i] = queue[i + 1]
          /\ \A op \in Ops : InQueue(op)' => InQueue(op)
      BY <1>0, <2>1, QueuePopped
    <3>2. DOMAIN queue' \subseteq Nat \ {0}
      BY <3>1
    <3>3. HeadOnly'
      BY <3>1, <3>2 DEF SessionInv, HeadOnly
    <3>. QED  BY <3>1, <3>3
  <2>2. ASSUME NEW new \in Ops, queue' = <<new>> \o Tail(queue), OpOk(new)'
        PROVE  /\ queue' \in Seq(Ops) /\ HeadOnly'
               /\ \A op \in Ops : InQueue(op)' => InQueue(op) \/ OpOk(op)'
    <3>1. /\ queue' \in Seq(Ops) /\ DOMAIN queue' = DOMAIN queue
          /\ \A i \in DOMAIN queue : i # 1 => queue'[i] = queue[i]
          /\ \A op \in Ops : InQueue(op)' => InQueue(op) \/ op = new
      BY <1>0, <2>2, QueuePut
    <3>2. HeadOnly'
      BY <3>1 DEF SessionInv, HeadOnly
    <3>3. \A op \in Ops : op = new => OpOk(op)'
      BY <2>2
    <3>. QED  BY <3>1, <3>2, <3>3
  <2>. QED  BY <2>1, <2>2 DEF HeadMoves
<1>3. OpsOk' /\ TasksOk'
  BY <1>1, <1>2, AllStayOk DEF HeadMoves
<1>4. TimerOk'
  BY <1>1, TimerStaysOk DEF Still
<1>5. SessionTypeOK'
  BY <1>0, <1>2 DEF SessionTypeOK, Still, ServersSteady, HeadMoves
<1>. QED  BY <1>1, <1>2, <1>3, <1>4, <1>5 DEF SessionInv

LEMMA HeadOk ==
    ASSUME SessionInv, queue # <<>>
    PROVE  Current \in Ops /\ OpOk(Current)
BY AtHead DEF SessionInv, OpsOk

LEMMA FailsMoves ==
    ASSUME SessionInv, Fails
    PROVE  HeadMoves
BY SamePosted DEF SessionInv, Fails, HeadMoves

LEMMA DoneMoves ==
    ASSUME SessionInv, queue # <<>>, Still, Done
    PROVE  HeadMoves
<1>0. SessionTypeOK /\ Current \in Ops /\ OpOk(Current)
  BY HeadOk DEF SessionInv
<1>1. CASE Current.then = None
  BY <1>0, <1>1, SamePosted DEF Done, HeadMoves
<1>2. CASE Current.then # None
  <2>. DEFINE k == Task(Current.then, Current.doc, None)
  <2>1. k \in Tasks /\ k.kind = Current.then /\ k.doc = Current.doc /\ k.kind \in {"renamed", "configured"}
    BY <1>0, <1>2 DEF Task, Tasks, Ops
  <2>2. posted' = Append(posted, k) /\ queue' = Tail(queue)
    BY <1>2 DEF Done, Post
  <2>3. k.kind = "renamed" => WasOpened(k.doc)
    BY <1>0, <1>2, <2>1 DEF OpOk, Ops
  <2>. HIDE DEF k
  <2>4. posted' \in Seq(Tasks) /\ \A t \in Tasks : IsPosted(t)' => IsPosted(t) \/ t = k
    BY <1>0, <2>1, <2>2, PostedMore
  <2>5. ASSUME NEW t \in Tasks, t = k
        PROVE  TaskOk(t)'
    <3>1. t.kind = "renamed" => WasOpened(t.doc)
      BY <2>3, <2>5
    <3>2. t.kind = "renamed" => WasOpened(t.doc)'
      BY <3>1, StillOk DEF WasOpened
    <3>. QED  BY <2>1, <2>5, <3>2 DEF TaskOk
  <2>. QED  BY <2>2, <2>4, <2>5 DEF HeadMoves
<1>. QED  BY <1>1, <1>2

(* The operation under way, with another step.                              *)
SameButStep(new, op) ==
    /\ new.kind = op.kind /\ new.doc = op.doc /\ new.uri = op.uri
    /\ new.settings = op.settings /\ new.conn = op.conn /\ new.epoch = op.epoch
    /\ new.then = op.then

LEMMA PutMoves ==
    ASSUME SessionInv, queue # <<>>, Still, UNCHANGED posted,
           NEW new \in Ops, Put(new), SameButStep(new, Current),
           new.step = "notifying" => new.kind \in {"close", "configure"},
           new.step \in {"asked", "synchronizing"} =>
             /\ new.kind \in {"refresh", "hover"}
             /\ new.snapshot \in Nat /\ new.sentUri \in Uris /\ new.askEpoch = generation,
           new.step = "asked" /\ new.answer # None =>
             /\ new.answer.uri = new.sentUri /\ new.answer.conn = new.conn
             /\ rpc # None => new.conn = rpc
    PROVE  HeadMoves
<1>0. SessionTypeOK /\ Current \in Ops /\ OpOk(Current)
  BY HeadOk DEF SessionInv
<1>1. ASSUME NEW n \in Ops, n = new
      PROVE  OpOk(n)'
  <2>1. /\ Launched' = Launched /\ (life # "off" => Newest' = Newest)
        /\ \A d \in Docs : WasOpened(d) => WasOpened(d)'
        /\ UNCHANGED <<rpc, generation, life>>
    BY StillOk DEF Still
  <2>2. /\ n.kind \in {"refresh", "hover"} => WasOpened(n.doc) /\ n.then = None
        /\ n.kind = "close" =>
             /\ n.uri \in Uris /\ n.then \in {None, "renamed"}
             /\ n.then = "renamed" => WasOpened(n.doc)
        /\ n.kind = "configure" => n.settings \in Settings /\ n.then = "configured"
        /\ n.epoch <= generation
        /\ n.conn \in Launched /\ (life = "starting" => n.conn # Newest)
    BY <1>0, <1>1 DEF OpOk, SameButStep
  <2>3. /\ n.kind \in {"refresh", "hover"} => WasOpened(n.doc)' /\ n.then = None
        /\ n.kind = "close" =>
             /\ n.uri \in Uris /\ n.then \in {None, "renamed"}
             /\ n.then = "renamed" => WasOpened(n.doc)'
    BY <2>1, <2>2 DEF WasOpened
  <2>4. n.conn \in Launched' /\ (life' = "starting" => n.conn # Newest')
    BY <2>1, <2>2
  <2>5. n.step \in {"asked", "synchronizing"} =>
             /\ n.kind \in {"refresh", "hover"}
             /\ n.snapshot \in Nat /\ n.sentUri \in Uris
             /\ n.askEpoch \in Nat /\ n.askEpoch <= generation'
    BY <1>0, <1>1, <2>1 DEF SessionTypeOK
  <2>6. n.step = "asked" /\ n.answer # None =>
             /\ n.answer.uri = n.sentUri /\ n.answer.conn = n.conn
             /\ n.askEpoch = generation' /\ rpc' # None => n.conn = rpc'
    BY <1>1, <2>1
  <2>7. n.step = "notifying" => n.kind \in {"close", "configure"}
    BY <1>1
  <2>8. n.epoch <= generation'
    BY <2>1, <2>2
  <2>9. n.kind = "configure" => n.settings \in Settings /\ n.then = "configured"
    BY <2>2
  <2>. QED  BY <2>3, <2>4, <2>5, <2>6, <2>7, <2>8, <2>9 DEF OpOk
<1>2. posted' \in Seq(Tasks) /\ \A k \in Tasks : IsPosted(k)' => IsPosted(k)
  BY <1>0, SamePosted
<1>. QED  BY <1>1, <1>2 DEF HeadMoves, Put

(* The server of the operation under way.                                   *)
LEMMA AliveIsOurs ==
    ASSUME SessionInv, NEW op \in Ops, OpOk(op), server[op.conn].alive, rpc # None
    PROVE  op.conn = rpc
BY DEF SessionInv, SessionTypeOK, ServersOk, RpcOk, OpOk, Ops

LEMMA AskNextMoves ==
    ASSUME SessionInv, queue # <<>>, Still, Current.kind \in {"refresh", "hover"}, AskNext
    PROVE  HeadMoves
<1>0. SessionTypeOK /\ Current \in Ops /\ OpOk(Current)
  BY HeadOk DEF SessionInv
<1>1. CASE Done
  BY <1>1, DoneMoves
<1>2. CASE Fails
  BY <1>2, FailsMoves
<1>3. CASE ~Done /\ ~Fails
  <2>. DEFINE op == Current
             new == [op EXCEPT !.step = "asked", !.snapshot = doc[op.doc].text,
                               !.sentUri = doc[op.doc].uri, !.askEpoch = generation,
                               !.askRevision = settingsRevision,
                               !.answer = Answer(op.conn, doc[op.doc].uri)]
             u == doc[op.doc].uri
  <2>1. server[op.conn].alive /\ Put(new) /\ UNCHANGED posted
    BY <1>3 DEF AskNext
  <2>2. op.doc \in Docs /\ u \in Uris /\ doc[op.doc].text \in Nat
    <3>1. op.doc \in Docs /\ doc[op.doc].state # "unopened"
      BY <1>0 DEF OpOk, WasOpened
    <3>. QED  BY <1>0, <3>1 DEF SessionInv, DocsOk, SessionTypeOK, Documents
  <2>3. /\ Answer(op.conn, u) \in Messages \cup {None}
        /\ Answer(op.conn, u) # None => Answer(op.conn, u).uri = u /\ Answer(op.conn, u).conn = op.conn
    <3>1. op.conn \in Conns /\ server[op.conn] \in Servers /\ server[op.conn].init # None
      BY <1>0 DEF OpOk, Launched, SessionTypeOK
    <3>2. ASSUME server[op.conn].docs[u] # None
          PROVE  /\ Said(op.conn, server[op.conn], u) \in Messages
                 /\ Said(op.conn, server[op.conn], u).conn = op.conn
                 /\ Said(op.conn, server[op.conn], u).uri = u
      BY <2>2, <3>1, <3>2, SaidOk
    <3>. QED  BY <3>2 DEF Answer, Messages
  <2>4. generation \in Nat /\ settingsRevision \in Nat
    BY <1>0 DEF SessionTypeOK
  <2>5. /\ new \in Ops /\ SameButStep(new, op) /\ new.step = "asked"
        /\ new.snapshot = doc[op.doc].text /\ new.sentUri = u /\ new.askEpoch = generation
        /\ new.answer = Answer(op.conn, u) /\ new.conn = op.conn /\ new.kind = op.kind
    <3>. DEFINE a == Answer(op.conn, u)
    <3>. HIDE DEF a
    <3>1. a \in Messages \cup {None}
      BY <2>3 DEF a
    <3>2. new = [op EXCEPT !.step = "asked", !.snapshot = doc[op.doc].text,
                               !.sentUri = u, !.askEpoch = generation,
                               !.askRevision = settingsRevision, !.answer = a]
      BY DEF a
    <3>3. op \in Ops
      BY <1>0
    <3>. HIDE DEF new, op, u
    <3>4. new \in Ops
      BY <2>2, <2>4, <3>1, <3>2, <3>3 DEF Ops
    <3>5. /\ SameButStep(new, op) /\ new.step = "asked"
          /\ new.snapshot = doc[op.doc].text /\ new.sentUri = u /\ new.askEpoch = generation
          /\ new.answer = a /\ new.conn = op.conn /\ new.kind = op.kind
      BY <3>2, <3>3 DEF Ops, SameButStep
    <3>. QED  BY <3>4, <3>5 DEF a
  <2>6. rpc # None => op.conn = rpc
    BY <1>0, <2>1, AliveIsOurs
  <2>. HIDE DEF new, u
  <2>. QED  BY <2>1, <2>2, <2>3, <2>5, <2>6, PutMoves
<1>. QED  BY <1>1, <1>2, <1>3

Opening(c, u, t, v) == [server[c] EXCEPT !.docs[u] = [text |-> t, version |-> v]]

LEMMA OpenedSteady ==
    ASSUME SessionInv, NEW c \in Launched, NEW u \in Uris, NEW t \in Nat, NEW v \in Nat,
           Opened(c, u, t, v)
    PROVE  TakesIn(c, Opening(c, u, t, v), {u}) /\ ServersSteady
<1>0. c \in Conns /\ server[c] \in Servers /\ server[c].init # None
  BY DEF SessionInv, SessionTypeOK, Launched
<1>. DEFINE r == Opening(c, u, t, v)
<1>1. /\ r \in Servers /\ r.init = server[c].init /\ r.alive = server[c].alive
      /\ r.docs[u] = [text |-> t, version |-> v] /\ r.docs[u] # None
  <2>1. [text |-> t, version |-> v] \in Texts /\ [text |-> t, version |-> v] # None
    BY NoneAssumption DEF Texts
  <2>. QED  BY <1>0, <2>1 DEF Servers, Opening
<1>2. Becomes(c, r, {u})
  BY DEF Opened, Opening
<1>. HIDE DEF r
<1>3. TakesIn(c, r, {u})
  BY <1>0, <1>1, <1>2, BecomesTakesIn
<1>4. ServersSteady
  <2>1. {u} \in SUBSET Uris /\ \A w \in {u} : r.docs[w] # None
    BY <1>1
  <2>. QED  BY <1>1, <1>3, <2>1, TakesInSteady
<1>. QED  BY <1>3, <1>4 DEF r

LEMMA ClosedSteady ==
    ASSUME SessionInv, NEW c \in Launched, NEW u \in Uris, Closed(c, u)
    PROVE  TakesIn(c, [server[c] EXCEPT !.docs[u] = None], {}) /\ ServersSteady
<1>0. c \in Conns /\ server[c] \in Servers /\ server[c].init # None
  BY DEF SessionInv, SessionTypeOK, Launched
<1>. DEFINE r == [server[c] EXCEPT !.docs[u] = None]
<1>1. r \in Servers /\ r.init = server[c].init /\ r.alive = server[c].alive
  BY <1>0 DEF Servers
<1>2. Becomes(c, r, {})
  BY DEF Closed
<1>. HIDE DEF r
<1>. DEFINE us == {}
<1>3. us \in SUBSET Uris /\ (\A w \in us : r.docs[w] # None) /\ Becomes(c, r, us)
  BY <1>2
<1>. HIDE DEF us
<1>4. TakesIn(c, r, us)
  BY <1>0, <1>1, <1>3, BecomesTakesIn
<1>5. ServersSteady
  BY <1>1, <1>3, <1>4, TakesInSteady
<1>. QED  BY <1>4, <1>5 DEF r, us

Affected(c, s) == {u \in Uris : server[c].docs[u] # None /\ server[c].configured # s}

LEMMA ConfiguredSteady ==
    ASSUME SessionInv, NEW c \in Launched, NEW s \in Settings, Configured(c, s)
    PROVE  TakesIn(c, [server[c] EXCEPT !.configured = s], Affected(c, s)) /\ ServersSteady
<1>0. c \in Conns /\ server[c] \in Servers /\ server[c].init # None
  BY DEF SessionInv, SessionTypeOK, Launched
<1>. DEFINE r == [server[c] EXCEPT !.configured = s]
           us == Affected(c, s)
<1>1. r \in Servers /\ r.init = server[c].init /\ r.alive = server[c].alive /\ r.docs = server[c].docs
  BY <1>0 DEF Servers
<1>2. Becomes(c, r, us)
  BY DEF Configured, Affected
<1>. HIDE DEF r
<1>3. us \in SUBSET Uris /\ (\A w \in us : r.docs[w] # None)
  BY <1>1 DEF Affected
<1>. HIDE DEF us
<1>4. TakesIn(c, r, us)
  BY <1>0, <1>1, <1>2, <1>3, BecomesTakesIn
<1>5. ServersSteady
  BY <1>1, <1>3, <1>4, TakesInSteady
<1>. QED  BY <1>4, <1>5 DEF r, us

LEMMA SynchronizeMoves ==
    ASSUME SessionInv, queue # <<>>, Current.kind \in {"refresh", "hover"}, Synchronize,
           UNCHANGED <<active, timer, sessionVars, clientVars>>
    PROVE  Still /\ HeadMoves
<1>0. SessionTypeOK /\ Current \in Ops /\ OpOk(Current)
  BY HeadOk DEF SessionInv
<1>. DEFINE op == Current
           d == op.doc
<1>1. /\ d \in Docs /\ doc[d].state # "unopened" /\ doc[d].uri \in Uris /\ doc[d].text \in Nat
      /\ doc[d].version \in Nat /\ doc[d] \in Documents
      /\ op.conn \in Launched /\ generation \in Nat
  BY <1>0 DEF OpOk, WasOpened, SessionInv, DocsOk, SessionTypeOK, Documents
<1>2. CASE doc[d].sent = doc[d].text
  <2>1. AskNext /\ UNCHANGED doc /\ UNCHANGED serverVars
    BY <1>2 DEF Synchronize
  <2>2. Still
    <3>1. ServersSteady
      BY <2>1, UnchangedSteady
    <3>. QED  BY <1>0, <2>1, <3>1 DEF Still, SessionTypeOK, sessionVars, clientVars
  <2>. QED  BY <2>1, <2>2, AskNextMoves
<1>3. CASE doc[d].sent # doc[d].text
  <2>. DEFINE new == [op EXCEPT !.step = "synchronizing", !.snapshot = doc[d].text,
                               !.sentUri = doc[d].uri, !.askEpoch = generation]
  <2>1. /\ doc' = [doc EXCEPT ![d].version = @ + 1]
        /\ Put(new) /\ UNCHANGED posted
        /\ \/ UNCHANGED serverVars
           \/ Opened(op.conn, doc[d].uri, doc[d].text, doc[d].version + 1)
    BY <1>3 DEF Synchronize, Changed
  <2>2. ServersSteady
    <3>1. CASE UNCHANGED serverVars
      BY <3>1, UnchangedSteady
    <3>2. CASE Opened(op.conn, doc[d].uri, doc[d].text, doc[d].version + 1)
      <4>1. /\ op.conn \in Launched /\ doc[d].uri \in Uris /\ doc[d].text \in Nat
            /\ doc[d].version + 1 \in Nat
        BY <1>1
      <4>. HIDE DEF op, d
      <4>. QED  BY <3>2, <4>1, OpenedSteady
    <3>. QED  BY <2>1, <3>1, <3>2
  <2>3. Still
    <3>1. [doc[d] EXCEPT !.version = doc[d].version + 1] \in Documents
      BY <1>1 DEF Documents
    <3>2. doc' \in [Docs -> Documents]
      BY <1>0, <2>1, <3>1 DEF SessionTypeOK
    <3>3. \A e \in Docs : \/ doc'[e] = doc[e]
                          \/ doc'[e].state # "unopened" /\ doc'[e].uri \in Uris
      BY <1>0, <1>1, <2>1 DEF SessionTypeOK, Documents
    <3>. QED  BY <2>2, <3>2, <3>3 DEF Still, sessionVars, clientVars
  <2>4. /\ new \in Ops /\ SameButStep(new, op) /\ new.step = "synchronizing"
        /\ new.kind = op.kind
        /\ new.snapshot \in Nat /\ new.sentUri \in Uris /\ new.askEpoch = generation
    BY <1>0, <1>1 DEF Ops, SameButStep
  <2>. HIDE DEF new
  <2>5. HeadMoves
    BY <2>1, <2>3, <2>4, PutMoves
  <2>. QED  BY <2>3, <2>5
<1>. QED  BY <1>2, <1>3

LEMMA NotifyingMoves ==
    ASSUME SessionInv, queue # <<>>, Still, UNCHANGED posted,
           Current.kind \in {"close", "configure"},
           Put([Current EXCEPT !.step = "notifying"])
    PROVE  HeadMoves
<1>0. Current \in Ops /\ OpOk(Current)
  BY HeadOk
<1>. DEFINE new == [Current EXCEPT !.step = "notifying"]
<1>1. /\ new \in Ops /\ SameButStep(new, Current) /\ new.step = "notifying"
      /\ new.kind = Current.kind
  BY <1>0 DEF Ops, SameButStep
<1>2. Put(new)
  OBVIOUS
<1>. HIDE DEF new
<1>. QED  BY <1>1, <1>2, PutMoves

LEMMA BeginCases ==
    ASSUME SessionInv, Begin
    PROVE  LET op == Current
               still == UNCHANGED <<doc, serverVars>>
               notifies == Put([op EXCEPT !.step = "notifying"]) /\ UNCHANGED <<doc, posted>>
           IN  /\ queue # <<>> /\ op.step = "queued"
               /\ UNCHANGED <<active, timer, sessionVars, clientVars>>
               /\ \/ Stale /\ Done /\ still
                  \/ ~Stale /\ op.kind = "refresh" /\ op.doc \in Open /\ Language(op.doc) /\ Synchronize
                  \/ /\ ~Stale /\ op.kind = "refresh" /\ ~(op.doc \in Open /\ Language(op.doc))
                     /\ Done /\ still
                  \/ ~Stale /\ op.kind = "hover" /\ Synchronize
                  \/ ~Stale /\ op.kind = "hover" /\ Fails /\ still
                  \/ /\ ~Stale /\ op.kind = "close" /\ notifies
                     /\ IF server[op.conn].alive THEN Closed(op.conn, op.uri) ELSE UNCHANGED serverVars
                  \/ /\ ~Stale /\ op.kind = "configure" /\ notifies
                     /\ IF server[op.conn].alive THEN Configured(op.conn, op.settings)
                        ELSE UNCHANGED serverVars
<1>0. queue # <<>> /\ Current.step = "queued" /\ UNCHANGED <<active, timer, sessionVars, clientVars>>
  BY DEF Begin, At
<1>1. Current.kind \in {"refresh", "hover", "close", "configure"}
  BY <1>0, HeadOk DEF Ops
<1>2. CASE Stale
  BY <1>0, <1>2 DEF Begin
<1>3. CASE ~Stale /\ Current.kind = "refresh"
  BY <1>0, <1>3 DEF Begin
<1>4. CASE ~Stale /\ Current.kind = "hover"
  BY <1>0, <1>4 DEF Begin
<1>5. CASE ~Stale /\ Current.kind = "close"
  BY <1>0, <1>5 DEF Begin
<1>6. CASE ~Stale /\ Current.kind = "configure"
  BY <1>0, <1>6 DEF Begin
<1>. QED  BY <1>1, <1>2, <1>3, <1>4, <1>5, <1>6

LEMMA BeginKeeps ==
    ASSUME SessionInv, Begin
    PROVE  SessionInv'
<1>0. SessionTypeOK /\ queue # <<>>
  BY DEF SessionInv, Begin, At
<1>1. Current \in Ops /\ OpOk(Current)
  BY <1>0, HeadOk
<1>2. UNCHANGED <<active, timer, sessionVars, clientVars>>
  BY DEF Begin
<1>. DEFINE DoneOnly == Done /\ UNCHANGED <<doc, serverVars>>
           FailsOnly == Fails /\ UNCHANGED <<doc, serverVars>>
           Notify == /\ Current.kind \in {"close", "configure"}
                     /\ Put([Current EXCEPT !.step = "notifying"])
                     /\ UNCHANGED <<doc, posted>>
<1>3. ASSUME UNCHANGED doc, ServersSteady
      PROVE  Still
  BY <1>0, <1>2, <1>3 DEF Still, SessionTypeOK, sessionVars, clientVars
<1>4. CASE DoneOnly
  <2>1. Still
    BY <1>3, <1>4, UnchangedSteady
  <2>. QED  BY <1>0, <1>4, <2>1, DoneMoves, HeadStep
<1>5. CASE FailsOnly
  <2>1. Still
    BY <1>3, <1>5, UnchangedSteady
  <2>. QED  BY <1>0, <1>5, <2>1, FailsMoves, HeadStep
<1>6. CASE Current.kind \in {"refresh", "hover"} /\ Synchronize
  BY <1>0, <1>2, <1>6, SynchronizeMoves, HeadStep
<1>7. CASE Notify /\ ServersSteady
  <2>1. Still
    BY <1>3, <1>7
  <2>. QED  BY <1>0, <1>7, <2>1, NotifyingMoves, HeadStep
<1>9. CASE /\ Current.kind = "close" /\ Notify
           /\ Closed(Current.conn, Current.uri) \/ UNCHANGED serverVars
  <2>1. Current.conn \in Launched /\ Current.uri \in Uris
    BY <1>1, <1>9 DEF OpOk
  <2>2. ServersSteady
    BY <1>9, <2>1, ClosedSteady, UnchangedSteady
  <2>. QED  BY <1>7, <1>9, <2>2
<1>10. CASE /\ Current.kind = "configure" /\ Notify
            /\ Configured(Current.conn, Current.settings) \/ UNCHANGED serverVars
  <2>1. Current.conn \in Launched /\ Current.settings \in Settings
    BY <1>1, <1>10 DEF OpOk
  <2>2. ServersSteady
    BY <1>10, <2>1, ConfiguredSteady, UnchangedSteady
  <2>. QED  BY <1>7, <1>10, <2>2
<1>. HIDE DEF DoneOnly, FailsOnly, Notify
<1>11. \/ DoneOnly
       \/ FailsOnly
       \/ Current.kind \in {"refresh", "hover"} /\ Synchronize
       \/ /\ Current.kind = "close" /\ Notify
          /\ Closed(Current.conn, Current.uri) \/ UNCHANGED serverVars
       \/ /\ Current.kind = "configure" /\ Notify
          /\ Configured(Current.conn, Current.settings) \/ UNCHANGED serverVars
  BY BeginCases DEF DoneOnly, FailsOnly, Notify
<1>. QED  BY <1>4, <1>5, <1>6, <1>9, <1>10, <1>11

LEMMA NotifiedKeeps ==
    ASSUME SessionInv, Notified
    PROVE  SessionInv'
<1>0. SessionTypeOK /\ queue # <<>>
  BY DEF SessionInv, Notified, At
<1>1. /\ Done \/ Fails
      /\ UNCHANGED <<doc, active, timer, sessionVars, clientVars, serverVars>>
  BY DEF Notified
<1>2. ServersSteady
  BY <1>1, UnchangedSteady
<1>3. Still
  BY <1>0, <1>1, <1>2 DEF Still, SessionTypeOK, sessionVars, clientVars
<1>. QED  BY <1>0, <1>1, <1>3, DoneMoves, FailsMoves, HeadStep

LEMMA GiveUpKeeps ==
    ASSUME SessionInv, GiveUp
    PROVE  SessionInv'
<1>0. SessionTypeOK /\ queue # <<>>
  BY DEF SessionInv, GiveUp, At
<1>1. Fails /\ UNCHANGED <<doc, active, timer, sessionVars, clientVars, serverVars>>
  BY DEF GiveUp
<1>2. ServersSteady
  BY <1>1, UnchangedSteady
<1>3. Still
  BY <1>0, <1>1, <1>2 DEF Still, SessionTypeOK, sessionVars, clientVars
<1>. QED  BY <1>0, <1>1, <1>3, FailsMoves, HeadStep

LEMMA SynchronizedKeeps ==
    ASSUME SessionInv, Synchronized
    PROVE  SessionInv'
<1>0. SessionTypeOK /\ queue # <<>> /\ Current.step = "synchronizing"
  BY DEF SessionInv, Synchronized, At
<1>1. Current \in Ops /\ OpOk(Current)
  BY <1>0, HeadOk
<1>2. /\ (doc' = MarkSent(Current) /\ AskNext) \/ (Fails /\ UNCHANGED doc)
      /\ UNCHANGED <<active, timer, sessionVars, clientVars, serverVars>>
  BY DEF Synchronized
<1>3. ServersSteady
  BY <1>2, UnchangedSteady
<1>4. /\ Current.kind \in {"refresh", "hover"} /\ Current.snapshot \in Nat
      /\ Current.doc \in Docs /\ doc[Current.doc].state # "unopened"
  BY <1>0, <1>1 DEF OpOk, WasOpened
<1>5. /\ doc' \in [Docs -> Documents]
      /\ \A d \in Docs : \/ doc'[d] = doc[d]
                         \/ doc'[d].state # "unopened" /\ doc'[d].uri \in Uris
  <2>. DEFINE d == Current.doc
  <2>1. doc' = doc \/ doc' = [doc EXCEPT ![d].sent = Current.snapshot]
    BY <1>2 DEF MarkSent
  <2>2. d \in Docs /\ doc[d] \in Documents /\ doc[d].state # "unopened" /\ doc[d].uri \in Uris
    BY <1>0, <1>4 DEF SessionInv, SessionTypeOK, DocsOk
  <2>3. [doc[d] EXCEPT !.sent = Current.snapshot] \in Documents
    BY <1>4, <2>2 DEF Documents
  <2>. HIDE DEF d
  <2>4. doc' \in [Docs -> Documents]
    BY <1>0, <2>1, <2>2, <2>3 DEF SessionTypeOK
  <2>5. \A e \in Docs : \/ doc'[e] = doc[e]
                        \/ doc'[e].state # "unopened" /\ doc'[e].uri \in Uris
    BY ZenonT(60), <1>0, <2>1, <2>2 DEF SessionTypeOK, Documents
  <2>. QED  BY <2>4, <2>5
<1>6. Still
  BY <1>2, <1>3, <1>5 DEF Still, sessionVars, clientVars
<1>7. HeadMoves
  BY <1>0, <1>2, <1>4, <1>6, AskNextMoves, FailsMoves
<1>. QED  BY <1>0, <1>6, <1>7, HeadStep

LEMMA AnsweredKeeps ==
    ASSUME SessionInv, Answered
    PROVE  SessionInv'
<1>0. SessionTypeOK /\ queue # <<>> /\ Current.step = "asked"
  BY DEF SessionInv, Answered, At
<1>1. Current \in Ops /\ OpOk(Current)
  BY <1>0, HeadOk
<1>2. /\ doc' = [doc EXCEPT ![Current.doc].functions = Current.answer] \/ doc' = doc
      /\ Done
      /\ UNCHANGED <<active, timer, sessionVars, clientVars, serverVars>>
  BY DEF Answered
<1>3. ServersSteady
  BY <1>2, UnchangedSteady
<1>. DEFINE d == Current.doc
<1>4. /\ d \in Docs /\ doc[d] \in Documents /\ doc[d].state # "unopened" /\ doc[d].uri \in Uris
      /\ Current.answer \in Messages \cup {None}
  <2>1. d \in Docs /\ doc[d].state # "unopened"
    BY <1>0, <1>1 DEF OpOk, WasOpened
  <2>. QED  BY <1>0, <1>1, <2>1 DEF SessionInv, SessionTypeOK, DocsOk, Ops
<1>5. [doc[d] EXCEPT !.functions = Current.answer] \in Documents
  BY <1>4 DEF Documents
<1>6. doc' \in [Docs -> Documents]
  BY <1>0, <1>2, <1>4, <1>5 DEF SessionTypeOK
<1>7. \A e \in Docs : \/ doc'[e] = doc[e]
                      \/ doc'[e].state # "unopened" /\ doc'[e].uri \in Uris
  BY ZenonT(60), <1>0, <1>2, <1>4 DEF SessionTypeOK, Documents
<1>8. Still
  BY <1>2, <1>3, <1>6, <1>7 DEF Still, sessionVars, clientVars
<1>. QED  BY <1>0, <1>2, <1>8, DoneMoves, HeadStep

-----------------------------------------------------------------------------
(* Continuations on the UI thread.                                          *)

LEMMA TaskTaken ==
    ASSUME SessionInv, NEW i \in DOMAIN posted, RunPosted(i)
    PROVE  /\ posted[i] \in Tasks /\ TaskOk(posted[i])
           /\ posted' \in Seq(Tasks) /\ \A k \in Tasks : IsPosted(k)' => IsPosted(k)
           /\ Continue(posted[i])
           /\ UNCHANGED <<active, settingsRevision, options, life, server, news>>
<1>0. SessionTypeOK
  BY DEF SessionInv
<1>1. /\ posted' = RemoveAt(posted, i) /\ Continue(posted[i])
      /\ UNCHANGED <<active, settingsRevision, options, life, server, news>>
  BY DEF RunPosted, clientVars, serverVars
<1>2. /\ posted' \in Seq(Tasks) /\ posted[i] \in Tasks /\ IsPosted(posted[i])
      /\ \A t \in Tasks : IsPosted(t)' => IsPosted(t)
  BY <1>0, <1>1, PostedLess
<1>. QED  BY <1>1, <1>2 DEF SessionInv, TasksOk

LEMMA RunPostedKeeps ==
    ASSUME SessionInv, NEW i \in DOMAIN posted, RunPosted(i)
    PROVE  SessionInv'
<1>. DEFINE k == posted[i]
<1>0. SessionTypeOK
  BY DEF SessionInv
<1>1. /\ k \in Tasks /\ TaskOk(k)
      /\ posted' \in Seq(Tasks) /\ \A t \in Tasks : IsPosted(t)' => IsPosted(t)
      /\ Continue(k)
      /\ UNCHANGED <<active, settingsRevision, options, life, server, news>>
  BY TaskTaken
<1>. HIDE DEF k
<1>2. /\ active' \in Docs \cup {None} /\ settingsRevision' \in Nat /\ options' \in Settings
  BY <1>0, <1>1 DEF SessionTypeOK
<1>3. CASE k.kind = "changed" /\ k.doc \in Open
  <2>1. /\ doc' = [doc EXCEPT ![k.doc] = Cleared(@)] /\ timer' = timer \cup {k.doc}
        /\ UNCHANGED <<rpc, generation, queue>>
    BY <1>1, <1>3 DEF Continue
  <2>2. PICK d \in Docs : d = k.doc
    BY <1>3 DEF Open
  <2>3. /\ doc[d].state = "open" /\ doc[d].uri \in Uris /\ doc[d] \in Documents
        /\ doc' = [doc EXCEPT ![d] = Cleared(doc[d])] /\ timer' = timer \cup {d}
    BY <1>0, <1>3, <2>1, <2>2 DEF Open, SessionInv, SessionTypeOK, DocsOk
  <2>4. Cleared(doc[d]) \in Documents /\ Cleared(doc[d]).state = "open" /\ Cleared(doc[d]).uri = doc[d].uri
    BY <2>3 DEF Cleared, Documents
  <2>5. /\ doc' \in [Docs -> Documents]
        /\ \A e \in Docs : \/ doc'[e] = doc[e]
                           \/ doc'[e].state # "unopened" /\ doc'[e].uri \in Uris
    BY <1>0, <2>3, <2>4 DEF SessionTypeOK
  <2>6. \A e \in timer' : e \in timer \/ WasOpened(e)'
    <3>1. WasOpened(d)'
      BY <1>0, <2>3, <2>4 DEF SessionTypeOK, WasOpened
    <3>. QED  BY <2>3, <3>1
  <2>. QED  BY <1>1, <1>2, <2>1, <2>5, <2>6, QuietEditorStep
<1>4. CASE k.kind = "renamed"
  <2>1. Enqueue(<<Refresh(k.doc)>>) /\ UNCHANGED <<doc, timer, rpc, generation>>
    BY <1>1, <1>4 DEF Continue
  <2>2. k.doc \in Docs /\ WasOpened(k.doc)
    BY <1>1, <1>4 DEF TaskOk, WasOpened
  <2>3. PICK d \in Docs : d = k.doc
    BY <2>2
  <2>4. WasOpened(d)'
    BY <2>1, <2>2, <2>3 DEF WasOpened
  <2>5. /\ Refresh(d).step = "queued"
        /\ rpc # None => Refresh(d) \in Ops
        /\ rpc # None => \A op \in Ops : op = Refresh(d) => OpOk(op)'
    BY <1>1, <2>1, <2>4, RefreshOk
  <2>6. doc' \in [Docs -> Documents] /\ timer' = timer /\ Enqueue(<<Refresh(d)>>)
    BY <1>0, <2>1, <2>3 DEF SessionTypeOK
  <2>. QED  BY <1>1, <1>2, <2>1, <2>5, <2>6, OneEditorStep
<1>5. CASE k.kind = "configured"
  <2>1. /\ doc' = Invalidated /\ UNCHANGED <<timer, rpc, generation>>
        /\ IF Active # None THEN Enqueue(<<Refresh(Active)>>) ELSE UNCHANGED queue
    BY <1>1, <1>5 DEF Continue
  <2>2. doc' \in [Docs -> Documents]
    BY ZenonT(60), <1>0, <2>1 DEF SessionTypeOK, Documents, Invalidated
  <2>3. \A e \in Docs : \/ doc'[e] = doc[e]
                        \/ doc'[e].state # "unopened" /\ doc'[e].uri \in Uris
    <3>1. \A e \in Open : doc[e].uri \in Uris
      BY DEF SessionInv, DocsOk, Open
    <3>. QED  BY <1>0, <2>1, <3>1 DEF SessionTypeOK, Documents, Invalidated, Open
  <2>4. CASE Active = None
    <3>1. UNCHANGED <<rpc, generation, life, server, news, queue>>
      BY <1>1, <2>1, <2>4
    <3>. QED  BY <1>1, <1>2, <2>1, <2>2, <2>3, <3>1, QuietEditorStep
  <2>5. CASE Active # None
    <3>1. Active \in Docs /\ WasOpened(Active)
      BY <2>5 DEF Active, ActiveIn, Open, WasOpened
    <3>2. PICK d \in Docs : d = Active
      BY <3>1
    <3>3. WasOpened(d)'
      BY <1>0, <2>1, <3>1, <3>2 DEF WasOpened, SessionTypeOK, Documents, Invalidated
    <3>4. /\ Refresh(d).step = "queued"
          /\ rpc # None => Refresh(d) \in Ops
          /\ rpc # None => \A op \in Ops : op = Refresh(d) => OpOk(op)'
      BY <1>1, <2>1, <3>3, RefreshOk
    <3>5. Enqueue(<<Refresh(d)>>)
      BY <2>1, <2>5, <3>2
    <3>6. UNCHANGED <<rpc, generation, life, server, news, timer>>
      BY <1>1, <2>1
    <3>. QED  BY <1>1, <1>2, <2>2, <2>3, <3>4, <3>5, <3>6, OneEditorStep
  <2>. QED  BY <2>4, <2>5
<1>6. CASE k.kind = "disconnected" /\ k.epoch = generation
  <2>1. Stopped /\ rpc' = None /\ UNCHANGED <<timer, queue>>
    BY <1>1, <1>6 DEF Continue
  <2>2. /\ doc' \in [Docs -> Documents] /\ DocsOk'
        /\ generation' \in Nat /\ generation < generation'
        /\ \A d \in Docs : doc'[d].state = doc[d].state
    BY <2>1, StoppedOk
  <2>3. life # "up"
    BY <1>1, <1>6 DEF TaskOk
  <2>4. Launched' = Launched /\ Newest' = Newest /\ ServersOk'
    BY <1>1 DEF SessionInv, ServersOk, Launched, Newest
  <2>5. RpcOk'
    <3>1. life = "starting" => Newest \in Conns
      BY DEF SessionInv, ServersOk, Launched
    <3>. QED  BY <1>1, <2>1, <2>3, <2>4, <3>1, ConnsAssumption DEF RpcOk
  <2>6. Grows
    BY <1>0, <1>1, <2>1, <2>2, <2>3, <2>4 DEF Grows, SessionTypeOK
  <2>7. OpsOk' /\ TasksOk'
    <3>1. \A op \in Ops : InQueue(op)' => InQueue(op)
      BY <2>1 DEF InQueue
    <3>. QED  BY <1>1, <2>6, <3>1, AllStayOk
  <2>8. SessionTypeOK'
    BY <1>0, <1>1, <2>1, <2>2 DEF SessionTypeOK
  <2>9. HeadOnly' /\ TimerOk'
    BY <2>1, <2>6, TimerStaysOk DEF SessionInv, HeadOnly
  <2>. QED  BY <2>2, <2>4, <2>5, <2>7, <2>8, <2>9 DEF SessionInv
<1>7. CASE UNCHANGED <<doc, timer, rpc, generation, queue>>
  <2>1. doc' \in [Docs -> Documents] /\ timer' = timer /\ \A d \in Docs : doc'[d] = doc[d]
    BY <1>0, <1>7 DEF SessionTypeOK
  <2>2. UNCHANGED <<rpc, generation, life, server, news, queue>>
    BY <1>1, <1>7
  <2>. QED  BY <1>1, <1>2, <2>1, <2>2, QuietEditorStep
<1>8. \/ k.kind = "changed" /\ k.doc \in Open
      \/ k.kind = "renamed"
      \/ k.kind = "configured"
      \/ k.kind = "disconnected" /\ k.epoch = generation
      \/ UNCHANGED <<doc, timer, rpc, generation, queue>>
  BY <1>1 DEF Continue
<1>. QED  BY <1>3, <1>4, <1>5, <1>6, <1>7, <1>8

-----------------------------------------------------------------------------

LEMMA NextKeeps ==
    ASSUME SessionInv, [Next]_vars
    PROVE  SessionInv'
<1>1. CASE UiThread
  BY <1>1, BeginKeeps, NotifiedKeeps, SynchronizedKeeps, GiveUpKeeps, RunPostedKeeps,
     DebouncedKeeps, ReceiveKeeps DEF UiThread
<1>2. CASE Answered
  BY <1>2, AnsweredKeeps
<1>3. CASE Editor
  BY <1>3, ActivateKeeps, EditKeeps, CloseViewKeeps, HoverKeeps, RenameKeeps, RegisterKeeps,
     ConfigureKeeps DEF Editor
<1>4. CASE Lifecycle
  BY <1>4, StartKeeps, DieKeeps, RequestStopKeeps, ExitKeeps, LaunchKeeps DEF Lifecycle
<1>5. CASE UNCHANGED vars
  BY <1>5 DEF vars, SessionInv, SessionTypeOK, ServersOk, RpcOk, DocsOk, OpsOk, OpOk, InQueue,
     HeadOnly, TasksOk, TaskOk, IsPosted, TimerOk, WasOpened, Launched, Newest
<1>. QED  BY <1>1, <1>2, <1>3, <1>4, <1>5 DEF Next

-----------------------------------------------------------------------------
(* What a document shows.                                                   *)

Fits(r, c) ==
    \A health \in {r.summary, r.functions, r.diagnostics} :
        health # None => health.uri = r.uri /\ (c # None => health.conn = c)

LEMMA ShownFits ==
    NothingCrossesRestart <=> \A d \in Docs : doc[d].state = "open" => Fits(doc[d], rpc)
BY DEF NothingCrossesRestart, Open, Fits

LEMMA ShownFitsNext ==
    NothingCrossesRestart' <=> \A d \in Docs : doc'[d].state = "open" => Fits(doc'[d], rpc')
BY DEF NothingCrossesRestart, Open, Fits

(* A document that shows no more than it did.                               *)
ShowsLess(r, old) ==
    /\ r.uri = old.uri
    /\ r.summary \in {old.summary, None} /\ r.functions \in {old.functions, None}
    /\ r.diagnostics \in {old.diagnostics, None}
ShowsNothing(r) == r.summary = None /\ r.functions = None /\ r.diagnostics = None

LEMMA LessStillFits ==
    ASSUME NothingCrossesRestart,
           \A d \in Docs : doc'[d].state = "open" =>
             \/ doc[d].state = "open" /\ rpc' \in {rpc, None} /\ ShowsLess(doc'[d], doc[d])
             \/ ShowsNothing(doc'[d])
    PROVE  NothingCrossesRestart'
BY ShownFits, ShownFitsNext DEF Fits, ShowsLess, ShowsNothing

LEMMA StoppedShowsNothing ==
    ASSUME SessionTypeOK, Stopped
    PROVE  \A d \in Docs : doc'[d].state = "open" => ShowsNothing(doc'[d])
<1>. SUFFICES ASSUME NEW d \in Docs, doc'[d].state = "open"
              PROVE  ShowsNothing(doc'[d])
  OBVIOUS
<1>1. doc'[d] = IF d \in Open THEN [AllCleared[d] EXCEPT !.sent = None] ELSE doc[d]
  BY DEF Stopped
<1>2. d \in Open
  BY <1>1 DEF Open
<1>3. AllCleared[d] = Cleared(doc[d]) /\ doc[d] \in Documents
  BY <1>2 DEF AllCleared, SessionTypeOK
<1>. QED  BY <1>1, <1>2, <1>3 DEF Cleared, Documents, ShowsNothing

LEMMA ReceiveFits ==
    ASSUME SessionInv, NothingCrossesRestart, NEW c \in Conns, Receive(c)
    PROVE  NothingCrossesRestart'
<1>. DEFINE m == Head(news[c])
<1>1. rpc' = rpc /\ \A d \in Docs : doc'[d] =
         IF d \notin Open \/ ~Accepts(m, d) THEN doc[d]
         ELSE [doc[d] EXCEPT !.summary = m,
                             !.diagnostics = IF m.version = doc[d].version THEN m ELSE @]
  BY DEF Receive, sessionVars
<1>. HIDE DEF m
<1>2. ASSUME NEW d \in Docs, doc'[d].state = "open"
      PROVE  Fits(doc'[d], rpc')
  <2>0. doc[d] \in Documents
    BY DEF SessionInv, SessionTypeOK
  <2>1. CASE d \notin Open \/ ~Accepts(m, d)
    BY <1>1, <1>2, <2>1, ShownFits
  <2>2. CASE d \in Open /\ Accepts(m, d)
    <3>. DEFINE x == IF m.version = doc[d].version THEN m ELSE doc[d].diagnostics
    <3>1. doc'[d] = [doc[d] EXCEPT !.summary = m, !.diagnostics = x] /\ x \in {m, doc[d].diagnostics}
      BY <1>1, <2>2
    <3>2. m.conn = rpc /\ m.uri = doc[d].uri
      BY <2>2 DEF Accepts
    <3>3. Fits(doc[d], rpc)
      BY <2>2, ShownFits DEF Open
    <3>. HIDE DEF x
    <3>4. /\ doc'[d].summary = m /\ doc'[d].diagnostics = x
          /\ doc'[d].functions = doc[d].functions /\ doc'[d].uri = doc[d].uri
      BY <2>0, <3>1 DEF Documents
    <3>. QED  BY <1>1, <3>1, <3>2, <3>3, <3>4 DEF Fits
  <2>. QED  BY <2>1, <2>2
<1>. QED  BY <1>2, ShownFitsNext

LEMMA AnsweredFits ==
    ASSUME SessionInv, NothingCrossesRestart, Answered
    PROVE  NothingCrossesRestart'
<1>0. SessionTypeOK /\ queue # <<>> /\ Current.step = "asked"
  BY DEF SessionInv, Answered, At
<1>1. Current \in Ops /\ OpOk(Current)
  BY <1>0, HeadOk
<1>2. rpc' = rpc
  BY DEF Answered, sessionVars
<1>3. CASE doc' = doc
  BY <1>2, <1>3, ShownFits, ShownFitsNext
<1>4. CASE doc' = [doc EXCEPT ![Current.doc].functions = Current.answer] /\ Fresh(Current)
  <2>. DEFINE e == Current.doc
             a == Current.answer
  <2>1. e \in Docs /\ doc[e].state = "open" /\ doc[e] \in Documents
    BY <1>0, <1>4 DEF Fresh, Open, SessionTypeOK
  <2>2. a # None => a.uri = doc[e].uri /\ (rpc # None => a.conn = rpc)
    BY <1>0, <1>1, <1>4 DEF Fresh, OpOk
  <2>3. doc' = [doc EXCEPT ![e].functions = a]
    BY <1>4
  <2>. HIDE DEF e, a
  <2>4. /\ doc'[e].functions = a /\ doc'[e].uri = doc[e].uri
        /\ doc'[e].summary = doc[e].summary /\ doc'[e].diagnostics = doc[e].diagnostics
        /\ \A d \in Docs : d # e => doc'[d] = doc[d]
    BY <1>0, <2>1, <2>3 DEF SessionTypeOK, Documents
  <2>5. Fits(doc[e], rpc)
    BY <2>1, ShownFits
  <2>6. Fits(doc'[e], rpc')
    BY <1>2, <2>2, <2>4, <2>5 DEF Fits
  <2>7. ASSUME NEW d \in Docs, doc'[d].state = "open" PROVE Fits(doc'[d], rpc')
    <3>1. CASE d = e
      BY <2>6, <3>1
    <3>2. CASE d # e
      BY <1>2, <2>4, <2>7, <3>2, ShownFits
    <3>. QED  BY <3>1, <3>2
  <2>. QED  BY <2>7, ShownFitsNext
<1>. QED  BY <1>3, <1>4 DEF Answered

LEMMA EditorFits ==
    ASSUME SessionInv, NothingCrossesRestart, Editor
    PROVE  NothingCrossesRestart'
<1>0. doc \in [Docs -> Documents]
  BY DEF SessionInv, SessionTypeOK
<1>1. rpc' = rpc
  BY DEF Editor, Activate, Edit, CloseView, Hover, Rename, Register, Configure, sessionVars
<1>2. \A d \in Docs : doc'[d].state = "open" =>
         \/ doc[d].state = "open" /\ ShowsLess(doc'[d], doc[d])
         \/ ShowsNothing(doc'[d])
  <2>1. CASE UNCHANGED doc
    BY <2>1 DEF ShowsLess
  <2>2. ASSUME NEW d \in Docs, NEW u \in Uris, NEW f \in BOOLEAN, Register(d, u, f)
        PROVE  <1>2
    <3>1. doc[d] = NewDoc /\ doc' = [doc EXCEPT ![d].state = "open", ![d].uri = u]
      BY <2>2 DEF Register, SessionInv, DocsOk
    <3>2. ShowsNothing(doc'[d]) /\ \A e \in Docs : e # d => doc'[e] = doc[e]
      BY <1>0, <3>1 DEF NewDoc, ShowsNothing
    <3>. QED  BY <3>2 DEF ShowsLess
  <2>3. ASSUME NEW d \in Docs, Edit(d) PROVE <1>2
    <3>1. doc' = [doc EXCEPT ![d].text = doc[d].text + 1]
      BY <2>3 DEF Edit
    <3>. QED  BY <1>0, <3>1 DEF ShowsLess, Documents
  <2>4. ASSUME NEW d \in Docs, NEW u \in Uris, Rename(d, u) PROVE <1>2
    <3>1. doc' = [doc EXCEPT ![d] = [Cleared(doc[d]) EXCEPT !.uri = u, !.sent = None]]
      BY <2>4 DEF Rename
    <3>2. ShowsNothing(doc'[d]) /\ \A e \in Docs : e # d => doc'[e] = doc[e]
      BY <1>0, <3>1 DEF ShowsNothing, Cleared, Documents
    <3>. QED  BY <3>2 DEF ShowsLess
  <2>5. ASSUME NEW d \in Docs, CloseView(d) PROVE <1>2
    <3>1. doc' = [doc EXCEPT ![d].state = "closed"]
      BY <2>5 DEF CloseView
    <3>. QED  BY <1>0, <3>1 DEF ShowsLess, Documents
  <2>6. ASSUME NEW s \in Settings, Configure(s) PROVE <1>2
    <3>1. doc' = AllCleared
      BY <2>6 DEF Configure
    <3>. QED  BY <1>0, <3>1 DEF AllCleared, Cleared, Open, ShowsLess, Documents
  <2>. QED  BY <2>1, <2>2, <2>3, <2>4, <2>5, <2>6 DEF Editor, Activate, Hover
<1>. QED  BY <1>1, <1>2, LessStillFits

LEMMA HeadFits ==
    ASSUME SessionInv, NothingCrossesRestart, Begin \/ Notified \/ Synchronized \/ GiveUp
    PROVE  NothingCrossesRestart'
<1>0. doc \in [Docs -> Documents]
  BY DEF SessionInv, SessionTypeOK
<1>1. rpc' = rpc
  BY DEF Begin, Notified, Synchronized, GiveUp, sessionVars
<1>2. \/ doc' = doc
      \/ doc' = [doc EXCEPT ![Current.doc].version = @ + 1]
      \/ doc' = [doc EXCEPT ![Current.doc].sent = Current.snapshot]
  <2>1. CASE Begin
    <3>1. UNCHANGED doc \/ Synchronize
      BY <2>1, BeginCases
    <3>. QED  BY <3>1 DEF Synchronize
  <2>2. CASE Notified \/ GiveUp
    BY <2>2 DEF Notified, GiveUp
  <2>3. CASE Synchronized
    BY <2>3 DEF Synchronized, MarkSent
  <2>. QED  BY <2>1, <2>2, <2>3
<1>3. \A d \in Docs : doc'[d].state = doc[d].state /\ ShowsLess(doc'[d], doc[d])
  BY <1>0, <1>2 DEF ShowsLess, Documents
<1>. QED  BY <1>1, <1>3, LessStillFits

LEMMA RunPostedFits ==
    ASSUME SessionInv, NothingCrossesRestart, NEW i \in DOMAIN posted, RunPosted(i)
    PROVE  NothingCrossesRestart'
<1>0. SessionTypeOK /\ doc \in [Docs -> Documents]
  BY DEF SessionInv, SessionTypeOK
<1>. DEFINE k == posted[i]
<1>1. Continue(k)
  BY DEF RunPosted
<1>. HIDE DEF k
<1>2. CASE Stopped
  BY <1>0, <1>2, StoppedShowsNothing, LessStillFits
<1>3. CASE doc' = doc /\ rpc' = rpc
  BY <1>3, ShownFits, ShownFitsNext
<1>4. CASE doc' = [doc EXCEPT ![k.doc] = Cleared(@)] /\ rpc' = rpc
  <2>1. \A d \in Docs : doc'[d].state = doc[d].state /\ ShowsLess(doc'[d], doc[d])
    BY <1>0, <1>4 DEF Cleared, ShowsLess, Documents
  <2>. QED  BY <1>4, <2>1, LessStillFits
<1>5. CASE doc' = Invalidated /\ rpc' = rpc
  <2>1. \A d \in Docs : doc'[d].state = doc[d].state /\ ShowsLess(doc'[d], doc[d])
    BY <1>0, <1>5 DEF Invalidated, ShowsLess, Documents
  <2>. QED  BY <1>5, <2>1, LessStillFits
<1>. QED  BY <1>1, <1>2, <1>3, <1>4, <1>5 DEF Continue

LEMMA NextFits ==
    ASSUME SessionInv, NothingCrossesRestart, [Next]_vars
    PROVE  NothingCrossesRestart'
<1>0. SessionTypeOK
  BY DEF SessionInv
<1>1. CASE UNCHANGED <<doc, rpc>>
  BY <1>1, ShownFits, ShownFitsNext
<1>2. CASE UiThread
  <2>1. ASSUME NEW d \in Docs, Debounced(d) PROVE UNCHANGED <<doc, rpc>>
    BY <2>1 DEF Debounced, sessionVars
  <2>. QED  BY <1>1, <1>2, <2>1, HeadFits, RunPostedFits, ReceiveFits DEF UiThread
<1>3. CASE Answered
  BY <1>3, AnsweredFits
<1>4. CASE Editor
  BY <1>4, EditorFits
<1>5. CASE Lifecycle
  <2>1. CASE Start \/ RequestStop
    <3>1. Stopped
      BY <2>1 DEF Start, RequestStop
    <3>. QED  BY <1>0, <3>1, StoppedShowsNothing, LessStillFits
  <2>2. CASE Die \/ Exit \/ \E c \in Conns : Launch(c)
    <3>1. UNCHANGED <<doc, rpc>>
      BY <2>2 DEF Die, Exit, Launch, sessionVars
    <3>. QED  BY <1>1, <3>1
  <2>. QED  BY <1>5, <2>1, <2>2 DEF Lifecycle
<1>6. CASE UNCHANGED vars
  BY <1>1, <1>6 DEF vars
<1>. QED  BY <1>2, <1>3, <1>4, <1>5, <1>6 DEF Next

(* The variables of the session, its documents, operations and servers keep *)
(* their types; one server is alive at a time, the newest, only the first   *)
(* operation of the queue is under way, and what was queued for an earlier  *)
(* connection or epoch is never mistaken for the present one's, whatever    *)
(* starts, stops and crashes go on around it (AnalysisSession.cs).          *)
THEOREM SessionTypeCorrect == Spec => []SessionInv
<1>1. Init => SessionInv
  BY InitOk
<1>2. SessionInv /\ [Next]_vars => SessionInv'
  BY NextKeeps
<1>. QED  BY <1>1, <1>2, PTL DEF Spec

(* "A connection generation prevents old responses crossing a restart"      *)
(* (AnalysisSession.cs): nothing an open document shows came from another   *)
(* connection than the present one, or is about a name it had before.       *)
THEOREM NothingCrosses == Spec => []NothingCrossesRestart
<1>1. Init => NothingCrossesRestart
  BY DEF Init, NewDoc, NothingCrossesRestart, Open
<1>2. SessionInv /\ NothingCrossesRestart /\ [Next]_vars => NothingCrossesRestart'
  BY NextFits
<1>. QED  BY <1>1, <1>2, SessionTypeCorrect, PTL DEF Spec

-----------------------------------------------------------------------------
(* How the queue grows.                                                     *)

New == DOMAIN queue' \ DOMAIN queue

QueueGrows ==
    /\ queue' \in Seq(Ops)
    /\ \A i \in DOMAIN queue : i \in DOMAIN queue' /\ queue'[i] = queue[i]
    /\ \A i \in New : queue'[i].step = "queued" /\ \A k \in DOMAIN queue : k < i

LEMMA EnqueueGrows ==
    ASSUME SessionInv, NEW ops, Enqueue(ops), rpc # None => ops \in Seq(Ops),
           \A j \in DOMAIN ops : ops[j].step = "queued"
    PROVE  /\ QueueGrows
           /\ \A i \in New : rpc # None /\ \E j \in DOMAIN ops : queue'[i] = ops[j]
           /\ rpc # None => \A j \in DOMAIN ops : \E i \in New : queue'[i] = ops[j]
<1>0. SessionTypeOK /\ HeadOnly
  BY DEF SessionInv
<1>1. CASE rpc = None
  BY <1>0, <1>1 DEF Enqueue, QueueGrows, New, SessionTypeOK
<1>2. CASE rpc # None
  <2>1. Queued(ops) /\ queue' \in Seq(Ops)
    BY <1>0, <1>2, Enqueues
  <2>2. \A i \in New : \E j \in DOMAIN ops : i = Len(queue) + j
    BY <2>1 DEF Queued, New
  <2>3. \A j \in DOMAIN ops : /\ Len(queue) + j \in DOMAIN queue' /\ queue'[Len(queue) + j] = ops[j]
                              /\ \A k \in DOMAIN queue : k < Len(queue) + j
    BY <2>1 DEF Queued
  <2>4. \A j \in DOMAIN ops : Len(queue) + j \notin DOMAIN queue
    <3>1. \A k \in DOMAIN queue : ~(k < k)
      BY <1>0 DEF SessionTypeOK
    <3>. QED  BY <2>3, <3>1
  <2>5. \A j \in DOMAIN ops : \E i \in New : queue'[i] = ops[j]
    BY <2>3, <2>4 DEF New
  <2>6. \A i \in New : /\ \E j \in DOMAIN ops : queue'[i] = ops[j]
                       /\ \A k \in DOMAIN queue : k < i
    BY <2>2, <2>3
  <2>. QED  BY <1>2, <2>1, <2>5, <2>6 DEF QueueGrows, Queued
<1>. QED  BY <1>1, <1>2

LEMMA EnqueueOne ==
    ASSUME SessionInv, NEW new, Enqueue(<<new>>), new.step = "queued", rpc # None => new \in Ops
    PROVE  /\ QueueGrows
           /\ \A i \in New : rpc # None /\ queue'[i] = new
           /\ rpc # None => \E i \in New : queue'[i] = new
<1>. DEFINE ops == <<new>>
<1>1. /\ rpc # None => ops \in Seq(Ops)
      /\ \A j \in DOMAIN ops : ops[j] = new
      /\ 1 \in DOMAIN ops /\ Enqueue(ops)
  OBVIOUS
<1>. HIDE DEF ops
<1>. QED  BY <1>1, EnqueueGrows

LEMMA QueueSame ==
    ASSUME SessionInv, UNCHANGED queue
    PROVE  QueueGrows /\ New = {}
BY DEF SessionInv, SessionTypeOK, QueueGrows, New

(* The operation under way, after it.                                       *)
LEMMA HeadSame ==
    ASSUME SessionInv, QueueGrows
    PROVE  /\ \A s : s # "queued" => (At(s)' <=> At(s))
           /\ queue # <<>> => Current' = Current
<1>0. queue \in Seq(Ops) /\ queue' \in Seq(Ops)
  BY DEF SessionInv, SessionTypeOK, QueueGrows
<1>1. CASE queue # <<>>
  <2>1. 1 \in DOMAIN queue /\ Head(queue) = queue[1]
    BY <1>0, <1>1
  <2>2. queue'[1] = queue[1] /\ 1 \in DOMAIN queue'
    BY <2>1 DEF QueueGrows
  <2>3. queue' # <<>> /\ Head(queue') = queue'[1]
    BY <1>0, <2>2
  <2>. QED  BY <1>1, <2>1, <2>2, <2>3 DEF At, Current
<1>2. CASE queue = <<>>
  <2>1. ASSUME queue' # <<>> PROVE Current'.step = "queued"
    <3>1. 1 \in DOMAIN queue' /\ Head(queue') = queue'[1]
      BY <1>0, <2>1
    <3>2. 1 \in New
      BY <1>2, <3>1 DEF New
    <3>. QED  BY <3>1, <3>2 DEF QueueGrows, Current
  <2>. QED  BY <1>2, <2>1 DEF At
<1>. QED  BY <1>1, <1>2

LEMMA HeadGone ==
    ASSUME SessionInv, queue # <<>>, queue' = Tail(queue)
    PROVE  \A s : s # "queued" => ~At(s)'
<1>1. /\ queue' \in Seq(Ops)
      /\ \A i \in DOMAIN queue' : i + 1 \in DOMAIN queue /\ queue'[i] = queue[i + 1]
  BY QueuePopped DEF SessionInv
<1>2. ASSUME queue' # <<>> PROVE Current'.step = "queued"
  <2>1. 1 \in DOMAIN queue' /\ Head(queue') = queue'[1]
    BY <1>1, <1>2
  <2>2. 1 + 1 \in DOMAIN queue /\ queue'[1] = queue[1 + 1]
    BY <1>1, <2>1
  <2>. QED  BY <2>1, <2>2 DEF SessionInv, HeadOnly, Current
<1>. QED  BY <1>2 DEF At

LEMMA HeadPut ==
    ASSUME SessionInv, queue # <<>>, NEW new \in Ops, Put(new)
    PROVE  queue' # <<>> /\ Current' = new
<1>1. queue' \in Seq(Ops) /\ DOMAIN queue' = DOMAIN queue /\ queue'[1] = new
  BY QueuePut DEF SessionInv, Put
<1>2. 1 \in DOMAIN queue
  BY AtHead DEF SessionInv
<1>. QED  BY <1>1, <1>2 DEF Current

(* Its ways on.                                                             *)
AskedAs(new) ==
    LET op == Current
        d == op.doc
    IN  /\ Put(new) /\ SameButStep(new, op) /\ new.step = "asked" /\ UNCHANGED posted
        /\ new.snapshot = doc[d].text /\ new.sentUri = doc[d].uri /\ new.askEpoch = generation
        /\ new.askRevision = settingsRevision /\ new.answer = Answer(op.conn, doc[d].uri)
        /\ server[op.conn].alive

SentAs(new) ==
    LET op == Current
        d == op.doc
    IN  /\ Put(new) /\ SameButStep(new, op) /\ new.step = "synchronizing" /\ UNCHANGED posted
        /\ new.snapshot = doc[d].text /\ new.sentUri = doc[d].uri /\ new.askEpoch = generation
        /\ doc[d].sent # doc[d].text
        /\ doc' = [doc EXCEPT ![d].version = @ + 1]
        /\ \/ /\ server[op.conn].alive
              /\ doc[d].sent = None \/ server[op.conn].docs[doc[d].uri] # None
              /\ Opened(op.conn, doc[d].uri, doc[d].text, doc[d].version + 1)
           \/ /\ ~server[op.conn].alive \/ server[op.conn].docs[doc[d].uri] = None
              /\ ~server[op.conn].alive \/ doc[d].sent # None
              /\ UNCHANGED serverVars

LEMMA DocOfHead ==
    ASSUME SessionInv, queue # <<>>, Current.kind \in {"refresh", "hover"}
    PROVE  /\ Current.doc \in Docs /\ doc[Current.doc].state # "unopened"
           /\ doc[Current.doc] \in Documents /\ doc[Current.doc].uri \in Uris
           /\ doc[Current.doc].text \in Nat /\ doc[Current.doc].version \in Nat
BY HeadOk DEF OpOk, WasOpened, SessionInv, DocsOk, SessionTypeOK, Documents

LEMMA AskCases ==
    ASSUME SessionInv, queue # <<>>, Current.kind \in {"refresh", "hover"}, AskNext
    PROVE  Done \/ (Fails /\ ~server[Current.conn].alive) \/ \E new \in Ops : AskedAs(new)
<1>. DEFINE op == Current
           u == doc[op.doc].uri
           a == Answer(op.conn, u)
           new == [op EXCEPT !.step = "asked", !.snapshot = doc[op.doc].text,
                             !.sentUri = u, !.askEpoch = generation,
                             !.askRevision = settingsRevision, !.answer = a]
<1>0. SessionTypeOK /\ op \in Ops /\ OpOk(op)
  BY HeadOk DEF SessionInv
<1>1. op.doc \in Docs /\ u \in Uris /\ doc[op.doc].text \in Nat
  BY DocOfHead
<1>2. generation \in Nat /\ settingsRevision \in Nat
  BY <1>0 DEF SessionTypeOK
<1>3. a \in Messages \cup {None}
  <2>1. op.conn \in Conns /\ server[op.conn] \in Servers /\ server[op.conn].init # None
    BY <1>0 DEF OpOk, Launched, SessionTypeOK
  <2>2. ASSUME server[op.conn].docs[u] # None
        PROVE  Said(op.conn, server[op.conn], u) \in Messages
    BY <1>1, <2>1, <2>2, SaidOk
  <2>. QED  BY <2>2 DEF Answer, Messages
<1>4. \/ Done \/ (Fails /\ ~server[op.conn].alive)
      \/ server[op.conn].alive /\ Put(new) /\ UNCHANGED posted
  BY DEF AskNext
<1>5. /\ new \in Ops /\ SameButStep(new, op) /\ new.step = "asked"
      /\ new.snapshot = doc[op.doc].text /\ new.sentUri = u /\ new.askEpoch = generation
      /\ new.askRevision = settingsRevision /\ new.answer = a
  <2>. HIDE DEF a, u
  <2>1. op \in Ops
    BY <1>0
  <2>. HIDE DEF op
  <2>. QED  BY <1>1, <1>2, <1>3, <2>1 DEF Ops, SameButStep
<1>. HIDE DEF new
<1>. QED  BY <1>4, <1>5 DEF AskedAs

LEMMA SynchronizeCases ==
    ASSUME SessionInv, queue # <<>>, Current.kind \in {"refresh", "hover"}, Synchronize
    PROVE  \/ /\ doc[Current.doc].sent = doc[Current.doc].text
              /\ AskNext /\ UNCHANGED <<doc, serverVars>>
           \/ \E new \in Ops : SentAs(new)
<1>. DEFINE op == Current
           d == op.doc
           new == [op EXCEPT !.step = "synchronizing", !.snapshot = doc[d].text,
                             !.sentUri = doc[d].uri, !.askEpoch = generation]
<1>0. SessionTypeOK /\ op \in Ops /\ generation \in Nat
  BY HeadOk DEF SessionInv, SessionTypeOK
<1>1. CASE doc[d].sent = doc[d].text
  BY <1>1 DEF Synchronize
<1>2. CASE doc[d].sent # doc[d].text
  <2>1. /\ new \in Ops /\ SameButStep(new, op) /\ new.step = "synchronizing"
        /\ new.snapshot = doc[d].text /\ new.sentUri = doc[d].uri /\ new.askEpoch = generation
    BY <1>0, DocOfHead DEF Ops, SameButStep
  <2>2. doc' = [doc EXCEPT ![d].version = @ + 1] /\ Put(new) /\ UNCHANGED posted
    BY <1>2 DEF Synchronize
  <2>3. \/ /\ server[op.conn].alive
           /\ doc[d].sent = None \/ server[op.conn].docs[doc[d].uri] # None
           /\ Opened(op.conn, doc[d].uri, doc[d].text, doc[d].version + 1)
        \/ /\ ~server[op.conn].alive \/ server[op.conn].docs[doc[d].uri] = None
           /\ ~server[op.conn].alive \/ doc[d].sent # None
           /\ UNCHANGED serverVars
    BY <1>2 DEF Synchronize, Changed
  <2>. HIDE DEF new
  <2>4. SentAs(new)
    BY <1>2, <2>1, <2>2, <2>3 DEF SentAs
  <2>. QED  BY <2>1, <2>4
<1>. QED  BY <1>1, <1>2

-----------------------------------------------------------------------------
(* Names, and the order in which a name is closed and opened again.         *)

Live(op) == op.conn = rpc /\ op.epoch = generation
OfDoc(op, d) == op.kind \in {"refresh", "hover"} /\ op.doc = d
QueuedClose(i, u) == queue[i].kind = "close" /\ queue[i].uri = u /\ queue[i].step = "queued"

(* No two open documents have one name; the close of a name that has been   *)
(* given again comes before all that is queued for its new holder, which    *)
(* has sent nothing; and what is queued for a document that was closed is   *)
(* followed by its close.                                                   *)
NamesAreOwn == \A d, e \in Open : doc[d].uri = doc[e].uri => d = e

CloseFirst ==
    \A i \in DOMAIN queue : \A d \in Open :
        QueuedClose(i, doc[d].uri) =>
            /\ doc[d].sent = None
            /\ \A j \in DOMAIN queue : j <= i => ~OfDoc(queue[j], d)

CloseFollows ==
    \A i \in DOMAIN queue : \A d \in Docs :
        /\ queue[i].kind = "hover" /\ queue[i].step = "queued" /\ queue[i].doc = d
        /\ Live(queue[i]) /\ doc[d].state = "closed"
        => \E j \in DOMAIN queue : j > i /\ QueuedClose(j, doc[d].uri) /\ Live(queue[j])

Underway == At("synchronizing") /\ Current.askEpoch = generation
(* What is being sent is newer than what was, and goes by a name that will  *)
(* be closed if it is no longer the document's.                             *)
SendingOk ==
    Underway =>
        /\ Live(Current) /\ Current.snapshot <= doc[Current.doc].text
        /\ doc[Current.doc].sent # None => doc[Current.doc].sent < Current.snapshot
        /\ doc[Current.doc].uri # Current.sentUri =>
             \E i \in DOMAIN queue : queue[i].kind = "close" /\ queue[i].uri = Current.sentUri

SentOk == \A d \in Docs : doc[d].sent # None => doc[d].sent <= doc[d].text

NamesInv == NamesAreOwn /\ CloseFirst /\ CloseFollows /\ SendingOk /\ SentOk

(* Documents that keep their names.                                         *)
KeepName(d) ==
    /\ doc'[d].state = doc[d].state /\ doc'[d].uri = doc[d].uri
    /\ doc'[d].text \in Nat /\ doc[d].text <= doc'[d].text
    /\ doc'[d].sent \in {doc[d].sent, None}

LEMMA KeptNames ==
    ASSUME SessionInv, NamesInv, \A d \in Docs : KeepName(d),
           UNCHANGED <<rpc, generation>> \/ (generation' \in Nat /\ generation < generation'),
           QueueGrows,
           \A i \in New : /\ queue'[i].kind # "close"
                          /\ queue'[i].kind = "hover" => doc[queue'[i].doc].state = "open"
    PROVE  NamesInv'
<1>0. /\ doc \in [Docs -> Documents] /\ queue \in Seq(Ops) /\ queue' \in Seq(Ops)
      /\ generation \in Nat /\ DOMAIN queue \subseteq Nat /\ DOMAIN queue' \subseteq Nat
  BY DEF SessionInv, SessionTypeOK, QueueGrows
<1>1. Open' = Open
  BY DEF Open, KeepName
<1>2. NamesAreOwn'
  BY <1>1 DEF NamesInv, NamesAreOwn, KeepName, Open
<1>3. SentOk'
  BY <1>0 DEF NamesInv, SentOk, KeepName, Documents
<1>4. CloseFirst'
  <2>. SUFFICES ASSUME NEW i \in DOMAIN queue', NEW d \in Open,
                       queue'[i].kind = "close", queue'[i].uri = doc'[d].uri, queue'[i].step = "queued"
                PROVE  /\ doc'[d].sent = None
                       /\ \A j \in DOMAIN queue' : j <= i => ~OfDoc(queue'[j], d)
    BY <1>1 DEF CloseFirst, QueuedClose, OfDoc
  <2>1. i \in DOMAIN queue /\ queue'[i] = queue[i] /\ d \in Docs
    BY DEF New, QueueGrows, Open
  <2>2. /\ doc[d].sent = None
        /\ \A j \in DOMAIN queue : j <= i => ~OfDoc(queue[j], d)
    BY <2>1 DEF NamesInv, CloseFirst, QueuedClose, KeepName
  <2>3. \A j \in DOMAIN queue' : j <= i => j \in DOMAIN queue
    BY <1>0, <2>1 DEF New, QueueGrows
  <2>. QED  BY <2>1, <2>2, <2>3 DEF QueueGrows, KeepName
<1>5. CloseFollows'
  <2>. SUFFICES ASSUME NEW i \in DOMAIN queue', NEW d \in Docs,
                       queue'[i].kind = "hover", queue'[i].step = "queued", queue'[i].doc = d,
                       Live(queue[i])', doc'[d].state = "closed"
                PROVE  \E j \in DOMAIN queue' : j > i /\ QueuedClose(j, doc[d].uri)' /\ Live(queue[j])'
    BY DEF CloseFollows
  <2>1. i \in DOMAIN queue /\ queue'[i] = queue[i] /\ queue[i] \in Ops
    BY <1>0 DEF New, QueueGrows, KeepName
  <2>2. OpOk(queue[i])
    BY <2>1 DEF SessionInv, OpsOk, InQueue
  <2>3. queue[i].epoch = generation' /\ queue[i].epoch \in Nat /\ queue[i].epoch <= generation
    BY <2>1, <2>2 DEF Live, OpOk, Ops
  <2>4. UNCHANGED <<rpc, generation>>
    BY <1>0, <2>3
  <2>5. PICK j \in DOMAIN queue : j > i /\ QueuedClose(j, doc[d].uri) /\ Live(queue[j])
    BY <2>1, <2>4 DEF NamesInv, CloseFollows, Live, KeepName
  <2>6. j \in DOMAIN queue' /\ queue'[j] = queue[j] /\ doc'[d].uri = doc[d].uri
    BY DEF QueueGrows, KeepName
  <2>. QED  BY <2>4, <2>5, <2>6 DEF QueuedClose, Live
<1>6. SendingOk'
  <2>. SUFFICES ASSUME At("synchronizing")', (Current.askEpoch = generation)'
                PROVE  SendingOk'
    BY DEF SendingOk, Underway
  <2>1. At("synchronizing") /\ Current' = Current /\ queue # <<>>
    BY HeadSame DEF At
  <2>2. Current.kind \in {"refresh", "hover"} /\ Current.askEpoch <= generation /\ Current.askEpoch \in Nat
    BY <2>1, HeadOk DEF At, OpOk
  <2>3. UNCHANGED <<rpc, generation>>
    BY <1>0, <2>1, <2>2
  <2>4. Underway /\ Live(Current)
    BY <2>1, <2>3 DEF Underway, NamesInv, SendingOk
  <2>5. Current.doc \in Docs /\ Current.snapshot \in Nat
    BY <2>1, <2>2, DocOfHead, HeadOk DEF At, OpOk
  <2>. DEFINE d == Current.doc
  <2>6. Current.snapshot <= doc'[d].text
    BY <1>0, <2>4, <2>5 DEF NamesInv, SendingOk, KeepName, Documents
  <2>7. doc'[d].sent # None => doc'[d].sent < Current.snapshot
    BY <1>0, <2>4, <2>5 DEF NamesInv, SendingOk, KeepName
  <2>8. doc'[d].uri # Current.sentUri =>
             \E i \in DOMAIN queue' : queue'[i].kind = "close" /\ queue'[i].uri = Current.sentUri
    <3>1. doc'[d].uri = doc[d].uri
      BY <2>5 DEF KeepName
    <3>. QED  BY <2>4, <3>1 DEF NamesInv, SendingOk, QueueGrows
  <2>9. Live(Current)'
    BY <2>1, <2>3, <2>4 DEF Live
  <2>. QED  BY <2>1, <2>6, <2>7, <2>8, <2>9 DEF SendingOk
<1>. QED  BY <1>2, <1>3, <1>4, <1>5, <1>6 DEF NamesInv

(* The operation under way goes on or ends; it may mark what was sent.      *)
LEMMA HeadNames ==
    ASSUME SessionInv, NamesInv, queue # <<>>, UNCHANGED <<rpc, generation>>,
           \A d \in Docs :
             /\ doc'[d].state = doc[d].state /\ doc'[d].uri = doc[d].uri /\ doc'[d].text = doc[d].text
             /\ \/ doc'[d].sent = doc[d].sent
                \/ OfDoc(Current, d) /\ doc'[d].sent \in Nat /\ doc'[d].sent <= doc[d].text,
           \/ queue' = Tail(queue)
           \/ \E new \in Ops :
                /\ Put(new) /\ SameButStep(new, Current) /\ new.step # "queued"
                /\ new.step = "synchronizing" =>
                     /\ Live(new) /\ new.doc \in Docs /\ new.sentUri = doc[new.doc].uri
                     /\ new.snapshot = doc[new.doc].text
                     /\ doc'[new.doc].sent # new.snapshot
    PROVE  NamesInv'
<1>0. /\ doc \in [Docs -> Documents] /\ queue \in Seq(Ops)
      /\ generation \in Nat /\ DOMAIN queue = 1..Len(queue) /\ Len(queue) \in Nat \ {0}
      /\ 1 \in DOMAIN queue /\ Current = queue[1]
  BY AtHead DEF SessionInv, SessionTypeOK
<1>1. Open' = Open
  BY DEF Open
<1>2. NamesAreOwn'
  BY <1>1 DEF NamesInv, NamesAreOwn, Open
<1>3. SentOk'
  BY <1>0 DEF NamesInv, SentOk, Documents
<1>4. \A i \in DOMAIN queue : \A d \in Open : QueuedClose(i, doc[d].uri) =>
         /\ doc'[d].sent = None
         /\ \A j \in DOMAIN queue : j <= i => ~OfDoc(queue[j], d)
  <2>. SUFFICES ASSUME NEW i \in DOMAIN queue, NEW d \in Open, QueuedClose(i, doc[d].uri)
                PROVE  /\ doc'[d].sent = None
                       /\ \A j \in DOMAIN queue : j <= i => ~OfDoc(queue[j], d)
    OBVIOUS
  <2>1. doc[d].sent = None /\ \A j \in DOMAIN queue : j <= i => ~OfDoc(queue[j], d)
    BY DEF NamesInv, CloseFirst
  <2>2. ~OfDoc(Current, d) /\ d \in Docs
    BY <1>0, <2>1 DEF Open
  <2>. QED  BY <2>1, <2>2
<1>5. CASE queue' = Tail(queue)
  <2>1. /\ queue' \in Seq(Ops)
        /\ \A i \in DOMAIN queue' : i + 1 \in DOMAIN queue /\ queue'[i] = queue[i + 1]
        /\ \A i \in DOMAIN queue : i # 1 => i - 1 \in DOMAIN queue' /\ queue'[i - 1] = queue[i]
    BY <1>5, QueuePopped DEF SessionInv
  <2>2. DOMAIN queue' \subseteq Nat \ {0}
    BY <2>1
  <2>3. CloseFirst'
    <3>. SUFFICES ASSUME NEW i \in DOMAIN queue', NEW d \in Open,
                         queue'[i].kind = "close", queue'[i].uri = doc'[d].uri,
                         queue'[i].step = "queued"
                  PROVE  /\ doc'[d].sent = None
                         /\ \A j \in DOMAIN queue' : j <= i => ~OfDoc(queue'[j], d)
      BY <1>1 DEF CloseFirst, QueuedClose, OfDoc
    <3>1. i + 1 \in DOMAIN queue /\ QueuedClose(i + 1, doc[d].uri)
      BY <2>1 DEF QueuedClose, Open
    <3>2. doc'[d].sent = None /\ \A j \in DOMAIN queue : j <= i + 1 => ~OfDoc(queue[j], d)
      BY <1>4, <3>1
    <3>3. ASSUME NEW j \in DOMAIN queue', j <= i PROVE ~OfDoc(queue'[j], d)
      BY <2>1, <2>2, <3>2, <3>3
    <3>. QED  BY <3>2, <3>3
  <2>4. CloseFollows'
    <3>. SUFFICES ASSUME NEW i \in DOMAIN queue', NEW d \in Docs,
                       queue'[i].kind = "hover", queue'[i].step = "queued", queue'[i].doc = d,
                       Live(queue[i])', doc'[d].state = "closed"
                  PROVE  \E j \in DOMAIN queue' : j > i /\ QueuedClose(j, doc[d].uri)' /\ Live(queue[j])'
      BY DEF CloseFollows
    <3>1. i + 1 \in DOMAIN queue /\ queue[i + 1] = queue'[i]
      BY <2>1
    <3>2. PICK j \in DOMAIN queue : j > i + 1 /\ QueuedClose(j, doc[d].uri) /\ Live(queue[j])
      BY <3>1 DEF NamesInv, CloseFollows, Live
    <3>3. j - 1 \in DOMAIN queue' /\ queue'[j - 1] = queue[j] /\ j - 1 > i
      BY <1>0, <2>1, <2>2, <3>2
    <3>. QED  BY <3>2, <3>3 DEF QueuedClose, Live
  <2>5. SendingOk'
    BY <1>5, HeadGone DEF SendingOk, Underway
  <2>. QED  BY <1>2, <1>3, <2>3, <2>4, <2>5 DEF NamesInv
<1>6. ASSUME NEW new \in Ops, Put(new), SameButStep(new, Current), new.step # "queued",
             new.step = "synchronizing" =>
                     /\ Live(new) /\ new.doc \in Docs /\ new.sentUri = doc[new.doc].uri
                     /\ new.snapshot = doc[new.doc].text
                     /\ doc'[new.doc].sent # new.snapshot
      PROVE  NamesInv'
  <2>1. /\ queue' \in Seq(Ops) /\ DOMAIN queue' = DOMAIN queue /\ queue'[1] = new
        /\ \A i \in DOMAIN queue : i # 1 => queue'[i] = queue[i]
    BY <1>6, QueuePut DEF SessionInv, Put
  <2>2. \A j \in DOMAIN queue' : \A d : OfDoc(queue'[j], d) <=> OfDoc(queue[j], d)
    BY ZenonT(60), <1>0, <1>6, <2>1 DEF OfDoc, SameButStep
  <2>3. CloseFirst'
    <3>. SUFFICES ASSUME NEW i \in DOMAIN queue', NEW d \in Open,
                         queue'[i].kind = "close", queue'[i].uri = doc'[d].uri,
                         queue'[i].step = "queued"
                  PROVE  /\ doc'[d].sent = None
                         /\ \A j \in DOMAIN queue' : j <= i => ~OfDoc(queue'[j], d)
      BY <1>1 DEF CloseFirst, QueuedClose, OfDoc
    <3>1. i \in DOMAIN queue /\ QueuedClose(i, doc[d].uri)
      BY <1>6, <2>1 DEF QueuedClose, Open
    <3>. QED  BY <1>4, <2>1, <2>2, <3>1
  <2>4. CloseFollows'
    <3>. SUFFICES ASSUME NEW i \in DOMAIN queue', NEW d \in Docs,
                       queue'[i].kind = "hover", queue'[i].step = "queued", queue'[i].doc = d,
                       Live(queue[i])', doc'[d].state = "closed"
                  PROVE  \E j \in DOMAIN queue' : j > i /\ QueuedClose(j, doc[d].uri)' /\ Live(queue[j])'
      BY DEF CloseFollows
    <3>1. i \in DOMAIN queue /\ queue[i] = queue'[i] /\ i # 1
      BY <1>6, <2>1
    <3>2. PICK j \in DOMAIN queue : j > i /\ QueuedClose(j, doc[d].uri) /\ Live(queue[j])
      BY <3>1 DEF NamesInv, CloseFollows, Live
    <3>3. j \in 1..Len(queue) /\ i \in 1..Len(queue) /\ j > i
      BY <1>0, <3>1, <3>2
    <3>4. j # 1
      BY <1>0, <3>3
    <3>5. j \in DOMAIN queue' /\ queue'[j] = queue[j]
      BY <2>1, <3>2, <3>4
    <3>. QED  BY <3>2, <3>5 DEF QueuedClose, Live
  <2>5. Current' = new
    BY <1>6, HeadPut
  <2>6. ASSUME new.step = "synchronizing" PROVE SendingOk'
    <3>1. /\ Live(new) /\ new.doc \in Docs /\ new.sentUri = doc[new.doc].uri
          /\ new.snapshot = doc[new.doc].text /\ doc'[new.doc].sent # new.snapshot
      BY <1>6, <2>6
    <3>. DEFINE d == new.doc
    <3>2. doc[d].text \in Nat /\ doc'[d].text = doc[d].text /\ doc'[d].uri = doc[d].uri
      BY <1>0, <3>1 DEF Documents
    <3>3. doc'[d].sent # None => doc'[d].sent \in Nat /\ doc'[d].sent < new.snapshot
      <4>1. doc'[d].sent # None => doc'[d].sent \in Nat /\ doc'[d].sent <= doc[d].text
        BY <1>0, <3>1 DEF NamesInv, SentOk, Documents
      <4>. QED  BY <3>1, <3>2, <4>1
    <3>4. Live(Current)' /\ (Current.snapshot <= doc[Current.doc].text)'
      BY <2>5, <3>1, <3>2 DEF Live
    <3>5. ((doc[Current.doc].sent # None) => (doc[Current.doc].sent < Current.snapshot))'
      BY <2>5, <3>3
    <3>6. (doc[Current.doc].uri = Current.sentUri)'
      BY <2>5, <3>1, <3>2
    <3>. QED  BY <3>4, <3>5, <3>6 DEF SendingOk
  <2>7. ASSUME new.step # "synchronizing" PROVE SendingOk'
    BY <2>5, <2>7 DEF SendingOk, Underway, At
  <2>. QED  BY <1>2, <1>3, <2>3, <2>4, <2>6, <2>7 DEF NamesInv
<1>. QED  BY <1>5, <1>6

LEMMA RenameNames ==
    ASSUME SessionInv, NamesInv, ~reused', NEW d \in Docs, NEW u \in Uris, Rename(d, u)
    PROVE  NamesInv'
<1>. DEFINE new == [Close(doc[d].uri) EXCEPT !.then = "renamed", !.doc = d]
<1>0. /\ doc \in [Docs -> Documents] /\ queue \in Seq(Ops) /\ rpc \in Conns \cup {None}
      /\ DOMAIN queue \subseteq Nat /\ generation \in Nat
  BY DEF SessionInv, SessionTypeOK
<1>1. /\ doc' = [doc EXCEPT ![d] = [Cleared(@) EXCEPT !.uri = u, !.sent = None]]
      /\ UNCHANGED <<rpc, generation>>
      /\ doc[d].state = "open" /\ Enqueue(<<new>>) /\ u # doc[d].uri /\ doc[d].uri \in Uris
      /\ \A e \in Open : doc[e].uri # u
      /\ \A i \in DOMAIN queue : queue[i].kind = "close" => queue[i].uri # u
  BY DEF Rename, Open, ByUri, sessionVars, SessionInv, DocsOk
<1>2. /\ doc'[d].state = "open" /\ doc'[d].uri = u /\ doc'[d].sent = None
      /\ doc'[d].text = doc[d].text
      /\ \A e \in Docs : e # d => doc'[e] = doc[e]
  BY <1>0, <1>1 DEF Cleared, Documents
<1>3. /\ new.step = "queued" /\ new.kind = "close" /\ new.uri = doc[d].uri
      /\ rpc # None => new \in Ops
  BY <1>0, <1>1 DEF Close, Op, Ops
<1>. HIDE DEF new
<1>4. /\ QueueGrows
      /\ \A i \in New : rpc # None /\ queue'[i] = new
      /\ rpc # None => \E i \in New : queue'[i] = new
  BY <1>1, <1>3, EnqueueOne
<1>5. Open' = Open /\ d \in Open
  BY <1>1, <1>2 DEF Open
<1>6. NamesAreOwn'
  BY <1>1, <1>2, <1>5 DEF NamesInv, NamesAreOwn, Open
<1>7. SentOk'
  BY <1>2 DEF NamesInv, SentOk
<1>8. CloseFirst'
  <2>. SUFFICES ASSUME NEW i \in DOMAIN queue', NEW e \in Open,
                       queue'[i].kind = "close", queue'[i].uri = doc'[e].uri,
                       queue'[i].step = "queued"
                PROVE  /\ doc'[e].sent = None
                       /\ \A j \in DOMAIN queue' : j <= i => ~OfDoc(queue'[j], e)
    BY <1>5 DEF CloseFirst, QueuedClose, OfDoc
  <2>1. e # d
    <3>1. CASE i \in DOMAIN queue
      BY <1>1, <1>2, <1>4, <3>1 DEF QueueGrows
    <3>2. CASE i \in New
      BY <1>1, <1>2, <1>3, <1>4, <3>2
    <3>. QED  BY <3>1, <3>2 DEF New
  <2>2. e \in Docs /\ doc'[e] = doc[e] /\ doc[e].uri # doc[d].uri
    BY <1>2, <1>5, <2>1 DEF Open, NamesInv, NamesAreOwn
  <2>3. i \in DOMAIN queue /\ queue'[i] = queue[i]
    BY <1>3, <1>4, <2>2 DEF New, QueueGrows
  <2>4. doc[e].sent = None /\ \A j \in DOMAIN queue : j <= i => ~OfDoc(queue[j], e)
    BY <2>2, <2>3 DEF NamesInv, CloseFirst, QueuedClose
  <2>5. \A j \in DOMAIN queue' : j <= i => j \in DOMAIN queue
    <3>1. ASSUME NEW j \in DOMAIN queue', j <= i, j \notin DOMAIN queue PROVE FALSE
      <4>1. i < j
        BY <1>4, <2>3, <3>1 DEF New, QueueGrows
      <4>2. DOMAIN queue' \subseteq Nat
        BY <1>4 DEF QueueGrows
      <4>. QED  BY <3>1, <4>1, <4>2
    <3>. QED  BY <3>1
  <2>. QED  BY <1>4, <2>2, <2>4, <2>5 DEF QueueGrows
<1>9. CloseFollows'
  <2>. SUFFICES ASSUME NEW i \in DOMAIN queue', NEW e \in Docs,
                     queue'[i].kind = "hover", queue'[i].step = "queued", queue'[i].doc = e,
                     Live(queue[i])', doc'[e].state = "closed"
                PROVE  \E j \in DOMAIN queue' : j > i /\ QueuedClose(j, doc[e].uri)' /\ Live(queue[j])'
    BY DEF CloseFollows
  <2>1. i \in DOMAIN queue /\ queue'[i] = queue[i] /\ doc'[e] = doc[e]
    BY <1>2, <1>3, <1>4 DEF New, QueueGrows
  <2>2. PICK j \in DOMAIN queue : j > i /\ QueuedClose(j, doc[e].uri) /\ Live(queue[j])
    BY <1>1, <2>1 DEF NamesInv, CloseFollows, Live
  <2>3. j \in DOMAIN queue' /\ queue'[j] = queue[j]
    BY <1>4 DEF QueueGrows
  <2>. QED  BY <1>1, <2>1, <2>2, <2>3 DEF QueuedClose, Live
<1>10. SendingOk'
  <2>. SUFFICES ASSUME At("synchronizing")', (Current.askEpoch = generation)'
                PROVE  SendingOk'
    BY DEF SendingOk, Underway
  <2>1. At("synchronizing") /\ Current' = Current /\ queue # <<>>
    BY <1>4, HeadSame DEF At
  <2>2. Underway
    BY <1>1, <2>1 DEF Underway
  <2>3. Current.doc \in Docs /\ Current.conn \in Conns
    BY <2>1, DocOfHead, HeadOk DEF At, OpOk, Ops
  <2>4. Live(Current) /\ rpc # None
    BY <2>2, <2>3, ConnsAssumption DEF NamesInv, SendingOk, Live
  <2>5. PICK n \in New : queue'[n] = new
    BY <1>4, <2>4
  <2>6. \/ \E i \in DOMAIN queue' : queue'[i].kind = "close" /\ queue'[i].uri = Current.sentUri
        \/ doc'[Current.doc].uri = Current.sentUri
    <3>1. CASE \E i \in DOMAIN queue : queue[i].kind = "close" /\ queue[i].uri = Current.sentUri
      BY <1>4, <3>1 DEF QueueGrows
    <3>2. CASE doc[Current.doc].uri = Current.sentUri
      <4>1. CASE Current.doc = d
        BY <1>3, <2>5, <3>2, <4>1 DEF New
      <4>2. CASE Current.doc # d
        <5>1. doc'[Current.doc] = doc[Current.doc]
          BY <1>2, <2>3, <4>2
        <5>. QED  BY <2>5, <3>2, <5>1 DEF New
      <4>. QED  BY <4>1, <4>2
    <3>. QED  BY <2>2, <3>1, <3>2 DEF NamesInv, SendingOk
  <2>7. Current.snapshot <= doc'[Current.doc].text
    BY <1>2, <2>2, <2>3 DEF NamesInv, SendingOk
  <2>8. doc'[Current.doc].sent # None => doc'[Current.doc].sent < Current.snapshot
    BY <1>2, <2>2, <2>3 DEF NamesInv, SendingOk
  <2>. QED  BY <1>1, <2>1, <2>4, <2>6, <2>7, <2>8 DEF SendingOk, Live
<1>. QED  BY <1>6, <1>7, <1>8, <1>9, <1>10 DEF NamesInv

LEMMA EarlierOnes ==
    ASSUME SessionInv, QueueGrows, NEW i \in DOMAIN queue, NEW j \in DOMAIN queue', j <= i
    PROVE  j \in DOMAIN queue
<1>1. DOMAIN queue \subseteq Nat /\ DOMAIN queue' \subseteq Nat
  BY DEF SessionInv, SessionTypeOK, QueueGrows
<1>2. ASSUME j \notin DOMAIN queue PROVE FALSE
  <2>1. i < j
    BY <1>2 DEF New, QueueGrows
  <2>. QED  BY <1>1, <2>1
<1>. QED  BY <1>2

LEMMA CloseViewNames ==
    ASSUME SessionInv, NamesInv, NEW d \in Docs, CloseView(d)
    PROVE  NamesInv'
<1>. DEFINE new == Close(doc[d].uri)
<1>0. /\ doc \in [Docs -> Documents] /\ queue \in Seq(Ops) /\ rpc \in Conns \cup {None}
      /\ DOMAIN queue \subseteq Nat /\ generation \in Nat
  BY DEF SessionInv, SessionTypeOK
<1>1. /\ doc' = [doc EXCEPT ![d].state = "closed"]
      /\ UNCHANGED <<rpc, generation>>
      /\ doc[d].state = "open" /\ Enqueue(<<new>>) /\ doc[d].uri \in Uris
  BY DEF CloseView, Open, sessionVars, SessionInv, DocsOk
<1>2. /\ doc'[d].state = "closed" /\ doc'[d].uri = doc[d].uri /\ doc'[d].sent = doc[d].sent
      /\ doc'[d].text = doc[d].text
      /\ \A e \in Docs : e # d => doc'[e] = doc[e]
  BY <1>0, <1>1 DEF Documents
<1>3. /\ new.step = "queued" /\ new.kind = "close" /\ new.uri = doc[d].uri
      /\ new.conn = rpc /\ new.epoch = generation
      /\ rpc # None => new \in Ops
  BY <1>0, <1>1 DEF Close, Op, Ops
<1>. HIDE DEF new
<1>4. /\ QueueGrows
      /\ \A i \in New : rpc # None /\ queue'[i] = new
      /\ rpc # None => \E i \in New : queue'[i] = new
  BY <1>1, <1>3, EnqueueOne
<1>5. Open' = Open \ {d} /\ d \in Open
  BY <1>1, <1>2 DEF Open
<1>6. NamesAreOwn'
  BY <1>2, <1>5 DEF NamesInv, NamesAreOwn, Open
<1>7. SentOk'
  BY <1>2 DEF NamesInv, SentOk
<1>8. CloseFirst'
  <2>. SUFFICES ASSUME NEW i \in DOMAIN queue', NEW e \in Open, e # d,
                       queue'[i].kind = "close", queue'[i].uri = doc'[e].uri,
                       queue'[i].step = "queued"
                PROVE  /\ doc'[e].sent = None
                       /\ \A j \in DOMAIN queue' : j <= i => ~OfDoc(queue'[j], e)
    BY <1>5 DEF CloseFirst, QueuedClose, OfDoc
  <2>1. e \in Docs /\ doc'[e] = doc[e] /\ doc[e].uri # doc[d].uri
    BY <1>2, <1>5 DEF Open, NamesInv, NamesAreOwn
  <2>2. i \in DOMAIN queue /\ queue'[i] = queue[i]
    BY <1>3, <1>4, <2>1 DEF New, QueueGrows
  <2>3. doc[e].sent = None /\ \A j \in DOMAIN queue : j <= i => ~OfDoc(queue[j], e)
    BY <2>1, <2>2 DEF NamesInv, CloseFirst, QueuedClose
  <2>4. \A j \in DOMAIN queue' : j <= i => j \in DOMAIN queue
    BY <1>4, <2>2, EarlierOnes
  <2>. QED  BY <1>4, <2>1, <2>3, <2>4 DEF QueueGrows
<1>9. CloseFollows'
  <2>. SUFFICES ASSUME NEW i \in DOMAIN queue', NEW e \in Docs,
                     queue'[i].kind = "hover", queue'[i].step = "queued", queue'[i].doc = e,
                     Live(queue[i])', doc'[e].state = "closed"
                PROVE  \E j \in DOMAIN queue' : j > i /\ QueuedClose(j, doc[e].uri)' /\ Live(queue[j])'
    BY DEF CloseFollows
  <2>1. i \in DOMAIN queue /\ queue'[i] = queue[i] /\ doc'[e].uri = doc[e].uri
    BY <1>2, <1>3, <1>4 DEF New, QueueGrows
  <2>2. CASE e = d
    <3>1. queue[i] \in Ops /\ queue[i].conn = rpc
      BY <1>0, <1>1, <2>1 DEF Live
    <3>2. rpc # None
      BY <3>1, ConnsAssumption DEF Ops
    <3>3. PICK j \in New : queue'[j] = new
      BY <1>4, <3>2
    <3>4. j \in DOMAIN queue' /\ i < j /\ i \in Nat /\ j \in Nat
      BY <1>0, <1>4, <2>1 DEF New, QueueGrows
    <3>5. QueuedClose(j, doc[e].uri)' /\ Live(queue[j])'
      BY <1>1, <1>2, <1>3, <2>2, <3>3 DEF QueuedClose, Live
    <3>. QED  BY <3>4, <3>5
  <2>3. CASE e # d
    <3>1. PICK j \in DOMAIN queue : j > i /\ QueuedClose(j, doc[e].uri) /\ Live(queue[j])
      BY <1>1, <1>2, <2>1, <2>3 DEF NamesInv, CloseFollows, Live
    <3>2. j \in DOMAIN queue' /\ queue'[j] = queue[j]
      BY <1>4 DEF QueueGrows
    <3>. QED  BY <1>1, <2>1, <3>1, <3>2 DEF QueuedClose, Live
  <2>. QED  BY <2>2, <2>3
<1>10. SendingOk'
  <2>. SUFFICES ASSUME At("synchronizing")', (Current.askEpoch = generation)'
                PROVE  SendingOk'
    BY DEF SendingOk, Underway
  <2>1. At("synchronizing") /\ Current' = Current /\ queue # <<>>
    BY <1>4, HeadSame DEF At
  <2>2. Underway
    BY <1>1, <2>1 DEF Underway
  <2>3. Current.doc \in Docs
    BY <2>1, DocOfHead, HeadOk DEF At, OpOk
  <2>4. /\ doc'[Current.doc].uri = doc[Current.doc].uri /\ doc'[Current.doc].text = doc[Current.doc].text
        /\ doc'[Current.doc].sent = doc[Current.doc].sent
    BY <1>2, <2>3
  <2>5. doc[Current.doc].uri # Current.sentUri =>
          \E i \in DOMAIN queue' : queue'[i].kind = "close" /\ queue'[i].uri = Current.sentUri
    BY <1>4, <2>2 DEF NamesInv, SendingOk, QueueGrows
  <2>. QED  BY <1>1, <2>1, <2>2, <2>4, <2>5 DEF NamesInv, SendingOk, Live
<1>. QED  BY <1>6, <1>7, <1>8, <1>9, <1>10 DEF NamesInv

LEMMA RegisterNames ==
    ASSUME SessionInv, NamesInv, NEW d \in Docs, NEW u \in Uris, NEW f \in BOOLEAN, Register(d, u, f)
    PROVE  NamesInv'
<1>. DEFINE ops == IF f THEN <<Refresh(d), Refresh(d)>> ELSE <<Refresh(d)>>
<1>0. /\ doc \in [Docs -> Documents] /\ queue \in Seq(Ops) /\ rpc \in Conns \cup {None}
      /\ DOMAIN queue \subseteq Nat /\ generation \in Nat /\ SessionTypeOK
  BY DEF SessionInv, SessionTypeOK
<1>1. /\ doc' = [doc EXCEPT ![d].state = "open", ![d].uri = u]
      /\ UNCHANGED <<rpc, generation>>
      /\ doc[d].state = "unopened" /\ doc[d] = NewDoc /\ Enqueue(ops)
      /\ \A e \in Open : doc[e].uri # u
  BY DEF Register, Open, ByUri, sessionVars, SessionInv, DocsOk
<1>2. /\ doc'[d].state = "open" /\ doc'[d].uri = u /\ doc'[d].sent = None
      /\ doc'[d].text = doc[d].text
      /\ \A e \in Docs : e # d => doc'[e] = doc[e]
  BY <1>0, <1>1 DEF Documents, NewDoc
<1>3. /\ \A j \in DOMAIN ops : ops[j] = Refresh(d)
      /\ Refresh(d).step = "queued" /\ Refresh(d).kind = "refresh"
      /\ rpc # None => Refresh(d) \in Ops
  BY <1>0, OpMade DEF Refresh, Op
<1>4. rpc # None => ops \in Seq(Ops)
  BY <1>3
<1>. HIDE DEF ops
<1>5. /\ QueueGrows
      /\ \A i \in New : rpc # None /\ queue'[i] = Refresh(d)
  BY <1>1, <1>3, <1>4, EnqueueGrows
<1>6. Open' = Open \cup {d} /\ d \notin Open
  BY <1>1, <1>2 DEF Open
<1>7. NamesAreOwn'
  BY <1>1, <1>2, <1>6 DEF NamesInv, NamesAreOwn, Open
<1>8. SentOk'
  BY <1>2 DEF NamesInv, SentOk
<1>9. \A i \in DOMAIN queue : ~OfDoc(queue[i], d)
  <2>. SUFFICES ASSUME NEW i \in DOMAIN queue, OfDoc(queue[i], d) PROVE FALSE
    OBVIOUS
  <2>1. OpOk(queue[i])
    BY <1>0 DEF SessionInv, OpsOk, InQueue
  <2>. QED  BY <1>1, <2>1 DEF OpOk, OfDoc, WasOpened
<1>10. CloseFirst'
  <2>. SUFFICES ASSUME NEW i \in DOMAIN queue', NEW e \in Open \cup {d},
                       queue'[i].kind = "close", queue'[i].uri = doc'[e].uri,
                       queue'[i].step = "queued"
                PROVE  /\ doc'[e].sent = None
                       /\ \A j \in DOMAIN queue' : j <= i => ~OfDoc(queue'[j], e)
    BY <1>6 DEF CloseFirst, QueuedClose, OfDoc
  <2>1. i \in DOMAIN queue /\ queue'[i] = queue[i]
    BY <1>3, <1>5 DEF New, QueueGrows
  <2>2. \A j \in DOMAIN queue' : j <= i => j \in DOMAIN queue /\ queue'[j] = queue[j]
    BY <1>5, <2>1, EarlierOnes DEF QueueGrows
  <2>3. CASE e = d
    BY <1>2, <1>9, <2>2, <2>3
  <2>4. CASE e # d
    <3>1. e \in Open /\ doc'[e] = doc[e]
      BY <1>2, <2>4 DEF Open
    <3>2. doc[e].sent = None /\ \A j \in DOMAIN queue : j <= i => ~OfDoc(queue[j], e)
      BY <2>1, <3>1 DEF NamesInv, CloseFirst, QueuedClose
    <3>. QED  BY <2>2, <3>1, <3>2
  <2>. QED  BY <2>3, <2>4
<1>11. CloseFollows'
  <2>. SUFFICES ASSUME NEW i \in DOMAIN queue', NEW e \in Docs,
                     queue'[i].kind = "hover", queue'[i].step = "queued", queue'[i].doc = e,
                     Live(queue[i])', doc'[e].state = "closed"
                PROVE  \E j \in DOMAIN queue' : j > i /\ QueuedClose(j, doc[e].uri)' /\ Live(queue[j])'
    BY DEF CloseFollows
  <2>1. i \in DOMAIN queue /\ queue'[i] = queue[i] /\ doc'[e] = doc[e]
    BY <1>2, <1>3, <1>5 DEF New, QueueGrows
  <2>2. PICK j \in DOMAIN queue : j > i /\ QueuedClose(j, doc[e].uri) /\ Live(queue[j])
    BY <1>1, <2>1 DEF NamesInv, CloseFollows, Live
  <2>3. j \in DOMAIN queue' /\ queue'[j] = queue[j]
    BY <1>5 DEF QueueGrows
  <2>. QED  BY <1>1, <2>1, <2>2, <2>3 DEF QueuedClose, Live
<1>12. SendingOk'
  <2>. SUFFICES ASSUME At("synchronizing")', (Current.askEpoch = generation)'
                PROVE  SendingOk'
    BY DEF SendingOk, Underway
  <2>1. At("synchronizing") /\ Current' = Current /\ queue # <<>>
    BY <1>5, HeadSame DEF At
  <2>2. Underway
    BY <1>1, <2>1 DEF Underway
  <2>3. Current.doc \in Docs /\ Current.doc # d
    BY <1>1, <2>1, DocOfHead, HeadOk DEF At, OpOk
  <2>4. doc'[Current.doc] = doc[Current.doc]
    BY <1>2, <2>3
  <2>5. doc[Current.doc].uri # Current.sentUri =>
          \E i \in DOMAIN queue' : queue'[i].kind = "close" /\ queue'[i].uri = Current.sentUri
    BY <1>5, <2>2 DEF NamesInv, SendingOk, QueueGrows
  <2>. QED  BY <1>1, <2>1, <2>2, <2>4, <2>5 DEF NamesInv, SendingOk, Live
<1>. QED  BY <1>7, <1>8, <1>10, <1>11, <1>12 DEF NamesInv

-----------------------------------------------------------------------------
(* Steps that leave the names, and what was sent, as they are.              *)

KeepDoc(d) ==
    /\ doc'[d].state = doc[d].state /\ doc'[d].uri = doc[d].uri
    /\ doc'[d].sent = doc[d].sent /\ doc'[d].version = doc[d].version
    /\ ShowsLess(doc'[d], doc[d])
KeepText(d) == doc'[d].text = doc[d].text

Calm ==
    /\ UNCHANGED <<rpc, generation, life, server, news>>
    /\ \A d \in Docs : KeepDoc(d) /\ doc'[d].text \in Nat /\ doc[d].text <= doc'[d].text
    /\ QueueGrows
    /\ \A i \in New : /\ rpc # None /\ Live(queue'[i])
                      /\ queue'[i].kind \in {"refresh", "hover", "configure"}
                      /\ queue'[i].kind = "hover" => doc[queue'[i].doc].state = "open"

LEMMA RefreshIsLive ==
    ASSUME NEW d
    PROVE  /\ Refresh(d).kind = "refresh" /\ Refresh(d).doc = d /\ Refresh(d).step = "queued"
           /\ Refresh(d).then = None /\ Live(Refresh(d))
BY DEF Refresh, Op, Live

LEMMA RefreshAdded ==
    ASSUME SessionInv, NEW d \in Docs, Enqueue(<<Refresh(d)>>)
    PROVE  /\ QueueGrows
           /\ \A i \in New : /\ rpc # None /\ Live(queue'[i]) /\ queue'[i] = Refresh(d)
                             /\ queue'[i].kind = "refresh"
           /\ rpc # None => \E i \in New : queue'[i] = Refresh(d)
<1>1. rpc # None => Refresh(d) \in Ops
  BY OpMade DEF SessionInv, Refresh
<1>. QED  BY <1>1, RefreshIsLive, EnqueueOne

LEMMA SameDocs ==
    ASSUME SessionInv, UNCHANGED doc
    PROVE  \A d \in Docs : KeepDoc(d) /\ KeepText(d) /\ doc'[d].text \in Nat /\ doc[d].text <= doc'[d].text
BY DEF SessionInv, SessionTypeOK, Documents, KeepDoc, KeepText, ShowsLess

LEMMA ActivateCalm ==
    ASSUME SessionInv, NEW d \in Docs \cup {None}, Activate(d)
    PROVE  /\ Calm /\ UNCHANGED <<doc, posted, timer, options, settingsRevision>>
           /\ \A i \in New : queue'[i].kind = "refresh"
<1>0. /\ UNCHANGED <<doc, posted, timer, options, settingsRevision, rpc, generation, life, server, news>>
  BY DEF Activate, sessionVars, clientVars, serverVars
<1>1. CASE d \in Open
  <2>1. CASE Enqueue(<<Refresh(d)>>)
    <3>1. d \in Docs
      BY <1>1 DEF Open
    <3>. QED  BY <1>0, <2>1, <3>1, RefreshAdded, SameDocs DEF Calm
  <2>2. CASE UNCHANGED queue
    BY <1>0, <2>2, QueueSame, SameDocs DEF Calm
  <2>. QED  BY <2>1, <2>2 DEF Activate
<1>2. CASE d \notin Open
  <2>1. UNCHANGED queue
    BY <1>2, NoneAssumption DEF Activate, ActiveIn, Open
  <2>. QED  BY <1>0, <2>1, QueueSame, SameDocs DEF Calm
<1>. QED  BY <1>1, <1>2

LEMMA EditCalm ==
    ASSUME SessionInv, NEW d \in Docs, Edit(d)
    PROVE  /\ Calm /\ New = {} /\ UNCHANGED <<queue, timer, options, settingsRevision>>
           /\ posted' = Append(posted, Task("changed", d, None))
           /\ \A e \in Docs : e # d => doc'[e] = doc[e]
           /\ doc'[d].functions = doc[d].functions
<1>0. /\ UNCHANGED <<queue, timer, options, settingsRevision, rpc, generation, life, server, news>>
      /\ posted' = Append(posted, Task("changed", d, None))
      /\ doc' = [doc EXCEPT ![d].text = doc[d].text + 1]
  BY DEF Edit, Post, sessionVars, clientVars, serverVars
<1>1. doc \in [Docs -> Documents]
  BY DEF SessionInv, SessionTypeOK
<1>2. /\ doc'[d].text = doc[d].text + 1 /\ doc[d].text \in Nat
      /\ \A e \in Docs : KeepDoc(e)
      /\ \A e \in Docs : e # d => doc'[e] = doc[e] /\ doc[e].text \in Nat
      /\ doc'[d].functions = doc[d].functions
  BY <1>0, <1>1 DEF Documents, KeepDoc, ShowsLess
<1>. QED  BY <1>0, <1>2, QueueSame DEF Calm

LEMMA HoverCalm ==
    ASSUME SessionInv, NEW d \in Docs, Hover(d)
    PROVE  /\ Calm /\ UNCHANGED <<doc, posted, timer, options, settingsRevision>>
           /\ \A i \in New : queue'[i].kind = "hover"
<1>. DEFINE new == Op("hover", d, None)
<1>0. /\ UNCHANGED <<doc, posted, timer, options, settingsRevision, rpc, generation, life, server, news>>
      /\ doc[d].state = "open" /\ Enqueue(<<new>>)
  BY DEF Hover, Open, sessionVars, clientVars, serverVars
<1>1. new.step = "queued" /\ new.kind = "hover" /\ new.doc = d /\ Live(new)
  BY DEF Op, Live
<1>2. rpc # None => new \in Ops
  BY OpMade DEF SessionInv
<1>. HIDE DEF new
<1>3. QueueGrows /\ \A i \in New : rpc # None /\ queue'[i] = new
  BY <1>0, <1>1, <1>2, EnqueueOne
<1>. QED  BY <1>0, <1>1, <1>3, SameDocs DEF Calm

LEMMA ConfigureCalm ==
    ASSUME SessionInv, NEW s \in Settings, Configure(s)
    PROVE  /\ Calm /\ UNCHANGED <<posted, timer>> /\ \A d \in Docs : KeepText(d)
           /\ \A d \in Docs : doc[d].state = "open" => ShowsNothing(doc'[d])
           /\ options' = s /\ missed' = (life = "starting")
           /\ \A i \in New : /\ queue'[i].kind = "configure" /\ queue'[i].settings = s
                             /\ Live(queue'[i])
           /\ rpc # None => New # {}
<1>. DEFINE new == [Op("configure", None, None) EXCEPT !.settings = s, !.then = "configured"]
<1>0. /\ UNCHANGED <<posted, timer, rpc, generation, life, server, news>>
      /\ doc' = AllCleared /\ Enqueue(<<new>>) /\ options' = s
      /\ missed' = (life = "starting")
  BY DEF Configure, serverVars
<1>1. new.step = "queued" /\ new.kind = "configure" /\ new.settings = s /\ Live(new)
  BY DEF Op, Live
<1>2. rpc # None => new \in Ops
  BY DEF Op, Ops, SessionInv, SessionTypeOK
<1>. HIDE DEF new
<1>3. /\ QueueGrows /\ \A i \in New : rpc # None /\ queue'[i] = new
      /\ rpc # None => \E i \in New : queue'[i] = new
  BY <1>0, <1>1, <1>2, EnqueueOne
<1>4. doc \in [Docs -> Documents]
  BY DEF SessionInv, SessionTypeOK
<1>5. \A d \in Docs : KeepDoc(d) /\ KeepText(d) /\ doc[d].text \in Nat
  BY <1>0, <1>4 DEF AllCleared, Cleared, Open, Documents, KeepDoc, KeepText, ShowsLess
<1>6. \A d \in Docs : doc[d].state = "open" => ShowsNothing(doc'[d])
  BY <1>0, <1>4 DEF AllCleared, Cleared, Open, Documents, ShowsNothing
<1>7. \A d \in Docs : doc[d].text <= doc'[d].text /\ doc'[d].text \in Nat
  BY <1>5 DEF KeepText
<1>8. \A i \in New : /\ rpc # None /\ Live(queue'[i]) /\ queue'[i].kind = "configure"
                     /\ queue'[i].settings = s
  BY <1>1, <1>3
<1>9. Calm
  BY <1>0, <1>3, <1>5, <1>7, <1>8 DEF Calm
<1>. QED  BY <1>0, <1>3, <1>5, <1>6, <1>8, <1>9

LEMMA DebouncedCalm ==
    ASSUME SessionInv, NEW d \in Docs, Debounced(d)
    PROVE  /\ Calm /\ UNCHANGED <<doc, posted, options, settingsRevision>>
           /\ timer' = timer \ {d}
           /\ \A i \in New : queue'[i].kind = "refresh"
           /\ rpc # None => \E i \in New : queue'[i] = Refresh(d)
<1>0. /\ UNCHANGED <<doc, posted, options, settingsRevision, rpc, generation, life, server, news>>
      /\ Enqueue(<<Refresh(d)>>) /\ timer' = timer \ {d}
  BY DEF Debounced, sessionVars, clientVars, serverVars
<1>. QED  BY <1>0, RefreshAdded, SameDocs DEF Calm

Halts == Stopped /\ rpc' = None /\ UNCHANGED queue

LEMMA RunPostedCases ==
    ASSUME SessionInv, NEW i \in DOMAIN posted, RunPosted(i)
    PROVE  LET k == posted[i]
           IN  /\ UNCHANGED <<life, server, news, options, settingsRevision>>
               /\ \A t \in Tasks : IsPosted(t)' => IsPosted(t)
               /\ \A t \in Tasks : IsPosted(t) => IsPosted(t)' \/ t = k
               /\ \/ Halts /\ UNCHANGED timer /\ k.kind = "disconnected" /\ life # "up"
                  \/ /\ Calm /\ \A d \in Docs : KeepText(d)
                     /\ timer \subseteq timer'
                     /\ k.kind = "changed" /\ k.doc \in Open =>
                          k.doc \in timer' /\ ShowsNothing(doc'[k.doc])
                     /\ k.kind = "renamed" => (rpc # None => \E n \in New : queue'[n] = Refresh(k.doc))
                     /\ k.kind = "configured" => \A d \in Open : doc'[d].functions = None
                     /\ \A n \in New : queue'[n].kind = "refresh"
<1>. DEFINE k == posted[i]
<1>0. /\ doc \in [Docs -> Documents] /\ SessionTypeOK
      /\ k \in Tasks /\ TaskOk(k) /\ Continue(k)
      /\ UNCHANGED <<life, server, news, options, settingsRevision>>
  BY TaskTaken DEF SessionInv, SessionTypeOK
<1>1. /\ \A t \in Tasks : IsPosted(t)' => IsPosted(t)
      /\ \A t \in Tasks : IsPosted(t) => IsPosted(t)' \/ t = k
  BY <1>0, PostedLess DEF RunPosted
<1>. HIDE DEF k
<1>2. CASE k.kind = "changed" /\ k.doc \in Open
  <2>1. /\ doc' = [doc EXCEPT ![k.doc] = Cleared(doc[k.doc])] /\ timer' = timer \cup {k.doc}
        /\ UNCHANGED <<rpc, generation, queue>> /\ k.doc \in Docs
    BY <1>0, <1>2 DEF Continue, Open
  <2>2. /\ \A d \in Docs : KeepDoc(d) /\ KeepText(d) /\ doc[d].text \in Nat
        /\ ShowsNothing(doc'[k.doc])
    BY <1>0, <2>1 DEF Cleared, KeepDoc, KeepText, ShowsLess, ShowsNothing, Documents
  <2>3. \A d \in Docs : doc'[d].text \in Nat /\ doc[d].text <= doc'[d].text
    BY <2>2 DEF KeepText
  <2>4. Calm /\ New = {}
    BY <1>0, <2>1, <2>2, <2>3, QueueSame DEF Calm
  <2>. QED  BY <1>0, <1>1, <1>2, <2>1, <2>2, <2>4 DEF k
<1>3. CASE k.kind = "renamed"
  <2>1. Enqueue(<<Refresh(k.doc)>>) /\ UNCHANGED <<doc, timer, rpc, generation>> /\ k.doc \in Docs
    BY <1>0, <1>3 DEF Continue, TaskOk, WasOpened
  <2>2. /\ QueueGrows
        /\ \A n \in New : rpc # None /\ Live(queue'[n]) /\ queue'[n].kind = "refresh"
        /\ rpc # None => \E n \in New : queue'[n] = Refresh(k.doc)
    BY <2>1, RefreshAdded
  <2>3. Calm /\ \A d \in Docs : KeepText(d)
    BY <1>0, <2>1, <2>2, SameDocs DEF Calm
  <2>. QED  BY <1>0, <1>1, <1>3, <2>1, <2>2, <2>3 DEF k
<1>4. CASE k.kind = "configured"
  <2>1. /\ doc' = Invalidated /\ UNCHANGED <<timer, rpc, generation>>
        /\ IF Active # None THEN Enqueue(<<Refresh(Active)>>) ELSE UNCHANGED queue
    BY <1>0, <1>4 DEF Continue
  <2>2. /\ \A d \in Docs : KeepDoc(d) /\ KeepText(d) /\ doc[d].text \in Nat
        /\ \A d \in Open : doc'[d].functions = None
    BY <1>0, <2>1 DEF Invalidated, KeepDoc, KeepText, ShowsLess, Documents, Open
  <2>3. \A d \in Docs : doc'[d].text \in Nat /\ doc[d].text <= doc'[d].text
    BY <2>2 DEF KeepText
  <2>4. QueueGrows /\ \A n \in New : rpc # None /\ Live(queue'[n]) /\ queue'[n].kind = "refresh"
    <3>1. CASE Active = None
      BY <2>1, <3>1, QueueSame
    <3>2. CASE Active # None
      <4>1. Active \in Docs
        BY <3>2 DEF Active, ActiveIn, Open
      <4>. QED  BY <2>1, <3>2, <4>1, RefreshAdded
    <3>. QED  BY <3>1, <3>2
  <2>5. Calm
    BY <1>0, <2>1, <2>2, <2>3, <2>4 DEF Calm
  <2>. QED  BY <1>0, <1>1, <1>4, <2>1, <2>2, <2>4, <2>5 DEF k
<1>5. CASE k.kind = "disconnected" /\ k.epoch = generation
  BY <1>0, <1>1, <1>5 DEF Continue, Halts, TaskOk, k
<1>6. CASE /\ UNCHANGED <<doc, timer, rpc, generation, queue>>
           /\ ~(k.kind = "changed" /\ k.doc \in Open) /\ k.kind \notin {"renamed", "configured"}
  <2>1. Calm /\ New = {} /\ \A d \in Docs : KeepText(d)
    BY <1>0, <1>6, QueueSame, SameDocs DEF Calm
  <2>. QED  BY <1>0, <1>1, <1>6, <2>1 DEF k
<1>. QED  BY <1>0, <1>2, <1>3, <1>4, <1>5, <1>6 DEF Continue

Halted ==
    /\ Stopped /\ rpc' = None /\ life' # "up"
    /\ UNCHANGED <<queue, server, news, timer, options>>

LEMMA StoppedDocs ==
    ASSUME SessionInv, Stopped
    PROVE  \A d \in Docs :
             /\ KeepText(d) /\ doc[d].text \in Nat
             /\ doc'[d].state = doc[d].state /\ doc'[d].uri = doc[d].uri
             /\ doc'[d].version = doc[d].version
             /\ doc[d].state = "open" => doc'[d].sent = None /\ ShowsNothing(doc'[d])
             /\ doc[d].state # "open" => doc'[d] = doc[d]
<1>0. SessionTypeOK /\ doc \in [Docs -> Documents]
  BY DEF SessionInv, SessionTypeOK
<1>1. doc' = [d \in Docs |-> IF d \in Open THEN [AllCleared[d] EXCEPT !.sent = None] ELSE doc[d]]
  BY DEF Stopped
<1>. SUFFICES ASSUME NEW d \in Docs
              PROVE  /\ KeepText(d) /\ doc[d].text \in Nat
                     /\ doc'[d].state = doc[d].state /\ doc'[d].uri = doc[d].uri
                     /\ doc'[d].version = doc[d].version
                     /\ doc[d].state = "open" => doc'[d].sent = None /\ ShowsNothing(doc'[d])
                     /\ doc[d].state # "open" => doc'[d] = doc[d]
  OBVIOUS
<1>2. doc[d] \in Documents
  BY <1>0
<1>3. CASE d \in Open
  <2>1. AllCleared[d] = Cleared(doc[d])
    BY <1>3 DEF AllCleared
  <2>2. doc'[d] = [Cleared(doc[d]) EXCEPT !.sent = None]
    BY <1>1, <1>3, <2>1
  <2>. QED  BY <1>2, <1>3, <2>2 DEF Cleared, Documents, KeepText, ShowsNothing, Open
<1>4. CASE d \notin Open
  BY <1>1, <1>2, <1>4 DEF Open, Documents, KeepText
<1>. QED  BY <1>3, <1>4

LEMMA StartEffect ==
    ASSUME SessionInv, Start
    PROVE  /\ life = "starting" /\ life' = "up" /\ Stopped /\ rpc' = Newest /\ Newest \in Launched
           /\ UNCHANGED <<timer, posted, options, settingsRevision, server, news>>
           /\ QueueGrows
           /\ \A i \in New : queue'[i].kind = "refresh" /\ Live(queue[i])'
           /\ \A d \in Open : \E i \in New :
                queue'[i].kind = "refresh" /\ queue'[i].doc = d /\ Live(queue[i])'
<1>0. SessionTypeOK /\ HeadOnly /\ life = "starting" /\ generation \in Nat
  BY DEF SessionInv, SessionTypeOK, Start
<1>1. /\ Stopped /\ rpc' = Newest /\ life' = "up" /\ generation' = generation + 1
      /\ UNCHANGED <<timer, settingsRevision, posted, options, server, news>>
  BY DEF Start, serverVars, Stopped
<1>2. Newest \in Launched /\ Newest \in Conns
  BY <1>0 DEF SessionInv, ServersOk, Launched
<1>3. generation + 1 \in Nat
  BY <1>0
<1>. DEFINE made(d) == [Refresh(d) EXCEPT !.conn = Newest, !.epoch = generation + 1]
           S == {made(d) : d \in Open}
<1>4. PICK ops \in SetToSeqs(S) : queue' = queue \o ops
  BY DEF Start
<1>5. ASSUME NEW d \in Open
      PROVE  /\ made(d) \in Ops
             /\ made(d).kind = "refresh" /\ made(d).doc = d
             /\ made(d).step = "queued" /\ made(d).conn = Newest /\ made(d).epoch = generation + 1
  <2>1. d \in Docs
    BY DEF Open
  <2>. QED  BY <1>0, <1>2, <1>3, <2>1 DEF Refresh, Op, Ops, SessionTypeOK
<1>. HIDE DEF made
<1>6. IsFiniteSet(S)
  <2>. DEFINE f == [d \in Open |-> made(d)]
  <2>1. IsFiniteSet(Open)
    BY FiniteAssumption, FS_Subset DEF Open
  <2>2. IsFiniteSet({f[d] : d \in Open})
    BY <2>1, Imaged
  <2>3. {f[d] : d \in Open} = S
    OBVIOUS
  <2>. QED  BY <2>2, <2>3
<1>7. ops \in Seq(S) /\ \A s \in S : \E i \in DOMAIN ops : ops[i] = s
  BY <1>4, <1>6, Permuted
<1>8. S \subseteq Ops
  BY <1>5
<1>9. /\ ops \in Seq(Ops) /\ \A i \in DOMAIN ops : \E d \in Open : ops[i] = made(d)
      /\ \A d \in Open : \E i \in DOMAIN ops : ops[i] = made(d)
  BY <1>7, <1>8
<1>. HIDE DEF S
<1>10. Queued(ops)
  BY <1>0, <1>4, <1>9, QueueAppended
<1>11. \A k \in DOMAIN queue : ~(k < k)
  BY <1>0 DEF SessionTypeOK
<1>12. \A i \in New : /\ \E j \in DOMAIN ops : queue'[i] = ops[j]
                      /\ \A k \in DOMAIN queue : k < i
  BY <1>10 DEF Queued, New
<1>13. \A j \in DOMAIN ops : \E i \in New : queue'[i] = ops[j]
  BY <1>10, <1>11 DEF Queued, New
<1>14. \A i \in New : \E d \in Open : queue'[i] = made(d)
  BY <1>9, <1>12
<1>15. \A d \in Open : \E i \in New : queue'[i] = made(d)
  BY <1>9, <1>13
<1>16. \A i \in New : queue'[i].kind = "refresh" /\ queue'[i].step = "queued" /\ Live(queue[i])'
  BY <1>1, <1>5, <1>14 DEF Live
<1>17. \A d \in Open : \E i \in New :
                queue'[i].kind = "refresh" /\ queue'[i].doc = d /\ Live(queue[i])'
  BY <1>1, <1>5, <1>15 DEF Live
<1>18. QueueGrows
  BY <1>10, <1>12, <1>16 DEF QueueGrows, Queued
<1>. QED  BY <1>0, <1>1, <1>2, <1>16, <1>17, <1>18

LEMMA RequestStopHalts ==
    ASSUME SessionInv, RequestStop
    PROVE  Halted /\ UNCHANGED posted /\ life = "up" /\ life' = "stopping"
BY DEF RequestStop, Halted, serverVars

-----------------------------------------------------------------------------
(* Every step keeps the names.                                              *)

HeadGoesOn ==
    \/ queue' = Tail(queue)
    \/ \E new \in Ops :
         /\ Put(new) /\ SameButStep(new, Current) /\ new.step # "queued"
         /\ new.step = "synchronizing" =>
              /\ Live(new) /\ new.doc \in Docs /\ new.sentUri = doc[new.doc].uri
              /\ new.snapshot = doc[new.doc].text
              /\ doc'[new.doc].sent # new.snapshot

SameName(d) ==
    /\ doc'[d].state = doc[d].state /\ doc'[d].uri = doc[d].uri /\ doc'[d].text = doc[d].text
    /\ \/ doc'[d].sent = doc[d].sent
       \/ OfDoc(Current, d) /\ doc'[d].sent \in Nat /\ doc'[d].sent <= doc[d].text

LEMMA HeadNamesToo ==
    ASSUME SessionInv, NamesInv, queue # <<>>, UNCHANGED <<rpc, generation>>,
           \A d \in Docs : SameName(d), HeadGoesOn
    PROVE  NamesInv'
BY HeadNames DEF SameName, HeadGoesOn

LEMMA AskGoesOn ==
    ASSUME SessionInv, queue # <<>>, Current.kind \in {"refresh", "hover"}, AskNext
    PROVE  HeadGoesOn
<1>1. CASE Done \/ Fails
  BY <1>1 DEF Done, Fails, HeadGoesOn
<1>2. ASSUME NEW new \in Ops, AskedAs(new)
      PROVE  HeadGoesOn
  BY <1>2 DEF AskedAs, HeadGoesOn
<1>. QED  BY <1>1, <1>2, AskCases

LEMMA BeginNames ==
    ASSUME SessionInv, NamesInv, Begin
    PROVE  NamesInv'
<1>. DEFINE op == Current
           notifies == Put([op EXCEPT !.step = "notifying"]) /\ UNCHANGED <<doc, posted>>
<1>0. /\ queue # <<>> /\ UNCHANGED <<rpc, generation>> /\ op \in Ops
      /\ UNCHANGED doc => \A d \in Docs : SameName(d)
      /\ doc \in [Docs -> Documents]
  BY BeginCases, HeadOk DEF sessionVars, SameName, SessionInv, SessionTypeOK
<1>1. CASE (Done \/ Fails) /\ UNCHANGED doc
  BY <1>0, <1>1, HeadNamesToo DEF Done, Fails, HeadGoesOn
<1>2. CASE notifies
  <2>. DEFINE new == [op EXCEPT !.step = "notifying"]
  <2>1. new \in Ops /\ SameButStep(new, op) /\ new.step = "notifying"
    BY <1>0 DEF Ops, SameButStep
  <2>. HIDE DEF new
  <2>2. HeadGoesOn
    BY <1>2, <2>1 DEF HeadGoesOn, new
  <2>. QED  BY <1>0, <1>2, <2>2, HeadNamesToo
<1>3. CASE ~Stale /\ Synchronize /\ op.kind \in {"refresh", "hover"}
  <2>1. CASE AskNext /\ UNCHANGED doc
    BY <1>0, <1>3, <2>1, AskGoesOn, HeadNamesToo
  <2>2. ASSUME NEW new \in Ops, SentAs(new)
        PROVE  NamesInv'
    <3>. DEFINE d == op.doc
    <3>1. /\ d \in Docs /\ doc[d] \in Documents /\ doc[d].version \in Nat
      BY <1>0, <1>3, DocOfHead
    <3>2. /\ Put(new) /\ SameButStep(new, op) /\ new.step = "synchronizing"
          /\ new.snapshot = doc[d].text /\ new.sentUri = doc[d].uri
          /\ doc[d].sent # doc[d].text /\ doc' = [doc EXCEPT ![d].version = @ + 1]
      BY <2>2 DEF SentAs
    <3>3. \A e \in Docs : SameName(e) /\ doc'[e].sent = doc[e].sent
      BY <1>0, <3>1, <3>2 DEF SameName, Documents
    <3>4. Live(new) /\ new.doc = d
      BY <1>3, <3>2 DEF Live, Stale, SameButStep
    <3>5. HeadGoesOn
      BY <3>1, <3>2, <3>3, <3>4 DEF HeadGoesOn
    <3>. QED  BY <1>0, <3>3, <3>5, HeadNamesToo
  <2>. QED  BY <1>0, <1>3, <2>1, <2>2, SynchronizeCases
<1>. QED  BY <1>1, <1>2, <1>3, BeginCases

LEMMA SynchronizedNames ==
    ASSUME SessionInv, NamesInv, Synchronized
    PROVE  NamesInv'
<1>. DEFINE op == Current
           d == op.doc
<1>0. /\ queue # <<>> /\ UNCHANGED <<rpc, generation>> /\ op \in Ops /\ At("synchronizing")
      /\ op.kind \in {"refresh", "hover"} /\ d \in Docs /\ op.snapshot \in Nat
      /\ doc \in [Docs -> Documents]
  BY HeadOk, DocOfHead DEF Synchronized, At, OpOk, sessionVars, SessionInv, SessionTypeOK
<1>1. CASE UNCHANGED doc /\ Fails
  BY <1>0, <1>1, HeadNamesToo DEF Fails, HeadGoesOn, SameName
<1>2. CASE doc' = MarkSent(op) /\ AskNext
  <2>1. HeadGoesOn
    BY <1>0, <1>2, AskGoesOn
  <2>2. ASSUME NEW e \in Docs PROVE SameName(e)
    <3>1. CASE op.askEpoch = generation /\ e = d /\ doc' = [doc EXCEPT ![d].sent = op.snapshot]
      <4>1. op.snapshot <= doc[d].text
        BY <1>0, <3>1 DEF NamesInv, SendingOk, Underway
      <4>. QED  BY <1>0, <3>1, <4>1 DEF SameName, OfDoc, Documents
    <3>2. CASE doc'[e] = doc[e]
      BY <3>2 DEF SameName
    <3>. QED  BY <1>0, <1>2, <3>1, <3>2 DEF MarkSent
  <2>. QED  BY <1>0, <2>1, <2>2, HeadNamesToo
<1>. QED  BY <1>0, <1>1, <1>2 DEF Synchronized

LEMMA OtherHeadNames ==
    ASSUME SessionInv, NamesInv, Notified \/ GiveUp \/ Answered
    PROVE  NamesInv'
<1>0. /\ queue # <<>> /\ UNCHANGED <<rpc, generation>> /\ queue' = Tail(queue)
      /\ doc \in [Docs -> Documents]
  BY DEF Notified, GiveUp, Answered, At, Done, Fails, sessionVars, SessionInv, SessionTypeOK
<1>1. doc' = doc \/ \E functions : doc' = [doc EXCEPT ![Current.doc].functions = functions]
  BY DEF Notified, GiveUp, Answered
<1>2. ASSUME NEW d \in Docs PROVE SameName(d)
  <2>1. CASE doc' = doc
    BY <2>1 DEF SameName
  <2>2. CASE \E functions : doc' = [doc EXCEPT ![Current.doc].functions = functions]
    <3>1. PICK functions : doc' = [doc EXCEPT ![Current.doc].functions = functions]
      BY <2>2
    <3>2. doc'[d] = doc[d] \/ doc'[d] = [doc[d] EXCEPT !.functions = functions]
      BY <1>0, <3>1
    <3>3. doc[d] \in Documents
      BY <1>0
    <3>. HIDE DEF Current
    <3>. QED  BY <3>2, <3>3 DEF SameName, Documents
  <2>. QED  BY <1>1, <2>1, <2>2
<1>. QED  BY <1>0, <1>2, HeadNamesToo DEF HeadGoesOn

LEMMA ReceiveEffect ==
    ASSUME SessionInv, NEW c \in Conns, Receive(c)
    PROVE  /\ UNCHANGED <<timer, rpc, generation, settingsRevision, queue, posted, options, life, server>>
           /\ news[c] # <<>> /\ news' = [news EXCEPT ![c] = Tail(@)]
           /\ Head(news[c]) \in Messages
           /\ \A d \in Docs :
                /\ doc'[d].state = doc[d].state /\ doc'[d].uri = doc[d].uri
                /\ doc'[d].text = doc[d].text /\ doc'[d].sent = doc[d].sent
                /\ doc'[d].version = doc[d].version /\ doc'[d].functions = doc[d].functions
                /\ IF doc[d].state # "open" \/ ~Accepts(Head(news[c]), d) THEN doc'[d] = doc[d]
                   ELSE /\ doc'[d].summary = Head(news[c])
                        /\ doc'[d].diagnostics =
                             IF Head(news[c]).version = doc[d].version THEN Head(news[c])
                             ELSE doc[d].diagnostics
<1>. DEFINE m == Head(news[c])
<1>0. doc \in [Docs -> Documents] /\ news \in [Conns -> Seq(Messages)]
  BY DEF SessionInv, SessionTypeOK
<1>1. /\ UNCHANGED <<timer, rpc, generation, settingsRevision, queue, posted, options, life, server>>
      /\ news[c] # <<>> /\ news' = [news EXCEPT ![c] = Tail(@)]
      /\ doc' = [d \in Docs |->
             IF d \notin Open \/ ~Accepts(m, d) THEN doc[d]
             ELSE [doc[d] EXCEPT !.summary = m,
                                 !.diagnostics = IF m.version = doc[d].version THEN m ELSE @]]
  BY DEF Receive, sessionVars, clientVars
<1>2. m \in Messages
  <2>1. news[c] \in Seq(Messages) /\ news[c] # <<>>
    BY <1>0, <1>1
  <2>. QED  BY <2>1, Popped
<1>. HIDE DEF m
<1>3. ASSUME NEW d \in Docs
      PROVE  /\ doc'[d].state = doc[d].state /\ doc'[d].uri = doc[d].uri
             /\ doc'[d].text = doc[d].text /\ doc'[d].sent = doc[d].sent
             /\ doc'[d].version = doc[d].version /\ doc'[d].functions = doc[d].functions
             /\ IF doc[d].state # "open" \/ ~Accepts(m, d) THEN doc'[d] = doc[d]
                ELSE /\ doc'[d].summary = m
                     /\ doc'[d].diagnostics =
                          IF m.version = doc[d].version THEN m ELSE doc[d].diagnostics
  <2>1. doc[d] \in Documents
    BY <1>0
  <2>. QED  BY <1>1, <2>1 DEF Open, Documents
<1>. QED  BY <1>1, <1>2, <1>3 DEF m

LEMMA CalmNames ==
    ASSUME SessionInv, NamesInv, Calm
    PROVE  NamesInv'
<1>1. \A d \in Docs : KeepName(d)
  BY DEF Calm, KeepDoc, KeepName, ShowsLess
<1>2. /\ UNCHANGED <<rpc, generation>> /\ QueueGrows
      /\ \A i \in New : /\ queue'[i].kind # "close"
                        /\ queue'[i].kind = "hover" => doc[queue'[i].doc].state = "open"
  BY DEF Calm
<1>. QED  BY <1>1, <1>2, KeptNames

LEMMA StoppedNames ==
    ASSUME SessionInv, NamesInv, Stopped, QueueGrows, \A i \in New : queue'[i].kind = "refresh"
    PROVE  NamesInv'
<1>1. generation' \in Nat /\ generation < generation'
  BY StoppedOk
<1>2. \A d \in Docs : KeepName(d)
  <2>1. ASSUME NEW d \in Docs PROVE KeepName(d)
    <3>1. /\ doc[d].text \in Nat /\ doc'[d].text = doc[d].text
          /\ doc'[d].state = doc[d].state /\ doc'[d].uri = doc[d].uri
          /\ doc[d].state = "open" => doc'[d].sent = None
          /\ doc[d].state # "open" => doc'[d] = doc[d]
      BY StoppedDocs DEF KeepText
    <3>. QED  BY <3>1 DEF KeepName
  <2>. QED  BY <2>1
<1>. QED  BY <1>1, <1>2, KeptNames

LEMMA QuietNames ==
    ASSUME SessionInv, NamesInv, UNCHANGED <<queue, rpc, generation>>,
           \A d \in Docs : /\ doc'[d].state = doc[d].state /\ doc'[d].uri = doc[d].uri
                           /\ doc'[d].text = doc[d].text /\ doc'[d].sent = doc[d].sent
    PROVE  NamesInv'
<1>1. QueueGrows /\ New = {}
  BY QueueSame
<1>2. \A d \in Docs : KeepName(d)
  BY DEF KeepName, SessionInv, SessionTypeOK, Documents
<1>. QED  BY <1>1, <1>2, KeptNames

LEMMA RunPostedNames ==
    ASSUME SessionInv, NamesInv, NEW i \in DOMAIN posted, RunPosted(i)
    PROVE  NamesInv'
<1>1. CASE Calm
  BY <1>1, CalmNames
<1>2. CASE Halts
  BY <1>2, StoppedNames, QueueSame DEF Halts
<1>. QED  BY <1>1, <1>2, RunPostedCases

LEMMA NamesNext ==
    ASSUME SessionInv, NamesInv, ~reused', [Next]_vars
    PROVE  NamesInv'
<1>1. CASE UiThread
  <2>1. ASSUME NEW c \in Conns, Receive(c) PROVE NamesInv'
    BY <2>1, ReceiveEffect, QuietNames
  <2>2. ASSUME NEW d \in Docs, Debounced(d) PROVE NamesInv'
    BY <2>2, DebouncedCalm, CalmNames
  <2>. QED  BY <1>1, <2>1, <2>2, BeginNames, OtherHeadNames, SynchronizedNames, RunPostedNames
            DEF UiThread
<1>2. CASE Answered
  BY <1>2, OtherHeadNames
<1>3. CASE Editor
  <2>1. ASSUME NEW d \in Docs \cup {None}, Activate(d) PROVE NamesInv'
    BY <2>1, ActivateCalm, CalmNames
  <2>2. ASSUME NEW d \in Docs, Edit(d) \/ Hover(d) PROVE NamesInv'
    BY <2>2, EditCalm, HoverCalm, CalmNames
  <2>3. ASSUME NEW s \in Settings, Configure(s) PROVE NamesInv'
    BY <2>3, ConfigureCalm, CalmNames
  <2>. QED  BY <1>3, <2>1, <2>2, <2>3, CloseViewNames, RenameNames, RegisterNames DEF Editor
<1>4. CASE Lifecycle
  <2>1. CASE Start
    <3>1. Stopped /\ QueueGrows /\ \A i \in New : queue'[i].kind = "refresh"
      BY <2>1, StartEffect
    <3>. QED  BY <3>1, StoppedNames
  <2>2. CASE RequestStop
    <3>1. Stopped /\ UNCHANGED queue
      BY <2>2, RequestStopHalts DEF Halted
    <3>. QED  BY <3>1, StoppedNames, QueueSame
  <2>3. CASE Die \/ Exit \/ \E c \in Conns : Launch(c)
    <3>1. UNCHANGED <<doc, queue, rpc, generation>>
      BY <2>3 DEF Die, Exit, Launch, sessionVars
    <3>. QED  BY <3>1, QuietNames
  <2>. QED  BY <1>4, <2>1, <2>2, <2>3 DEF Lifecycle
<1>5. CASE UNCHANGED vars
  BY <1>5, QuietNames DEF vars
<1>. QED  BY <1>1, <1>2, <1>3, <1>4, <1>5 DEF Next

LEMMA NamesInit ==
    ASSUME Init
    PROVE  NamesInv
BY NoneAssumption DEF Init, NamesInv, NamesAreOwn, CloseFirst, CloseFollows, SendingOk, SentOk, Underway,
   At, Open, NewDoc

-----------------------------------------------------------------------------
(* What the servers do while the operation under way goes on.               *)

Up == life = "up"

LEMMA UpConn ==
    ASSUME SessionInv, Up
    PROVE  /\ rpc \in Launched /\ rpc \in Conns /\ rpc # None /\ rpc = Newest /\ server[rpc].alive
           /\ server[rpc] \in Servers /\ news[rpc] \in Seq(Messages)
BY ConnsAssumption DEF SessionInv, SessionTypeOK, ServersOk, RpcOk, Launched, Up

LEMMA StartingConn ==
    ASSUME SessionInv, life = "starting", queue # <<>>
    PROVE  ~server[Current.conn].alive
<1>1. Current \in Ops /\ OpOk(Current)
  BY HeadOk
<1>2. Current.conn \in Conns /\ Current.conn # Newest
  BY <1>1 DEF Ops, OpOk
<1>. QED  BY <1>2 DEF SessionInv, ServersOk

ServersGrow ==
    /\ ServersSteady
    /\ life = "starting" => UNCHANGED serverVars
    /\ \A c \in Conns : server[c].init = None => news'[c] = news[c]

LEMMA SameServersGrow ==
    ASSUME SessionInv, UNCHANGED serverVars
    PROVE  ServersGrow
BY UnchangedSteady DEF ServersGrow, serverVars

LEMMA TakesInGrows ==
    ASSUME SessionInv, NEW c \in Launched, NEW r, NEW us, TakesIn(c, r, us), ServersSteady,
           life # "starting"
    PROVE  ServersGrow
<1>1. news \in [Conns -> Seq(Messages)] /\ c \in Conns /\ server[c].init # None
  BY DEF SessionInv, SessionTypeOK, Launched
<1>2. PICK said : news' = [news EXCEPT ![c] = news[c] \o said]
  BY DEF TakesIn
<1>. DEFINE now == news[c] \o said
<1>3. news' = [news EXCEPT ![c] = now]
  BY <1>2
<1>. HIDE DEF now
<1>. QED  BY <1>1, <1>3 DEF ServersGrow

SentUp(new) ==
    LET op == Current
        d == op.doc
    IN  /\ Put(new) /\ SameButStep(new, op) /\ new.step = "synchronizing" /\ UNCHANGED posted
        /\ new.snapshot = doc[d].text /\ new.sentUri = doc[d].uri /\ new.askEpoch = generation
        /\ doc[d].sent # doc[d].text
        /\ doc' = [doc EXCEPT ![d].version = @ + 1]
        /\ \/ /\ doc[d].sent = None \/ server[rpc].docs[doc[d].uri] # None
              /\ TakesIn(rpc, Opening(rpc, doc[d].uri, doc[d].text, doc[d].version + 1), {doc[d].uri})
           \/ /\ server[rpc].docs[doc[d].uri] = None /\ doc[d].sent # None
              /\ UNCHANGED serverVars

LEMMA SentAsUp ==
    ASSUME SessionInv, NEW new \in Ops, SentAs(new), ~Stale, queue # <<>>,
           Current.kind \in {"refresh", "hover"}
    PROVE  ServersGrow /\ (Up => SentUp(new))
<1>. DEFINE op == Current
           d == op.doc
           u == doc[d].uri
<1>1. /\ u \in Uris /\ doc[d].text \in Nat /\ doc[d].version + 1 \in Nat
      /\ op.conn \in Launched /\ op.conn = rpc
  BY DocOfHead, HeadOk DEF OpOk, Stale
<1>2. CASE /\ ~server[op.conn].alive \/ server[op.conn].docs[u] = None
           /\ ~server[op.conn].alive \/ doc[d].sent # None
           /\ UNCHANGED serverVars
  <2>1. Up => server[rpc].docs[u] = None /\ doc[d].sent # None
    BY <1>1, <1>2, UpConn
  <2>2. ServersGrow
    BY <1>2, SameServersGrow
  <2>. QED  BY <1>2, <2>1, <2>2 DEF SentAs, SentUp
<1>3. CASE /\ server[op.conn].alive
           /\ doc[d].sent = None \/ server[op.conn].docs[doc[d].uri] # None
           /\ Opened(op.conn, u, doc[d].text, doc[d].version + 1)
  <2>1. TakesIn(rpc, Opening(rpc, u, doc[d].text, doc[d].version + 1), {u}) /\ ServersSteady
    BY <1>1, <1>3, OpenedSteady
  <2>2. life # "starting"
    BY <1>3, StartingConn
  <2>3. ServersGrow
    BY <1>1, <2>1, <2>2, TakesInGrows
  <2>. QED  BY <1>1, <1>3, <2>1, <2>3 DEF SentAs, SentUp
<1>. QED  BY <1>2, <1>3 DEF SentAs

Notifies == Put([Current EXCEPT !.step = "notifying"]) /\ UNCHANGED <<doc, posted>>

LEMMA BeginUp ==
    ASSUME SessionInv, Begin
    PROVE  LET op == Current
               still == UNCHANGED <<doc, server, news>>
           IN  /\ queue # <<>> /\ op.step = "queued"
               /\ UNCHANGED <<timer, rpc, generation, settingsRevision, options, life>>
               /\ ServersGrow
               /\ Up =>
                    \/ /\ Stale /\ Done /\ still
                    \/ /\ ~Stale /\ op.kind = "refresh" /\ ~(op.doc \in Open /\ Language(op.doc))
                       /\ Done /\ still
                    \/ ~Stale /\ op.kind = "hover" /\ Fails /\ still
                    \/ /\ ~Stale /\ op.kind \in {"refresh", "hover"}
                       /\ doc[op.doc].sent = doc[op.doc].text
                       /\ Done \/ \E new \in Ops : AskedAs(new)
                       /\ still
                    \/ /\ ~Stale /\ op.kind \in {"refresh", "hover"}
                       /\ op.kind = "refresh" => op.doc \in Open
                       /\ \E new \in Ops : SentUp(new)
                    \/ /\ ~Stale /\ op.kind = "close" /\ Notifies
                       /\ TakesIn(rpc, [server[rpc] EXCEPT !.docs[op.uri] = None], {})
                    \/ /\ ~Stale /\ op.kind = "configure" /\ Notifies
                       /\ TakesIn(rpc, [server[rpc] EXCEPT !.configured = op.settings],
                                  Affected(rpc, op.settings))
<1>. DEFINE op == Current
           still == UNCHANGED <<doc, server, news>>
<1>0. /\ queue # <<>> /\ op.step = "queued"
      /\ UNCHANGED <<timer, rpc, generation, settingsRevision, options, life>>
      /\ op \in Ops /\ OpOk(op) /\ op.conn \in Launched
  BY BeginCases, HeadOk DEF sessionVars, clientVars, OpOk
<1>1. CASE Stale /\ Done /\ UNCHANGED <<doc, serverVars>>
  BY <1>0, <1>1, SameServersGrow DEF serverVars
<1>2. CASE /\ ~Stale /\ op.kind = "refresh" /\ ~(op.doc \in Open /\ Language(op.doc))
           /\ Done /\ UNCHANGED <<doc, serverVars>>
  BY <1>0, <1>2, SameServersGrow DEF serverVars
<1>3. CASE ~Stale /\ op.kind = "hover" /\ Fails /\ UNCHANGED <<doc, serverVars>>
  BY <1>0, <1>3, SameServersGrow DEF serverVars
<1>4. CASE /\ ~Stale /\ op.kind \in {"refresh", "hover"} /\ Synchronize
           /\ op.kind = "refresh" => op.doc \in Open
  <2>1. CASE doc[op.doc].sent = doc[op.doc].text /\ AskNext /\ UNCHANGED <<doc, serverVars>>
    <3>1. Up => Done \/ \E new \in Ops : AskedAs(new)
      BY <1>0, <1>4, <2>1, AskCases, UpConn DEF Stale
    <3>. QED  BY <1>0, <1>4, <2>1, <3>1, SameServersGrow DEF serverVars
  <2>2. ASSUME NEW new \in Ops, SentAs(new)
        PROVE  ServersGrow /\ (Up => SentUp(new))
    BY <1>0, <1>4, <2>2, SentAsUp
  <2>. QED  BY <1>0, <1>4, <2>1, <2>2, SynchronizeCases
<1>5. CASE /\ ~Stale /\ op.kind = "close" /\ Notifies
           /\ IF server[op.conn].alive THEN Closed(op.conn, op.uri) ELSE UNCHANGED serverVars
  <2>1. CASE UNCHANGED serverVars /\ ~server[op.conn].alive
    BY <1>0, <1>5, <2>1, SameServersGrow, UpConn DEF Stale
  <2>2. CASE server[op.conn].alive /\ Closed(op.conn, op.uri)
    <3>1. TakesIn(rpc, [server[rpc] EXCEPT !.docs[op.uri] = None], {}) /\ ServersSteady
      BY <1>0, <1>5, <2>2, ClosedSteady DEF OpOk, Stale
    <3>2. life # "starting"
      BY <1>0, <2>2, StartingConn
    <3>3. ServersGrow
      BY <1>0, <1>5, <3>1, <3>2, TakesInGrows DEF Stale
    <3>. QED  BY <1>0, <1>5, <3>1, <3>3
  <2>. QED  BY <1>5, <2>1, <2>2
<1>6. CASE /\ ~Stale /\ op.kind = "configure" /\ Notifies
           /\ IF server[op.conn].alive THEN Configured(op.conn, op.settings) ELSE UNCHANGED serverVars
  <2>1. CASE UNCHANGED serverVars /\ ~server[op.conn].alive
    BY <1>0, <1>6, <2>1, SameServersGrow, UpConn DEF Stale
  <2>2. CASE server[op.conn].alive /\ Configured(op.conn, op.settings)
    <3>1. /\ TakesIn(rpc, [server[rpc] EXCEPT !.configured = op.settings], Affected(rpc, op.settings))
          /\ ServersSteady
      BY <1>0, <1>6, <2>2, ConfiguredSteady DEF OpOk, Stale
    <3>2. life # "starting"
      BY <1>0, <2>2, StartingConn
    <3>3. ServersGrow
      BY <1>0, <1>6, <3>1, <3>2, TakesInGrows DEF Stale
    <3>. QED  BY <1>0, <1>6, <3>1, <3>3
  <2>. QED  BY <1>6, <2>1, <2>2
<1>. QED  BY <1>1, <1>2, <1>3, <1>4, <1>5, <1>6, BeginCases DEF Notifies

-----------------------------------------------------------------------------
(* What a server knows and says before anything is sent to it.              *)

Blank ==
    /\ \A c \in Conns : server[c].init = None => news[c] = <<>>
    /\ life = "starting" =>
         /\ news[Newest] = <<>>
         /\ server[Newest].configured = None /\ \A u \in Uris : server[Newest].docs[u] = None

LEMMA BlankInit ==
    ASSUME Init
    PROVE  Blank
BY DEF Init, Blank

LEMMA BlankGrows ==
    ASSUME SessionInv, Blank, UNCHANGED life, ServersGrow
    PROVE  Blank'
<1>1. life # "off" => Newest' = Newest
  BY SameInits DEF ServersGrow, ServersSteady
<1>. QED  BY <1>1 DEF Blank, ServersGrow, ServersSteady, serverVars

LEMMA BlankReceive ==
    ASSUME SessionInv, Blank, NEW c \in Conns, Receive(c)
    PROVE  Blank'
<1>1. /\ UNCHANGED <<life, server>> /\ news[c] # <<>> /\ news' = [news EXCEPT ![c] = Tail(@)]
  BY ReceiveEffect
<1>2. \A b \in Conns : b # c => news'[b] = news[b]
  BY <1>1 DEF SessionInv, SessionTypeOK
<1>3. Newest' = Newest /\ (life = "starting" => Newest \in Conns)
  BY <1>1 DEF Newest, SessionInv, ServersOk, Launched
<1>. QED  BY <1>1, <1>2, <1>3 DEF Blank

LEMMA BlankLaunch ==
    ASSUME SessionInv, Blank, NEW c \in Conns, Launch(c)
    PROVE  Blank' /\ server'[Newest'].init = options' /\ server'[Newest'].configured = None
           /\ life' = "starting"
<1>0. SessionTypeOK
  BY DEF SessionInv
<1>1. /\ \A b \in Conns : server[b].init # None <=> b < c
      /\ server' = [server EXCEPT ![c].alive = TRUE, ![c].init = options]
      /\ life' = "starting" /\ UNCHANGED <<news, options>>
  BY DEF Launch
<1>2. options # None
  BY <1>0, NoneAssumption DEF SessionTypeOK
<1>3. server[c].init = None
  BY <1>1, ConnsAssumption
<1>4. server[c] = NewServer
  BY <1>3 DEF SessionInv, ServersOk
<1>5. /\ server'[c].init = options /\ server'[c].docs = server[c].docs
      /\ server'[c].configured = server[c].configured
      /\ \A b \in Conns : b # c => server'[b] = server[b]
  BY <1>0, <1>1 DEF SessionTypeOK, Servers
<1>6. \A b \in Conns : server'[b].init # None => b <= c
  <2>1. ASSUME NEW b \in Conns, b # c, server'[b].init # None PROVE b <= c
    BY <1>1, <1>5, <2>1, ConnsAssumption
  <2>. QED  BY <2>1, ConnsAssumption
<1>7. Newest' = c
  <2>1. NewestOf(server') = c
    BY <1>2, <1>5, <1>6, NewestIs
  <2>. QED  BY <2>1 DEF Newest, NewestOf
<1>8. news[c] = <<>> /\ \A u \in Uris : server[c].docs[u] = None
  BY <1>3, <1>4 DEF Blank, NewServer
<1>9. server[c].configured = None
  BY <1>4 DEF NewServer
<1>10. \A b \in Conns : server'[b].init = None => news[b] = <<>>
  BY <1>2, <1>5 DEF Blank
<1>. QED  BY <1>1, <1>5, <1>7, <1>8, <1>9, <1>10 DEF Blank

LEMMA BlankEnds ==
    ASSUME SessionInv, Blank, life' # "starting", UNCHANGED news,
           \A c \in Conns : server'[c].init = server[c].init
    PROVE  Blank'
BY DEF Blank

LEMMA HeadServers ==
    ASSUME SessionInv, Begin \/ Notified \/ Synchronized \/ GiveUp \/ Answered
    PROVE  /\ queue # <<>> /\ ServersGrow
           /\ UNCHANGED <<timer, rpc, generation, settingsRevision, options, life>>
<1>1. CASE Begin
  BY <1>1, BeginUp
<1>2. CASE Notified \/ Synchronized \/ GiveUp \/ Answered
  BY <1>2, SameServersGrow DEF Notified, Synchronized, GiveUp, Answered, At, sessionVars, clientVars
<1>. QED  BY <1>1, <1>2

LEMMA EndedInits ==
    ASSUME SessionInv, Ended
    PROVE  \A c \in Conns : server'[c].init = server[c].init
BY DEF SessionInv, SessionTypeOK, Servers, Ended, NewServer

LEMMA CalmGrows ==
    ASSUME SessionInv, UNCHANGED <<server, news>>
    PROVE  ServersGrow
BY SameServersGrow DEF serverVars

LEMMA BlankNext ==
    ASSUME SessionInv, Blank, [Next]_vars
    PROVE  Blank'
<1>1. CASE UiThread
  <2>1. CASE Begin \/ Notified \/ Synchronized \/ GiveUp
    BY <2>1, HeadServers, BlankGrows
  <2>2. CASE \/ \E i \in DOMAIN posted : RunPosted(i)
             \/ \E d \in Docs : Debounced(d)
    <3>1. UNCHANGED <<life, server, news>>
      BY <2>2 DEF RunPosted, Debounced, clientVars, serverVars
    <3>. QED  BY <3>1, CalmGrows, BlankGrows
  <2>. QED  BY <1>1, <2>1, <2>2, BlankReceive DEF UiThread
<1>2. CASE Answered
  BY <1>2, HeadServers, BlankGrows
<1>3. CASE Editor
  <2>1. UNCHANGED <<life, server, news>>
    BY <1>3 DEF Editor, Activate, Edit, CloseView, Hover, Rename, Register, Configure, clientVars, serverVars
  <2>. QED  BY <2>1, CalmGrows, BlankGrows
<1>4. CASE Start \/ RequestStop
  BY <1>4, BlankEnds DEF Start, RequestStop, serverVars
<1>5. CASE Die \/ Exit
  BY <1>5, BlankEnds, EndedInits DEF Die, Exit, Ended
<1>6. CASE \E c \in Conns : Launch(c)
  BY <1>6, BlankLaunch
<1>7. CASE UNCHANGED vars
  BY <1>7, CalmGrows, BlankGrows DEF vars
<1>. QED  BY <1>1, <1>2, <1>3, <1>4, <1>5, <1>6, <1>7 DEF Next, Lifecycle

-----------------------------------------------------------------------------
(* What the server knows.                                                   *)

Known(u) == server[rpc].docs[u]
Sending(d) == Underway /\ Current.doc = d /\ Current.sentUri = doc[d].uri
Closing(u) == \E i \in DOMAIN queue : QueuedClose(i, u) /\ Live(queue[i])

(* A text was sent to it under the name of now, and it is the last one.     *)
IsKnown(d) ==
    LET known == Known(doc[d].uri)
    IN  /\ doc[d].sent # None \/ Sending(d) => known # None /\ known.version = doc[d].version
        /\ doc[d].sent # None /\ ~Sending(d) => known.text = doc[d].sent
        /\ Sending(d) => known.text = Current.snapshot
SentIsKnown == Up => \A d \in Open : IsKnown(d)

(* It knows nothing else, but what it is about to be told the close of.     *)
KnownIsOpen ==
    Up => \A u \in Uris : Known(u) # None =>
            \/ \E d \in Open : doc[d].uri = u /\ (doc[d].sent # None \/ Sending(d))
            \/ Closing(u)

KnownInv == SentIsKnown /\ KnownIsOpen

LEMMA NotUp ==
    ASSUME life' # "up"
    PROVE  KnownInv'
BY DEF KnownInv, SentIsKnown, KnownIsOpen, Up

LEMMA SameSending ==
    ASSUME SessionInv, QueueGrows, UNCHANGED generation,
           \A d \in Docs : doc'[d].uri = doc[d].uri
    PROVE  /\ \A d \in Docs : Sending(d)' <=> Sending(d)
           /\ Underway => Current' = Current
<1>1. At("synchronizing")' <=> At("synchronizing")
  BY HeadSame
<1>2. At("synchronizing") => Current' = Current
  BY HeadSame DEF At
<1>3. Underway' <=> Underway
  BY <1>1, <1>2 DEF Underway
<1>4. Underway => Current' = Current
  BY <1>2 DEF Underway
<1>. QED  BY <1>3, <1>4 DEF Sending

LEMMA ClosingGrows ==
    ASSUME QueueGrows, UNCHANGED <<rpc, generation>>
    PROVE  \A u : Closing(u) => Closing(u)'
BY DEF QueueGrows, Closing, QueuedClose, Live

LEMMA ClosingStays ==
    ASSUME SessionInv, queue # <<>>, UNCHANGED <<rpc, generation>>,
           queue' = Tail(queue) \/ \E new \in Ops : Put(new),
           NEW u, Closing(u), ~(QueuedClose(1, u) /\ Live(Current))
    PROVE  Closing(u)'
<1>1. PICK i \in DOMAIN queue : QueuedClose(i, u) /\ Live(queue[i])
  BY DEF Closing
<1>2. i # 1
  BY <1>1, AtHead DEF SessionInv
<1>3. CASE queue' = Tail(queue)
  <2>1. i - 1 \in DOMAIN queue' /\ queue'[i - 1] = queue[i]
    BY <1>2, <1>3, QueuePopped DEF SessionInv
  <2>. QED  BY <1>1, <2>1 DEF Closing, QueuedClose, Live
<1>4. ASSUME NEW new \in Ops, Put(new)
      PROVE  Closing(u)'
  <2>1. i \in DOMAIN queue' /\ queue'[i] = queue[i]
    BY <1>2, <1>4, QueuePut DEF SessionInv, Put
  <2>. QED  BY <1>1, <2>1 DEF Closing, QueuedClose, Live
<1>. QED  BY <1>3, <1>4

LEMMA KeptKnown ==
    ASSUME SessionInv, KnownInv, UNCHANGED <<life, rpc, generation, server>>, QueueGrows,
           \A d \in Docs : /\ doc'[d].state = doc[d].state /\ doc'[d].uri = doc[d].uri
                           /\ doc'[d].sent = doc[d].sent /\ doc'[d].version = doc[d].version
    PROVE  KnownInv'
<1>1. Open' = Open /\ \A d \in Open : d \in Docs
  BY DEF Open
<1>2. /\ \A d \in Docs : Sending(d)' <=> Sending(d)
      /\ Underway => Current' = Current
      /\ \A u : Closing(u) => Closing(u)'
  BY SameSending, ClosingGrows
<1>3. SentIsKnown'
  <2>. SUFFICES ASSUME Up, NEW d \in Docs, d \in Open PROVE IsKnown(d)'
    BY <1>1 DEF SentIsKnown, Up
  <2>1. IsKnown(d)
    BY DEF KnownInv, SentIsKnown
  <2>2. Sending(d) => Underway
    BY DEF Sending
  <2>. QED  BY <1>2, <2>1, <2>2 DEF IsKnown, Known
<1>4. KnownIsOpen'
  <2>. SUFFICES ASSUME Up, NEW u \in Uris, Known(u) # None
                PROVE  \/ \E d \in Open : doc'[d].uri = u /\ (doc'[d].sent # None \/ Sending(d)')
                       \/ Closing(u)'
    BY <1>1 DEF KnownIsOpen, Up, Known
  <2>1. \/ \E d \in Open : doc[d].uri = u /\ (doc[d].sent # None \/ Sending(d))
        \/ Closing(u)
    BY DEF KnownInv, KnownIsOpen
  <2>. QED  BY <1>1, <1>2, <2>1
<1>. QED  BY <1>3, <1>4 DEF KnownInv

LEMMA HeadKnown ==
    ASSUME SessionInv, KnownInv, UNCHANGED <<life, rpc, generation>>,
           Up => server'[rpc].docs = server[rpc].docs,
           queue # <<>>, ~(Current.kind = "close" /\ Current.step = "queued" /\ Live(Current)),
           \/ queue' = Tail(queue)
           \/ \E new \in Ops : Put(new) /\ new.step # "synchronizing",
           \A d \in Docs : ~Sending(d),
           \A d \in Docs : /\ doc'[d].state = doc[d].state /\ doc'[d].uri = doc[d].uri
                           /\ doc'[d].sent = doc[d].sent /\ doc'[d].version = doc[d].version
    PROVE  KnownInv'
<1>1. Open' = Open /\ \A d \in Open : d \in Docs
  BY DEF Open
<1>2. \A d \in Docs : ~Sending(d)'
  <2>1. ~At("synchronizing")'
    BY HeadGone, HeadPut DEF At
  <2>. QED  BY <2>1 DEF Sending, Underway
<1>3. \A u : Closing(u) => Closing(u)'
  <2>1. queue[1] = Current
    BY AtHead DEF SessionInv
  <2>. QED  BY <2>1, ClosingStays DEF QueuedClose
<1>4. SentIsKnown'
  <2>. SUFFICES ASSUME Up, NEW d \in Docs, d \in Open PROVE IsKnown(d)'
    BY <1>1 DEF SentIsKnown, Up
  <2>1. IsKnown(d)
    BY DEF KnownInv, SentIsKnown
  <2>. QED  BY <1>2, <2>1 DEF IsKnown, Known
<1>5. KnownIsOpen'
  <2>. SUFFICES ASSUME Up, NEW u \in Uris, Known(u) # None
                PROVE  \/ \E d \in Open : doc'[d].uri = u /\ doc'[d].sent # None
                       \/ Closing(u)'
    BY <1>1 DEF KnownIsOpen, Up, Known
  <2>1. \/ \E d \in Open : doc[d].uri = u /\ (doc[d].sent # None \/ Sending(d))
        \/ Closing(u)
    BY DEF KnownInv, KnownIsOpen
  <2>. QED  BY <1>1, <1>3, <2>1
<1>. QED  BY <1>4, <1>5 DEF KnownInv

LEMMA TakenIn ==
    ASSUME SessionInv, Up, NEW r, NEW us, TakesIn(rpc, r, us), UNCHANGED rpc
    PROVE  server'[rpc] = r /\ \A u : Known(u)' = r.docs[u]
BY UpConn DEF TakesIn, SessionInv, SessionTypeOK, Known

LEMMA SentKnown ==
    ASSUME SessionInv, NamesInv, KnownInv, Up, queue # <<>>, ~Stale, Current.step = "queued",
           Current.kind \in {"refresh", "hover"}, Current.kind = "refresh" => Current.doc \in Open,
           UNCHANGED <<life, rpc, generation>>,
           NEW new \in Ops, SentUp(new)
    PROVE  KnownInv'
<1>. DEFINE op == Current
<1>. PICK d \in Docs, u \in Uris, t \in Nat, v \in Nat :
       d = op.doc /\ u = doc[d].uri /\ t = doc[d].text /\ v = doc[d].version + 1
  BY DocOfHead
<1>. DEFINE told == [text |-> t, version |-> v]
<1>0. /\ doc[d] \in Documents /\ doc \in [Docs -> Documents] /\ server[rpc] \in Servers
      /\ doc[d].state \in {"open", "closed"} /\ told # None /\ rpc \in Conns
  <2>1. told \in Texts
    BY DEF Texts
  <2>. QED  BY <2>1, DocOfHead, UpConn, NoneAssumption DEF SessionInv, SessionTypeOK, Documents
<1>1. /\ Put(new) /\ SameButStep(new, op) /\ new.step = "synchronizing"
      /\ new.snapshot = t /\ new.sentUri = u /\ new.askEpoch = generation
      /\ doc' = [doc EXCEPT ![d].version = v]
  BY DEF SentUp
<1>2. /\ \A e \in Docs : /\ doc'[e].state = doc[e].state /\ doc'[e].uri = doc[e].uri
                         /\ doc'[e].sent = doc[e].sent
                         /\ e # d => doc'[e] = doc[e]
      /\ doc'[d].version = v /\ Open' = Open
  BY <1>0, <1>1 DEF Documents, Open
<1>3. /\ At("synchronizing")' /\ Current' = new /\ new.doc = d
  BY <1>1, HeadPut DEF At, SameButStep
<1>4. \A e \in Docs : ~Sending(e) /\ (Sending(e)' <=> e = d)
  BY <1>1, <1>2, <1>3 DEF Sending, Underway, At
<1>5. op = queue[1] /\ 1 \in DOMAIN queue /\ DOMAIN queue \subseteq Nat \ {0}
  BY AtHead DEF SessionInv
<1>6. \A w : Closing(w) => Closing(w)'
  BY <1>1, <1>5, ClosingStays DEF QueuedClose
<1>7. \A w \in Uris : w # u => Known(w)' = Known(w)
  <2>1. CASE UNCHANGED serverVars
    BY <2>1 DEF Known, serverVars
  <2>2. CASE TakesIn(rpc, Opening(rpc, u, t, v), {u})
    BY <1>0, <2>2, TakenIn DEF Opening, Servers, Known
  <2>. QED  BY <2>1, <2>2 DEF SentUp
<1>8. CASE doc[d].state = "open"
  <2>1. d \in Open
    BY <1>0, <1>8 DEF Open
  <2>2. doc[d].sent # None => Known(u) # None
    BY <2>1 DEF KnownInv, SentIsKnown, IsKnown
  <2>3. Known(u)' = told
    <3>1. TakesIn(rpc, Opening(rpc, u, t, v), {u})
      BY <2>2 DEF SentUp, Known
    <3>. QED  BY <1>0, <3>1, TakenIn DEF Opening, Servers
  <2>4. ASSUME NEW e \in Open PROVE IsKnown(e)'
    <3>1. CASE e = d
      BY <1>0, <1>1, <1>2, <1>3, <1>4, <2>3, <3>1 DEF IsKnown
    <3>2. CASE e # d
      <4>1. e \in Docs /\ doc[e].uri # u /\ doc[e].uri \in Uris
        BY <2>1, <3>2 DEF Open, NamesInv, NamesAreOwn, SessionInv, DocsOk
      <4>2. IsKnown(e)
        BY DEF KnownInv, SentIsKnown
      <4>3. PICK w \in Uris : w = doc[e].uri /\ w # u
        BY <4>1
      <4>4. Known(w)' = Known(w)
        BY <1>7, <4>3
      <4>. QED  BY <1>2, <1>4, <3>2, <4>1, <4>2, <4>3, <4>4 DEF IsKnown, Known
    <3>. QED  BY <3>1, <3>2
  <2>5. ASSUME NEW w \in Uris, Known(w)' # None
        PROVE  \/ \E e \in Open : doc'[e].uri = w /\ (doc'[e].sent # None \/ Sending(e)')
               \/ Closing(w)'
    <3>1. CASE w = u
      BY <1>2, <1>4, <2>1, <3>1 DEF Open
    <3>2. CASE w # u
      BY <1>2, <1>4, <1>6, <1>7, <2>5, <3>2 DEF KnownInv, KnownIsOpen, Open
    <3>. QED  BY <3>1, <3>2
  <2>. QED  BY <1>2, <2>4, <2>5 DEF KnownInv, SentIsKnown, KnownIsOpen
<1>9. CASE doc[d].state = "closed"
  <2>1. d \notin Open /\ op.kind = "hover" /\ Live(op)
    BY <1>9 DEF Open, Stale, Live
  <2>2. PICK j \in DOMAIN queue : j > 1 /\ QueuedClose(j, u) /\ Live(queue[j])
    BY <1>0, <1>5, <1>9, <2>1 DEF NamesInv, CloseFollows
  <2>3. Closing(u)'
    BY <1>6, <2>2 DEF Closing
  <2>4. ASSUME NEW e \in Open PROVE IsKnown(e)'
    <3>0. e \in Docs /\ e # d /\ doc[e].uri \in Uris
      BY <2>1 DEF Open, SessionInv, DocsOk
    <3>1. CASE doc[e].uri = u
      BY <1>2, <1>4, <2>2, <3>0, <3>1 DEF NamesInv, CloseFirst, IsKnown
    <3>2. CASE doc[e].uri # u
      <4>1. IsKnown(e)
        BY DEF KnownInv, SentIsKnown
      <4>2. PICK w \in Uris : w = doc[e].uri /\ w # u
        BY <3>0, <3>2
      <4>3. Known(w)' = Known(w)
        BY <1>7, <4>2
      <4>. QED  BY <1>2, <1>4, <3>0, <4>1, <4>2, <4>3 DEF IsKnown, Known
    <3>. QED  BY <3>1, <3>2
  <2>5. ASSUME NEW w \in Uris, Known(w)' # None
        PROVE  \/ \E e \in Open : doc'[e].uri = w /\ (doc'[e].sent # None \/ Sending(e)')
               \/ Closing(w)'
    <3>1. CASE w = u
      BY <2>3, <3>1
    <3>2. CASE w # u
      BY <1>2, <1>4, <1>6, <1>7, <2>5, <3>2 DEF KnownInv, KnownIsOpen, Open
    <3>. QED  BY <3>1, <3>2
  <2>. QED  BY <1>2, <2>4, <2>5 DEF KnownInv, SentIsKnown, KnownIsOpen
<1>. QED  BY <1>0, <1>8, <1>9

LEMMA QueuedNotSending ==
    ASSUME Current.step # "synchronizing"
    PROVE  \A d : ~Sending(d)
BY DEF Sending, Underway, At

LEMMA NotifiesPuts ==
    ASSUME SessionInv, queue # <<>>, Notifies
    PROVE  \E new \in Ops : Put(new) /\ SameButStep(new, Current) /\ new.step = "notifying"
<1>. DEFINE op == Current
            new == [op EXCEPT !.step = "notifying"]
<1>1. op \in Ops
  BY HeadOk
<1>2. new \in Ops /\ SameButStep(new, op) /\ new.step = "notifying"
  BY <1>1 DEF Ops, SameButStep
<1>. HIDE DEF new
<1>. QED  BY <1>2 DEF Notifies, new

LEMMA ClosedKnown ==
    ASSUME SessionInv, NamesInv, KnownInv, Up, queue # <<>>, ~Stale, Current.step = "queued",
           Current.kind = "close", Notifies, UNCHANGED <<life, rpc, generation>>,
           TakesIn(rpc, [server[rpc] EXCEPT !.docs[Current.uri] = None], {})
    PROVE  KnownInv'
<1>. PICK u \in Uris : u = Current.uri
  BY HeadOk DEF OpOk
<1>1. UNCHANGED doc /\ Open' = Open
  BY DEF Notifies, Open
<1>2. PICK new \in Ops : Put(new) /\ SameButStep(new, Current) /\ new.step = "notifying"
  BY NotifiesPuts
<1>3. /\ Known(u)' = None
      /\ \A w \in Uris : w # u => Known(w)' = Known(w)
  <2>1. server[rpc] \in Servers
    BY UpConn
  <2>. QED  BY <2>1, TakenIn DEF Servers, Known
<1>4. \A e \in Docs : ~Sending(e) /\ ~Sending(e)'
  BY <1>2, HeadPut DEF Sending, Underway, At
<1>5. 1 \in DOMAIN queue /\ DOMAIN queue \subseteq Nat \ {0} /\ QueuedClose(1, u)
  BY AtHead DEF SessionInv, QueuedClose
<1>6. \A w \in Uris : w # u /\ Closing(w) => Closing(w)'
  BY <1>2, <1>5, ClosingStays DEF QueuedClose
<1>7. ASSUME NEW e \in Open PROVE IsKnown(e)'
  <2>0. e \in Docs /\ doc[e].uri \in Uris
    BY DEF Open, SessionInv, DocsOk
  <2>1. CASE doc[e].uri = u
    BY <1>1, <1>4, <1>5, <2>0, <2>1 DEF NamesInv, CloseFirst, IsKnown
  <2>2. CASE doc[e].uri # u
    <3>1. IsKnown(e)
      BY DEF KnownInv, SentIsKnown
    <3>2. PICK w \in Uris : w = doc[e].uri /\ w # u
      BY <2>0, <2>2
    <3>3. Known(w)' = Known(w)
      BY <1>3, <3>2
    <3>. QED  BY <1>1, <1>4, <2>0, <3>1, <3>2, <3>3 DEF IsKnown, Known
  <2>. QED  BY <2>1, <2>2
<1>8. ASSUME NEW w \in Uris, Known(w)' # None
      PROVE  \/ \E e \in Open : doc'[e].uri = w /\ (doc'[e].sent # None \/ Sending(e)')
             \/ Closing(w)'
  BY <1>1, <1>3, <1>4, <1>6, <1>8 DEF KnownInv, KnownIsOpen, Open
<1>. QED  BY <1>1, <1>7, <1>8 DEF KnownInv, SentIsKnown, KnownIsOpen

LEMMA BeginKnown ==
    ASSUME SessionInv, NamesInv, KnownInv, Begin
    PROVE  KnownInv'
<1>. DEFINE op == Current
           still == UNCHANGED <<doc, server, news>>
<1>0. /\ queue # <<>> /\ op.step = "queued" /\ UNCHANGED <<life, rpc, generation>>
      /\ \A d : ~Sending(d)
  BY BeginUp, QueuedNotSending
<1>1. CASE ~Up
  BY <1>0, <1>1, NotUp DEF Up
<1>2. CASE (Done \/ Fails) /\ still /\ (Stale \/ op.kind \in {"refresh", "hover"})
  BY <1>0, <1>2, HeadKnown DEF Done, Fails, Stale, Live
<1>3. CASE /\ still /\ op.kind \in {"refresh", "hover"} /\ \E new \in Ops : AskedAs(new)
  BY <1>0, <1>3, HeadKnown DEF AskedAs
<1>4. CASE /\ Up /\ ~Stale /\ op.kind \in {"refresh", "hover"}
           /\ op.kind = "refresh" => op.doc \in Open
           /\ \E new \in Ops : SentUp(new)
  BY <1>0, <1>4, SentKnown
<1>5. CASE /\ Up /\ ~Stale /\ op.kind = "close" /\ Notifies
           /\ TakesIn(rpc, [server[rpc] EXCEPT !.docs[op.uri] = None], {})
  BY <1>0, <1>5, ClosedKnown
<1>6. CASE /\ Up /\ ~Stale /\ op.kind = "configure" /\ Notifies
           /\ TakesIn(rpc, [server[rpc] EXCEPT !.configured = op.settings],
                      Affected(rpc, op.settings))
  <2>1. server'[rpc].docs = server[rpc].docs
    <3>1. server[rpc] \in Servers
      BY <1>6, UpConn
    <3>. QED  BY <1>0, <1>6, <3>1, TakenIn DEF Servers
  <2>2. \E new \in Ops : Put(new) /\ new.step # "synchronizing"
    BY <1>0, <1>6, NotifiesPuts
  <2>. QED  BY <1>0, <1>6, <2>1, <2>2, HeadKnown DEF Notifies
<1>. QED  BY <1>1, <1>2, <1>3, <1>4, <1>5, <1>6, BeginUp

LEMMA SynchronizedKnown ==
    ASSUME SessionInv, NamesInv, KnownInv, Synchronized
    PROVE  KnownInv'
<1>. DEFINE op == Current
<1>0. /\ queue # <<>> /\ At("synchronizing") /\ op \in Ops /\ op.kind \in {"refresh", "hover"}
      /\ UNCHANGED <<life, rpc, generation, server>> /\ doc \in [Docs -> Documents]
      /\ op.snapshot # None
  BY HeadOk, NoneAssumption DEF Synchronized, At, OpOk, sessionVars, clientVars, serverVars, SessionInv,
     SessionTypeOK
<1>1. CASE ~Up
  BY <1>0, <1>1, NotUp DEF Up
<1>2. CASE Up /\ UNCHANGED doc /\ Fails /\ ~server[op.conn].alive
  <2>1. \A d \in Docs : ~Sending(d)
    BY <1>2, UpConn DEF Sending, NamesInv, SendingOk, Live
  <2>. QED  BY <1>0, <1>2, <2>1, HeadKnown DEF Fails
<1>3. CASE Up /\ doc' = MarkSent(op) /\ AskNext
  <2>. PICK d \in Docs : d = op.doc
    BY <1>0, DocOfHead
  <2>0. AskNext
    BY <1>3
  <2>1. \/ queue' = Tail(queue)
        \/ \E new \in Ops : Put(new) /\ new.step # "synchronizing"
    BY <1>0, <2>0, AskCases DEF Done, Fails, AskedAs
  <2>2. CASE UNCHANGED doc /\ \A e \in Docs : ~Sending(e)
    BY <1>0, <2>1, <2>2, HeadKnown
  <2>3. CASE /\ op.askEpoch = generation /\ doc[d].uri = op.sentUri
             /\ doc' = [doc EXCEPT ![d].sent = op.snapshot]
    <3>1. /\ \A e \in Docs : /\ doc'[e].state = doc[e].state /\ doc'[e].uri = doc[e].uri
                             /\ doc'[e].version = doc[e].version
                             /\ e # d => doc'[e] = doc[e]
          /\ doc'[d].sent = op.snapshot /\ Open' = Open
      BY <1>0, <2>3 DEF Documents, Open
    <3>2. \A e \in Docs : Sending(e) <=> e = d
      BY <1>0, <2>3 DEF Sending, Underway
    <3>3. \A e \in Docs : ~Sending(e)'
      <4>1. ~At("synchronizing")'
        BY <1>0, <2>1, HeadGone, HeadPut DEF At
      <4>. QED  BY <4>1 DEF Sending, Underway
    <3>4. \A w : Closing(w) => Closing(w)'
      <4>1. queue[1] = Current
        BY <1>0, AtHead DEF SessionInv
      <4>. QED  BY <1>0, <2>1, <4>1, ClosingStays DEF QueuedClose
    <3>5. ASSUME NEW e \in Open PROVE IsKnown(e)'
      <4>0. e \in Docs
        BY DEF Open
      <4>1. IsKnown(e)
        BY <1>3 DEF KnownInv, SentIsKnown
      <4>2. CASE e = d
        BY <1>0, <3>1, <3>2, <3>3, <4>1, <4>2 DEF IsKnown, Known
      <4>3. CASE e # d
        BY <1>0, <3>1, <3>2, <3>3, <4>0, <4>1, <4>3 DEF IsKnown, Known
      <4>. QED  BY <4>2, <4>3
    <3>6. ASSUME NEW w \in Uris, Known(w)' # None
          PROVE  \/ \E e \in Open : doc'[e].uri = w /\ (doc'[e].sent # None \/ Sending(e)')
                 \/ Closing(w)'
      <4>1. Known(w) # None
        BY <1>0, <3>6 DEF Known
      <4>2. \/ \E e \in Open : doc[e].uri = w /\ (doc[e].sent # None \/ Sending(e))
            \/ Closing(w)
        BY <1>3, <4>1 DEF KnownInv, KnownIsOpen
      <4>. QED  BY <1>0, <3>1, <3>2, <3>4, <4>2 DEF Open
    <3>. QED  BY <1>0, <3>1, <3>5, <3>6 DEF KnownInv, SentIsKnown, KnownIsOpen
  <2>4. CASE ~(op.askEpoch = generation /\ doc[d].uri = op.sentUri)
    <3>1. UNCHANGED doc
      BY <1>3, <2>4 DEF MarkSent
    <3>. QED  BY <2>2, <2>4, <3>1 DEF Sending, Underway
  <2>. QED  BY <1>3, <2>3, <2>4 DEF MarkSent
<1>. QED  BY <1>1, <1>2, <1>3 DEF Synchronized

LEMMA OtherHeadKnown ==
    ASSUME SessionInv, KnownInv, Notified \/ GiveUp \/ Answered
    PROVE  KnownInv'
<1>0. /\ queue # <<>> /\ UNCHANGED <<life, rpc, generation, server>> /\ queue' = Tail(queue)
      /\ Current.step \in {"notifying", "asked"} /\ doc \in [Docs -> Documents]
  BY DEF Notified, GiveUp, Answered, At, Done, Fails, sessionVars, clientVars, serverVars, SessionInv,
     SessionTypeOK
<1>1. \A d \in Docs : /\ doc'[d].state = doc[d].state /\ doc'[d].uri = doc[d].uri
                      /\ doc'[d].sent = doc[d].sent /\ doc'[d].version = doc[d].version
  BY <1>0 DEF Notified, GiveUp, Answered, Documents
<1>. QED  BY <1>0, <1>1, QueuedNotSending, HeadKnown

LEMMA CloseViewKnown ==
    ASSUME SessionInv, KnownInv, NEW d \in Docs, CloseView(d)
    PROVE  KnownInv'
<1>. PICK u \in Uris : u = doc[d].uri
  BY DEF CloseView, Open, SessionInv, DocsOk
<1>. DEFINE new == Close(u)
<1>0. /\ doc \in [Docs -> Documents] /\ doc' = [doc EXCEPT ![d].state = "closed"]
      /\ UNCHANGED <<rpc, generation, life, server>> /\ Enqueue(<<new>>)
  BY DEF CloseView, sessionVars, clientVars, serverVars, SessionInv, SessionTypeOK
<1>1. /\ new.step = "queued" /\ new.kind = "close" /\ new.uri = u /\ Live(new)
      /\ rpc # None => new \in Ops
  BY OpMade DEF Close, Op, Live, SessionInv
<1>. HIDE DEF new
<1>2. QueueGrows /\ (rpc # None => \E i \in New : queue'[i] = new)
  BY <1>0, <1>1, EnqueueOne
<1>3. /\ \A e \in Docs : /\ doc'[e].uri = doc[e].uri /\ doc'[e].sent = doc[e].sent
                         /\ doc'[e].version = doc[e].version
      /\ Open' = Open \ {d} /\ \A e \in Open : e \in Docs
  BY <1>0 DEF Documents, Open
<1>4. /\ \A e \in Docs : Sending(e)' <=> Sending(e)
      /\ Underway => Current' = Current
  BY <1>0, <1>2, <1>3, SameSending
<1>5. \A w : Closing(w) => Closing(w)'
  BY <1>0, <1>2, ClosingGrows
<1>6. SentIsKnown'
  <2>. SUFFICES ASSUME Up, NEW e \in Docs, e \in Open PROVE IsKnown(e)'
    BY <1>0, <1>3 DEF SentIsKnown, Up
  <2>1. IsKnown(e)
    BY DEF KnownInv, SentIsKnown
  <2>2. Sending(e) => Underway
    BY DEF Sending
  <2>. QED  BY <1>0, <1>3, <1>4, <2>1, <2>2 DEF IsKnown, Known
<1>7. KnownIsOpen'
  <2>. SUFFICES ASSUME Up, NEW w \in Uris, Known(w) # None
                PROVE  \/ \E e \in Open \ {d} : doc'[e].uri = w /\ (doc'[e].sent # None \/ Sending(e)')
                       \/ Closing(w)'
    BY <1>0, <1>3 DEF KnownIsOpen, Up, Known
  <2>1. \/ \E e \in Open : doc[e].uri = w /\ (doc[e].sent # None \/ Sending(e))
        \/ Closing(w)
    BY DEF KnownInv, KnownIsOpen
  <2>2. CASE w = u
    <3>1. PICK i \in New : queue'[i] = new
      BY <1>2, UpConn
    <3>2. QueuedClose(i, w)' /\ Live(queue[i])' /\ i \in DOMAIN queue'
      BY <1>0, <1>1, <2>2, <3>1 DEF QueuedClose, Live, New
    <3>. QED  BY <3>2 DEF Closing
  <2>. QED  BY <1>3, <1>4, <1>5, <2>1, <2>2
<1>. QED  BY <1>6, <1>7 DEF KnownInv

LEMMA RenameKnown ==
    ASSUME SessionInv, NamesInv, KnownInv, ~reused', NEW d \in Docs, NEW v \in Uris, Rename(d, v)
    PROVE  KnownInv'
<1>. PICK u \in Uris : u = doc[d].uri
  BY DEF Rename, Open, SessionInv, DocsOk
<1>. DEFINE new == [Close(u) EXCEPT !.then = "renamed", !.doc = d]
<1>0. /\ doc \in [Docs -> Documents]
      /\ doc' = [doc EXCEPT ![d] = [Cleared(@) EXCEPT !.uri = v, !.sent = None]]
      /\ UNCHANGED <<rpc, generation, life, server>> /\ Enqueue(<<new>>)
      /\ doc[d].state = "open" /\ v # u
      /\ \A e \in Open : doc[e].uri # v
      /\ \A i \in DOMAIN queue : queue[i].kind = "close" => queue[i].uri # v
  BY DEF Rename, sessionVars, clientVars, serverVars, SessionInv, SessionTypeOK, Open, ByUri
<1>1. /\ new.step = "queued" /\ new.kind = "close" /\ new.uri = u /\ Live(new)
      /\ rpc # None => new \in Ops
  BY <1>0 DEF Close, Op, Live, Ops, SessionInv, SessionTypeOK
<1>. HIDE DEF new
<1>2. QueueGrows /\ (rpc # None => \E i \in New : queue'[i] = new)
  BY <1>0, <1>1, EnqueueOne
<1>3. /\ doc'[d].uri = v /\ doc'[d].sent = None
      /\ \A e \in Docs : e # d => doc'[e] = doc[e]
      /\ Open' = Open /\ \A e \in Open : e \in Docs
  BY <1>0 DEF Documents, Open, Cleared
<1>4. (At("synchronizing")' <=> At("synchronizing")) /\ (At("synchronizing") => Current' = Current)
  BY <1>2, HeadSame DEF At
<1>5. /\ Underway' <=> Underway
      /\ Underway => Current' = Current
  BY <1>0, <1>4 DEF Underway
<1>6. \A e \in Docs : e # d => (Sending(e)' <=> Sending(e))
  BY <1>3, <1>5 DEF Sending
<1>7. ~Sending(d)'
  <2>. SUFFICES ASSUME Underway, Current.doc = d, Current.sentUri = v PROVE FALSE
    BY <1>3, <1>5 DEF Sending
  <2>. QED  BY <1>0 DEF NamesInv, SendingOk
<1>8. \A w : Closing(w) => Closing(w)'
  BY <1>0, <1>2, ClosingGrows
<1>9. SentIsKnown'
  <2>. SUFFICES ASSUME Up, NEW e \in Docs, e \in Open PROVE IsKnown(e)'
    BY <1>0, <1>3 DEF SentIsKnown, Up
  <2>1. IsKnown(e)
    BY DEF KnownInv, SentIsKnown
  <2>2. Sending(e) => Underway
    BY DEF Sending
  <2>3. CASE e = d
    BY <1>3, <1>7, <2>3 DEF IsKnown
  <2>4. CASE e # d
    BY <1>0, <1>3, <1>5, <1>6, <2>1, <2>2, <2>4 DEF IsKnown, Known
  <2>. QED  BY <2>3, <2>4
<1>10. KnownIsOpen'
  <2>. SUFFICES ASSUME Up, NEW w \in Uris, Known(w) # None
                PROVE  \/ \E e \in Open : doc'[e].uri = w /\ (doc'[e].sent # None \/ Sending(e)')
                       \/ Closing(w)'
    BY <1>0, <1>3 DEF KnownIsOpen, Up, Known
  <2>1. \/ \E e \in Open : doc[e].uri = w /\ (doc[e].sent # None \/ Sending(e))
        \/ Closing(w)
    BY DEF KnownInv, KnownIsOpen
  <2>2. CASE w = u
    <3>1. PICK i \in New : queue'[i] = new
      BY <1>2, UpConn
    <3>2. QueuedClose(i, w)' /\ Live(queue[i])' /\ i \in DOMAIN queue'
      BY <1>0, <1>1, <2>2, <3>1 DEF QueuedClose, Live, New
    <3>. QED  BY <3>2 DEF Closing
  <2>. QED  BY <1>3, <1>6, <1>8, <2>1, <2>2
<1>. QED  BY <1>9, <1>10 DEF KnownInv

LEMMA RegisterKnown ==
    ASSUME SessionInv, KnownInv, NEW d \in Docs, NEW u \in Uris, NEW f \in BOOLEAN, Register(d, u, f)
    PROVE  KnownInv'
<1>. DEFINE ops == IF f THEN <<Refresh(d), Refresh(d)>> ELSE <<Refresh(d)>>
<1>0. /\ doc \in [Docs -> Documents]
      /\ doc' = [doc EXCEPT ![d].state = "open", ![d].uri = u]
      /\ UNCHANGED <<rpc, generation, life, server>> /\ Enqueue(ops)
      /\ doc[d].state = "unopened" /\ doc[d].sent = None
  BY DEF Register, sessionVars, clientVars, serverVars, SessionInv, SessionTypeOK, DocsOk, NewDoc
<1>1. rpc # None => Refresh(d) \in Ops
  BY OpMade DEF SessionInv, Refresh
<1>2. /\ \A j \in DOMAIN ops : ops[j].step = "queued"
      /\ rpc # None => ops \in Seq(Ops)
  BY <1>1, RefreshIsLive
<1>. HIDE DEF ops
<1>3. QueueGrows
  BY <1>0, <1>2, EnqueueGrows
<1>4. /\ doc'[d].sent = None /\ \A e \in Docs : e # d => doc'[e] = doc[e]
      /\ Open' = Open \cup {d} /\ d \notin Open /\ \A e \in Open : e \in Docs
  BY <1>0 DEF Documents, Open
<1>5. (At("synchronizing")' <=> At("synchronizing")) /\ (At("synchronizing") => Current' = Current)
  BY <1>3, HeadSame DEF At
<1>6. /\ Underway' <=> Underway
      /\ Underway => Current' = Current
  BY <1>0, <1>5 DEF Underway
<1>7. \A e \in Docs : e # d => (Sending(e)' <=> Sending(e))
  BY <1>4, <1>6 DEF Sending
<1>8. ~Sending(d)'
  <2>. SUFFICES ASSUME Underway, Current.doc = d PROVE FALSE
    BY <1>6 DEF Sending
  <2>1. OpOk(Current) /\ Current.step = "synchronizing"
    BY HeadOk DEF Underway, At
  <2>. QED  BY <1>0, <2>1 DEF OpOk, WasOpened
<1>9. \A w : Closing(w) => Closing(w)'
  BY <1>0, <1>3, ClosingGrows
<1>10. SentIsKnown'
  <2>. SUFFICES ASSUME Up, NEW e \in Docs, e \in Open \cup {d} PROVE IsKnown(e)'
    BY <1>0, <1>4 DEF SentIsKnown, Up
  <2>1. e # d => IsKnown(e)
    BY DEF KnownInv, SentIsKnown
  <2>2. Sending(e) => Underway
    BY DEF Sending
  <2>3. CASE e = d
    BY <1>4, <1>8, <2>3 DEF IsKnown
  <2>4. CASE e # d
    BY <1>0, <1>4, <1>6, <1>7, <2>1, <2>2, <2>4 DEF IsKnown, Known
  <2>. QED  BY <2>3, <2>4
<1>11. KnownIsOpen'
  <2>. SUFFICES ASSUME Up, NEW w \in Uris, Known(w) # None
                PROVE  \/ \E e \in Open : doc'[e].uri = w /\ (doc'[e].sent # None \/ Sending(e)')
                       \/ Closing(w)'
    BY <1>0, <1>4 DEF KnownIsOpen, Up, Known
  <2>1. \/ \E e \in Open : doc[e].uri = w /\ (doc[e].sent # None \/ Sending(e))
        \/ Closing(w)
    BY DEF KnownInv, KnownIsOpen
  <2>. QED  BY <1>4, <1>7, <1>9, <2>1
<1>. QED  BY <1>10, <1>11 DEF KnownInv

LEMMA StartKnown ==
    ASSUME SessionInv, Blank, Start
    PROVE  KnownInv'
<1>1. /\ life = "starting" /\ Stopped /\ rpc' = Newest /\ UNCHANGED server /\ QueueGrows
  BY StartEffect
<1>2. /\ generation < generation' /\ generation \in Nat /\ generation' \in Nat
      /\ \A d \in Open : doc'[d].sent = None
      /\ Open' = Open /\ \A e \in Open : e \in Docs
  BY <1>1, StoppedOk, StoppedDocs DEF Open, SessionInv, SessionTypeOK
<1>3. \A e \in Docs : ~Sending(e)'
  <2>. SUFFICES ASSUME Underway' PROVE FALSE
    BY DEF Sending
  <2>1. At("synchronizing") /\ Current' = Current
    BY <1>1, HeadSame DEF Underway, At
  <2>2. Current.askEpoch \in Nat /\ Current.askEpoch <= generation
    BY <2>1, HeadOk DEF At, OpOk
  <2>. QED  BY <1>2, <2>1, <2>2 DEF Underway
<1>4. \A w \in Uris : Known(w)' = None
  BY <1>1 DEF Blank, Known
<1>. QED  BY <1>2, <1>3, <1>4 DEF KnownInv, SentIsKnown, KnownIsOpen, IsKnown

LEMMA KnownNext ==
    ASSUME SessionInv, NamesInv, KnownInv, Blank, ~reused', [Next]_vars
    PROVE  KnownInv'
<1>0. ASSUME Calm PROVE KnownInv'
  BY <1>0, KeptKnown DEF Calm, KeepDoc
<1>1. CASE UiThread
  <2>1. ASSUME NEW c \in Conns, Receive(c) PROVE KnownInv'
    BY <2>1, ReceiveEffect, QueueSame, KeptKnown
  <2>2. ASSUME NEW d \in Docs, Debounced(d) PROVE KnownInv'
    BY <1>0, <2>2, DebouncedCalm
  <2>3. ASSUME NEW i \in DOMAIN posted, RunPosted(i) PROVE KnownInv'
    <3>1. CASE Halts /\ life # "up"
      <4>1. life' # "up"
        BY <2>3, <3>1 DEF RunPosted, clientVars
      <4>. QED  BY <4>1, NotUp
    <3>. QED  BY <1>0, <2>3, <3>1, RunPostedCases
  <2>. QED  BY <1>1, <2>1, <2>2, <2>3, BeginKnown, OtherHeadKnown, SynchronizedKnown DEF UiThread
<1>2. CASE Answered
  BY <1>2, OtherHeadKnown
<1>3. CASE Editor
  <2>1. ASSUME NEW d \in Docs \cup {None}, Activate(d) PROVE KnownInv'
    BY <1>0, <2>1, ActivateCalm
  <2>2. ASSUME NEW d \in Docs, Edit(d) \/ Hover(d) PROVE KnownInv'
    BY <1>0, <2>2, EditCalm, HoverCalm
  <2>3. ASSUME NEW s \in Settings, Configure(s) PROVE KnownInv'
    BY <1>0, <2>3, ConfigureCalm
  <2>. QED  BY <1>3, <2>1, <2>2, <2>3, CloseViewKnown, RenameKnown, RegisterKnown DEF Editor
<1>4. CASE Lifecycle
  <2>1. CASE RequestStop \/ Die \/ Exit \/ \E c \in Conns : Launch(c)
    <3>1. life' # "up"
      BY <2>1 DEF RequestStop, Die, Exit, Launch
    <3>. QED  BY <3>1, NotUp
  <2>. QED  BY <1>4, <2>1, StartKnown DEF Lifecycle
<1>5. CASE UNCHANGED vars
  BY <1>5, QueueSame, KeptKnown DEF vars
<1>. QED  BY <1>1, <1>2, <1>3, <1>4, <1>5 DEF Next

LEMMA KnownInit ==
    ASSUME Init
    PROVE  KnownInv
BY DEF Init, KnownInv, SentIsKnown, KnownIsOpen, Up

-----------------------------------------------------------------------------
(* A text the server does not know is on its way there.                     *)

ToHandle(kind, d) == IsPosted(Task(kind, d, None))
Refreshes(i, d) ==
    queue[i].kind = "refresh" /\ queue[i].doc = d /\ queue[i].step = "queued" /\ Live(queue[i])
Renames(i, d) == queue[i].then = "renamed" /\ queue[i].doc = d /\ Live(queue[i])

Pending(d) ==
    \/ ToHandle("changed", d) \/ ToHandle("renamed", d) \/ d \in timer
    \/ \E i \in DOMAIN queue : Refreshes(i, d) \/ Renames(i, d)
    \/ Sending(d) /\ Current.snapshot = doc[d].text

WillBeSent == Up => \A d \in Open : Language(d) /\ doc[d].sent # doc[d].text => Pending(d)

LEMMA TaskIs ==
    ASSUME NEW k \in {"changed", "renamed", "configured"}, NEW d \in Docs \cup {None}
    PROVE  /\ Task(k, d, None) \in Tasks
           /\ Task(k, d, None).kind = k /\ Task(k, d, None).doc = d
BY DEF Task, Tasks

LEMMA PendingKept ==
    ASSUME SessionInv, QueueGrows, UNCHANGED <<rpc, generation>>,
           \A e \in Docs : doc'[e].uri = doc[e].uri,
           NEW d \in Docs, Pending(d),
           doc'[d].text = doc[d].text \/ ToHandle("changed", d)',
           ToHandle("changed", d) => ToHandle("changed", d)' \/ d \in timer',
           ToHandle("renamed", d) => ToHandle("renamed", d)' \/ \E i \in New : Refreshes(i, d)',
           d \in timer => d \in timer' \/ \E i \in New : Refreshes(i, d)'
    PROVE  Pending(d)'
<1>1. CASE \E i \in DOMAIN queue : Refreshes(i, d) \/ Renames(i, d)
  BY <1>1 DEF QueueGrows, Refreshes, Renames, Live, Pending
<1>2. CASE Sending(d) /\ Current.snapshot = doc[d].text
  BY <1>2, SameSending DEF Sending, Pending
<1>3. CASE \E i \in New : Refreshes(i, d)'
  BY <1>3 DEF New, Pending
<1>4. CASE ToHandle("changed", d)' \/ ToHandle("renamed", d)' \/ d \in timer'
  BY <1>4 DEF Pending
<1>. QED  BY <1>1, <1>2, <1>3, <1>4 DEF Pending

LEMMA CalmPending ==
    ASSUME SessionInv, WillBeSent, Calm,
           \A d \in Docs :
             /\ doc'[d].text = doc[d].text \/ ToHandle("changed", d)'
             /\ ToHandle("changed", d) /\ d \in Open => ToHandle("changed", d)' \/ d \in timer'
             /\ ToHandle("renamed", d) /\ rpc # None =>
                  ToHandle("renamed", d)' \/ \E i \in New : Refreshes(i, d)'
             /\ d \in timer /\ rpc # None => d \in timer' \/ \E i \in New : Refreshes(i, d)'
    PROVE  WillBeSent'
<1>. SUFFICES ASSUME Up, NEW d \in Docs, d \in Open, Language(d), doc'[d].sent # doc'[d].text
              PROVE  Pending(d)'
  BY DEF WillBeSent, Up, Calm, KeepDoc, Open, Language
<1>1. CASE doc[d].sent # doc[d].text
  <2>1. Pending(d)
    BY <1>1 DEF WillBeSent
  <2>2. \A e \in Docs : doc'[e].uri = doc[e].uri
    BY DEF Calm, KeepDoc
  <2>3. QueueGrows /\ UNCHANGED <<rpc, generation>> /\ rpc # None
    BY UpConn DEF Calm
  <2>. QED  BY <2>1, <2>2, <2>3, PendingKept
<1>2. CASE doc[d].sent = doc[d].text
  BY <1>2 DEF Pending, Calm, KeepDoc
<1>. QED  BY <1>1, <1>2

LEMMA NewRefreshes ==
    ASSUME NEW d, NEW i \in New, queue'[i] = Refresh(d), UNCHANGED <<rpc, generation>>
    PROVE  Refreshes(i, d)'
BY RefreshIsLive DEF Refreshes, Live

LEMMA QuietCalmPending ==
    ASSUME SessionInv, WillBeSent, Calm, UNCHANGED <<posted, timer>>, \A d \in Docs : KeepText(d)
    PROVE  WillBeSent'
BY CalmPending DEF KeepText, ToHandle, IsPosted

LEMMA EditPending ==
    ASSUME SessionInv, WillBeSent, NEW d \in Docs, Edit(d)
    PROVE  WillBeSent'
<1>1. Calm /\ UNCHANGED timer /\ \A e \in Docs : e # d => doc'[e] = doc[e]
  BY EditCalm
<1>2. /\ Task("changed", d, None) \in Tasks
      /\ posted' = Append(posted, Task("changed", d, None))
  BY EditCalm, TaskIs
<1>3. \A t \in Tasks : IsPosted(t)' <=> IsPosted(t) \/ t = Task("changed", d, None)
  BY <1>2, PostedMore DEF SessionInv
<1>4. \A e \in Docs : /\ ToHandle("changed", e) => ToHandle("changed", e)'
                      /\ ToHandle("renamed", e) => ToHandle("renamed", e)'
  BY <1>3, TaskIs DEF ToHandle, Task
<1>5. ToHandle("changed", d)'
  BY <1>2, <1>3 DEF ToHandle, Task
<1>. QED  BY <1>1, <1>4, <1>5, CalmPending

LEMMA DebouncedPending ==
    ASSUME SessionInv, WillBeSent, NEW d \in Docs, Debounced(d)
    PROVE  WillBeSent'
<1>1. /\ Calm /\ UNCHANGED <<doc, posted>> /\ timer' = timer \ {d}
      /\ rpc # None => \E i \in New : queue'[i] = Refresh(d)
  BY DebouncedCalm
<1>2. rpc # None => \E i \in New : Refreshes(i, d)'
  BY <1>1, NewRefreshes DEF Calm
<1>. QED  BY <1>1, <1>2, CalmPending DEF ToHandle, IsPosted

LEMMA RunPostedPending ==
    ASSUME SessionInv, WillBeSent, NEW i \in DOMAIN posted, RunPosted(i), Up
    PROVE  WillBeSent'
<1>. DEFINE k == posted[i]
<1>1. /\ \A t \in Tasks : IsPosted(t) => IsPosted(t)' \/ t = k
      /\ Calm /\ timer \subseteq timer' /\ \A d \in Docs : KeepText(d)
      /\ k.kind = "changed" /\ k.doc \in Open => k.doc \in timer'
      /\ k.kind = "renamed" => (rpc # None => \E n \in New : queue'[n] = Refresh(k.doc))
  BY RunPostedCases DEF Up
<1>3. ASSUME NEW d \in Docs
      PROVE  /\ ToHandle("changed", d) /\ d \in Open => ToHandle("changed", d)' \/ d \in timer'
             /\ ToHandle("renamed", d) /\ rpc # None =>
                  ToHandle("renamed", d)' \/ \E n \in New : Refreshes(n, d)'
  <2>1. ToHandle("changed", d) => ToHandle("changed", d)' \/ k = Task("changed", d, None)
    BY <1>1, TaskIs DEF ToHandle, Task
  <2>2. ToHandle("renamed", d) => ToHandle("renamed", d)' \/ k = Task("renamed", d, None)
    BY <1>1, TaskIs DEF ToHandle, Task
  <2>3. k = Task("changed", d, None) => k.kind = "changed" /\ k.doc = d
    BY TaskIs
  <2>4. k = Task("renamed", d, None) => k.kind = "renamed" /\ k.doc = d
    BY TaskIs
  <2>5. k.kind = "renamed" /\ k.doc = d /\ rpc # None => \E n \in New : Refreshes(n, d)'
    BY <1>1, NewRefreshes DEF Calm
  <2>. QED  BY <1>1, <2>1, <2>2, <2>3, <2>4, <2>5
<1>. QED  BY <1>1, <1>3, CalmPending DEF KeepText

(* The operation under way goes on or ends.                                 *)
LEMMA HeadPending ==
    ASSUME SessionInv, queue # <<>>, UNCHANGED <<rpc, generation, timer>>,
           queue' = Tail(queue) \/ \E new \in Ops : Put(new) /\ SameButStep(new, Current),
           \A t \in Tasks : IsPosted(t) => IsPosted(t)',
           NEW d \in Docs, Pending(d),
           ~(Current.kind = "refresh" /\ Current.doc = d /\ Current.step = "queued" /\ Live(Current)),
           Current.then = "renamed" /\ Current.doc = d /\ Live(Current) =>
               ToHandle("renamed", d)' \/ \E new \in Ops : Put(new) /\ SameButStep(new, Current),
           ~(Sending(d) /\ Current.snapshot = doc[d].text)
    PROVE  Pending(d)'
<1>0. queue[1] = Current
  BY AtHead DEF SessionInv
<1>1. CASE ToHandle("changed", d) \/ ToHandle("renamed", d)
  BY <1>1, TaskIs DEF ToHandle, Pending, Task
<1>2. CASE d \in timer
  BY <1>2 DEF Pending
<1>3. ASSUME NEW i \in DOMAIN queue, Refreshes(i, d) \/ Renames(i, d), i # 1
      PROVE  Pending(d)'
  <2>1. CASE queue' = Tail(queue)
    <3>1. i - 1 \in DOMAIN queue' /\ queue'[i - 1] = queue[i]
      BY <1>3, <2>1, QueuePopped DEF SessionInv
    <3>. QED  BY <1>3, <3>1 DEF Pending, Refreshes, Renames, Live
  <2>2. ASSUME NEW new \in Ops, Put(new) PROVE Pending(d)'
    <3>1. i \in DOMAIN queue' /\ queue'[i] = queue[i]
      BY <1>3, <2>2, QueuePut DEF SessionInv, Put
    <3>. QED  BY <1>3, <3>1 DEF Pending, Refreshes, Renames, Live
  <2>. QED  BY <2>1, <2>2
<1>4. CASE Renames(1, d)
  <2>1. CASE ToHandle("renamed", d)'
    BY <2>1 DEF Pending
  <2>2. ASSUME NEW new \in Ops, Put(new), SameButStep(new, Current) PROVE Pending(d)'
    <3>1. 1 \in DOMAIN queue' /\ queue'[1] = new
      BY <2>2, QueuePut, AtHead DEF SessionInv, Put
    <3>. QED  BY <1>0, <1>4, <2>2, <3>1 DEF Pending, Renames, Live, SameButStep
  <2>. QED  BY <1>0, <1>4, <2>1, <2>2 DEF Renames
<1>. QED  BY <1>0, <1>1, <1>2, <1>3, <1>4 DEF Pending, Refreshes

LEMMA DonePosts ==
    ASSUME SessionInv, queue # <<>>, Done \/ UNCHANGED posted
    PROVE  /\ \A t \in Tasks : IsPosted(t) => IsPosted(t)'
           /\ \A t \in Tasks : Done /\ Current.then # None /\ t = Task(Current.then, Current.doc, None)
                                => IsPosted(t)'
<1>. DEFINE k == Task(Current.then, Current.doc, None)
<1>0. UNCHANGED posted => \A t : IsPosted(t) <=> IsPosted(t)'
  BY DEF IsPosted
<1>1. CASE Done /\ Current.then # None
  <2>1. k \in Tasks
    BY <1>1, HeadOk, TaskIs DEF Ops
  <2>2. posted' = Append(posted, k)
    BY <1>1 DEF Done, Post
  <2>. PICK t \in Tasks : t = k
    BY <2>1
  <2>3. \A s \in Tasks : IsPosted(s)' <=> IsPosted(s) \/ s = t
    BY <2>2, PostedMore DEF SessionInv
  <2>4. IsPosted(t)'
    BY <2>3
  <2>. QED  BY <2>3, <2>4
<1>2. CASE ~(Done /\ Current.then # None)
  <2>1. UNCHANGED posted
    BY <1>2 DEF Done
  <2>. QED  BY <1>0, <1>2, <2>1
<1>. QED  BY <1>1, <1>2

(* A head that is no refresh in waiting goes.                               *)
LEMMA PassedPending ==
    ASSUME SessionInv, WillBeSent, Up, queue # <<>>, UNCHANGED <<rpc, generation, timer>>,
           \/ queue' = Tail(queue) /\ UNCHANGED posted /\ Current.then = None
           \/ queue' = Tail(queue) /\ UNCHANGED posted /\ ~Live(Current)
           \/ Done
           \/ \E new \in Ops : Put(new) /\ SameButStep(new, Current) /\ UNCHANGED posted,
           NEW d \in Docs, d \in Open, Language(d), doc[d].sent # doc[d].text,
           ~(Current.kind = "refresh" /\ Current.doc = d /\ Current.step = "queued" /\ Live(Current)),
           ~(Sending(d) /\ Current.snapshot = doc[d].text)
    PROVE  Pending(d)'
<1>0. Pending(d)
  BY DEF WillBeSent
<1>1. /\ \A t \in Tasks : IsPosted(t) => IsPosted(t)'
      /\ \A t \in Tasks : Done /\ Current.then # None /\ t = Task(Current.then, Current.doc, None)
                                => IsPosted(t)'
  BY DonePosts
<1>2. queue' = Tail(queue) \/ \E new \in Ops : Put(new) /\ SameButStep(new, Current)
  BY DEF Done
<1>3. Current.then = "renamed" /\ Current.doc = d /\ Live(Current) =>
               ToHandle("renamed", d)' \/ \E new \in Ops : Put(new) /\ SameButStep(new, Current)
  <2>1. Done /\ Current.then = "renamed" /\ Current.doc = d => ToHandle("renamed", d)'
    BY <1>1, TaskIs, NoneAssumption DEF ToHandle, Task
  <2>. QED  BY <2>1, NoneAssumption
<1>. QED  BY <1>0, <1>1, <1>2, <1>3, HeadPending

LEMMA BeginPending ==
    ASSUME SessionInv, WillBeSent, Begin
    PROVE  WillBeSent'
<1>. DEFINE op == Current
           still == UNCHANGED <<doc, server, news>>
<1>0. /\ queue # <<>> /\ op.step = "queued" /\ UNCHANGED <<life, rpc, generation, timer>>
      /\ op \in Ops /\ OpOk(op) /\ doc \in [Docs -> Documents]
      /\ \A d : ~Sending(d)
  BY BeginUp, QueuedNotSending, HeadOk DEF SessionInv, SessionTypeOK
<1>. SUFFICES ASSUME Up, NEW d \in Docs, doc'[d].state = "open", doc'[d].uri \in Analysed,
                     doc'[d].sent # doc'[d].text
              PROVE  Pending(d)'
  BY <1>0 DEF WillBeSent, Open, Language, Up
<1>1. CASE ~(op.kind = "refresh" /\ op.doc = d /\ Live(op)) /\ still
  <2>1. d \in Open /\ Language(d) /\ doc[d].sent # doc[d].text
    BY <1>1 DEF Open, Language
  <2>2. \/ queue' = Tail(queue) /\ UNCHANGED posted /\ Current.then = None
        \/ Done
        \/ \E new \in Ops : Put(new) /\ SameButStep(new, Current) /\ UNCHANGED posted
    <3>1. CASE op.kind = "hover" /\ Fails
      BY <1>0, <3>1 DEF Fails, OpOk
    <3>2. CASE Notifies
      BY <1>0, <3>2, NotifiesPuts DEF Notifies
    <3>3. CASE \E new \in Ops : AskedAs(new)
      BY <3>3 DEF AskedAs
    <3>4. CASE \E new \in Ops : SentUp(new)
      BY <3>4 DEF SentUp
    <3>. QED  BY <1>1, <3>1, <3>2, <3>3, <3>4, BeginUp
  <2>. QED  BY <1>0, <1>1, <2>1, <2>2, PassedPending
<1>2. CASE still /\ op.kind = "refresh" /\ op.doc = d /\ Live(op)
  <2>1. d \in Open /\ Language(d) /\ doc[d].sent # doc[d].text /\ ~Stale
    BY <1>2 DEF Open, Language, Live, Stale
  <2>2. ~\E new \in Ops : SentUp(new)
    BY <1>0, <1>2, DocOfHead DEF SentUp, Documents
  <2>. QED  BY <1>2, <2>1, <2>2, BeginUp
<1>3. ASSUME NEW new \in Ops, SentUp(new), op.kind \in {"refresh", "hover"}
      PROVE  Pending(d)'
  <2>1. /\ op.doc \in Docs /\ doc[op.doc].version \in Nat
        /\ Put(new) /\ SameButStep(new, op) /\ new.step = "synchronizing"
        /\ new.snapshot = doc[op.doc].text /\ new.sentUri = doc[op.doc].uri
        /\ new.askEpoch = generation
        /\ doc' = [doc EXCEPT ![op.doc].version = @ + 1] /\ UNCHANGED posted
    BY <1>0, <1>3, DocOfHead DEF SentUp
  <2>2. /\ doc'[d].uri = doc[d].uri /\ doc'[d].text = doc[d].text /\ doc'[d].sent = doc[d].sent
        /\ doc'[d].state = doc[d].state
    BY <1>0, <2>1 DEF Documents
  <2>3. CASE op.doc = d
    <3>1. At("synchronizing")' /\ Current' = new
      BY <1>0, <2>1, HeadPut DEF At
    <3>. QED  BY <1>0, <2>1, <2>2, <2>3, <3>1 DEF Pending, Sending, Underway, SameButStep
  <2>4. CASE op.doc # d
    <3>1. d \in Open /\ Language(d) /\ doc[d].sent # doc[d].text
      BY <2>2 DEF Open, Language
    <3>. QED  BY <1>0, <2>1, <2>4, <3>1, PassedPending
  <2>. QED  BY <2>3, <2>4
<1>4. CASE Notifies /\ op.kind \in {"close", "configure"}
  <2>1. d \in Open /\ Language(d) /\ doc[d].sent # doc[d].text
    BY <1>4 DEF Open, Language, Notifies
  <2>2. \E new \in Ops : Put(new) /\ SameButStep(new, Current) /\ UNCHANGED posted
    BY <1>0, <1>4, NotifiesPuts DEF Notifies
  <2>. QED  BY <1>0, <1>4, <2>1, <2>2, PassedPending
<1>. QED  BY <1>1, <1>2, <1>3, <1>4, BeginUp

LEMMA SynchronizedPending ==
    ASSUME SessionInv, NamesInv, WillBeSent, Synchronized
    PROVE  WillBeSent'
<1>. DEFINE op == Current
<1>0. /\ queue # <<>> /\ At("synchronizing") /\ op \in Ops /\ op.kind \in {"refresh", "hover"}
      /\ op.step = "synchronizing" /\ op.then = None
      /\ UNCHANGED <<life, rpc, generation, server, timer>> /\ doc \in [Docs -> Documents]
      /\ op.doc \in Docs
  BY HeadOk, DocOfHead DEF Synchronized, At, OpOk, sessionVars, clientVars, serverVars, SessionInv,
     SessionTypeOK
<1>. SUFFICES ASSUME Up, NEW d \in Docs, doc'[d].state = "open", doc'[d].uri \in Analysed,
                     doc'[d].sent # doc'[d].text
              PROVE  Pending(d)'
  BY <1>0 DEF WillBeSent, Open, Language, Up
<1>1. /\ doc'[d].state = doc[d].state /\ doc'[d].uri = doc[d].uri /\ doc'[d].text = doc[d].text
      /\ doc'[d].sent = doc[d].sent \/ (op.doc = d /\ doc'[d].sent = op.snapshot)
  BY SMTT(30), <1>0 DEF Synchronized, MarkSent, Documents
<1>2. \/ queue' = Tail(queue) /\ UNCHANGED posted /\ Current.then = None
      \/ Done
      \/ \E new \in Ops : Put(new) /\ SameButStep(new, Current) /\ UNCHANGED posted
  <2>1. CASE Fails
    BY <1>0, <2>1 DEF Fails
  <2>2. CASE AskNext
    BY <1>0, <2>2, AskCases DEF Fails, AskedAs
  <2>. QED  BY <2>1, <2>2 DEF Synchronized
<1>3. ASSUME Sending(d), op.snapshot = doc[d].text PROVE FALSE
  <2>1. CASE doc' = MarkSent(op)
    <3>1. doc' = [doc EXCEPT ![d].sent = op.snapshot]
      BY <1>3, <2>1 DEF MarkSent, Sending, Underway
    <3>2. doc'[d].sent = doc'[d].text
      BY <1>0, <1>1, <1>3, <3>1 DEF Documents
    <3>. QED  BY <3>2
  <2>2. CASE ~server[op.conn].alive
    BY <1>3, <2>2, UpConn DEF Sending, NamesInv, SendingOk, Live
  <2>. QED  BY <2>1, <2>2 DEF Synchronized
<1>4. doc[d].sent # doc[d].text
  <2>1. CASE doc'[d].sent = doc[d].sent
    BY <1>1, <2>1
  <2>2. CASE op.doc = d /\ doc[d].sent = doc[d].text /\ doc'[d].sent = op.snapshot /\ doc' = MarkSent(op)
    <3>1. CASE op.askEpoch = generation /\ doc[d].uri = op.sentUri
      <4>1. Underway
        BY <1>0, <3>1 DEF Underway
      <4>2. op.snapshot <= doc[d].text /\ doc[d].sent < op.snapshot
        BY <2>2, <4>1, NoneAssumption DEF NamesInv, SendingOk, SessionInv, SessionTypeOK, Documents
      <4>3. op.snapshot \in Nat /\ doc[d].text \in Nat
        BY <1>0, HeadOk, DocOfHead, <2>2 DEF OpOk
      <4>. QED  BY <2>2, <4>2, <4>3
    <3>2. CASE ~(op.askEpoch = generation /\ doc[d].uri = op.sentUri)
      BY <1>1, <2>2, <3>2 DEF MarkSent
    <3>. QED  BY <3>1, <3>2
  <2>. QED  BY <1>1, <2>1, <2>2 DEF Synchronized
<1>5. d \in Open /\ Language(d)
  BY <1>1 DEF Open, Language
<1>. QED  BY <1>0, <1>2, <1>3, <1>4, <1>5, PassedPending

LEMMA OtherHeadPending ==
    ASSUME SessionInv, WillBeSent, Notified \/ GiveUp \/ Answered
    PROVE  WillBeSent'
<1>. DEFINE op == Current
<1>0. /\ queue # <<>> /\ op \in Ops /\ OpOk(op) /\ op.step \in {"notifying", "asked"}
      /\ UNCHANGED <<life, rpc, generation, server, timer>> /\ doc \in [Docs -> Documents]
  BY HeadOk DEF Notified, GiveUp, Answered, At, sessionVars, clientVars, serverVars, SessionInv,
     SessionTypeOK
<1>1. \A d \in Docs : /\ doc'[d].state = doc[d].state /\ doc'[d].uri = doc[d].uri
                      /\ doc'[d].text = doc[d].text /\ doc'[d].sent = doc[d].sent
  <2>1. CASE Answered
    BY <1>0, <2>1 DEF Answered, Documents
  <2>2. CASE UNCHANGED doc
    BY <2>2
  <2>. QED  BY <2>1, <2>2 DEF Notified, GiveUp
<1>2. ASSUME Up
      PROVE  \/ queue' = Tail(queue) /\ UNCHANGED posted /\ Current.then = None
             \/ queue' = Tail(queue) /\ UNCHANGED posted /\ ~Live(Current)
             \/ Done
  <2>1. CASE Notified
    BY <1>2, <2>1, UpConn DEF Notified, Fails, Live
  <2>2. CASE GiveUp
    BY <1>0, <2>2 DEF GiveUp, Fails, OpOk, At
  <2>3. CASE Answered
    BY <2>3 DEF Answered
  <2>. QED  BY <2>1, <2>2, <2>3
<1>3. \A d : ~Sending(d)
  BY <1>0, QueuedNotSending
<1>. SUFFICES ASSUME Up, NEW d \in Docs, d \in Open, Language(d), doc[d].sent # doc[d].text
              PROVE  Pending(d)'
  BY <1>0, <1>1 DEF WillBeSent, Open, Language, Up
<1>. QED  BY <1>0, <1>2, <1>3, PassedPending

LEMMA CloseViewPending ==
    ASSUME SessionInv, WillBeSent, NEW d \in Docs, CloseView(d)
    PROVE  WillBeSent'
<1>. PICK u \in Uris : u = doc[d].uri
  BY DEF CloseView, Open, SessionInv, DocsOk
<1>. DEFINE new == Close(u)
<1>0. /\ doc \in [Docs -> Documents] /\ doc' = [doc EXCEPT ![d].state = "closed"]
      /\ UNCHANGED <<rpc, generation, life, timer, posted>> /\ Enqueue(<<new>>)
  BY DEF CloseView, sessionVars, clientVars, serverVars, SessionInv, SessionTypeOK
<1>1. /\ new.step = "queued"
      /\ rpc # None => new \in Ops
  BY OpMade DEF Close, Op, SessionInv
<1>. HIDE DEF new
<1>2. QueueGrows
  BY <1>0, <1>1, EnqueueOne
<1>3. /\ \A e \in Docs : doc'[e].uri = doc[e].uri
      /\ doc'[d].state = "closed" /\ \A e \in Docs : e # d => doc'[e] = doc[e]
  BY <1>0 DEF Documents
<1>. SUFFICES ASSUME Up, NEW e \in Docs, e \in Open, Language(e), doc[e].sent # doc[e].text, e # d
              PROVE  Pending(e)'
  BY <1>0, <1>3 DEF WillBeSent, Open, Language, Up
<1>4. Pending(e) /\ doc'[e].text = doc[e].text
  BY <1>3 DEF WillBeSent
<1>. QED  BY <1>0, <1>2, <1>3, <1>4, PendingKept DEF ToHandle, IsPosted

LEMMA RenamePending ==
    ASSUME SessionInv, WillBeSent, NEW d \in Docs, NEW v \in Uris, Rename(d, v)
    PROVE  WillBeSent'
<1>. PICK u \in Uris : u = doc[d].uri
  BY DEF Rename, Open, SessionInv, DocsOk
<1>. DEFINE new == [Close(u) EXCEPT !.then = "renamed", !.doc = d]
<1>0. /\ doc \in [Docs -> Documents]
      /\ doc' = [doc EXCEPT ![d] = [Cleared(@) EXCEPT !.uri = v, !.sent = None]]
      /\ UNCHANGED <<rpc, generation, life, posted>> /\ Enqueue(<<new>>) /\ timer' = timer \ {d}
  BY DEF Rename, sessionVars, clientVars, serverVars, SessionInv, SessionTypeOK
<1>1. /\ new.step = "queued" /\ new.then = "renamed" /\ new.doc = d /\ Live(new)
      /\ rpc # None => new \in Ops
  BY <1>0 DEF Close, Op, Live, Ops, SessionInv, SessionTypeOK
<1>. HIDE DEF new
<1>2. QueueGrows /\ (rpc # None => \E i \in New : queue'[i] = new)
  BY <1>0, <1>1, EnqueueOne
<1>3. /\ \A e \in Docs : e # d => doc'[e] = doc[e]
      /\ doc'[d].state = doc[d].state
  BY <1>0 DEF Documents, Cleared
<1>. SUFFICES ASSUME Up, NEW e \in Docs, doc'[e].state = "open", doc'[e].uri \in Analysed,
                     doc'[e].sent # doc'[e].text
              PROVE  Pending(e)'
  BY <1>0 DEF WillBeSent, Open, Language, Up
<1>4. CASE e = d
  <2>1. PICK i \in New : queue'[i] = new
    BY <1>2, UpConn
  <2>. QED  BY <1>0, <1>1, <1>4, <2>1 DEF Pending, Renames, Live, New
<1>5. CASE e # d
  <2>1. Pending(e) /\ doc'[e] = doc[e]
    BY <1>3, <1>5 DEF WillBeSent, Open, Language
  <2>2. (At("synchronizing")' <=> At("synchronizing")) /\ (At("synchronizing") => Current' = Current)
    BY <1>2, HeadSame DEF At
  <2>3. CASE \E i \in DOMAIN queue : Refreshes(i, e) \/ Renames(i, e)
    BY <1>0, <1>2, <2>3 DEF QueueGrows, Refreshes, Renames, Live, Pending
  <2>4. CASE Sending(e) /\ Current.snapshot = doc[e].text
    BY <1>0, <2>1, <2>2, <2>4 DEF Sending, Underway, Pending
  <2>5. CASE ToHandle("changed", e) \/ ToHandle("renamed", e) \/ e \in timer
    BY <1>0, <1>5, <2>5 DEF Pending, ToHandle, IsPosted
  <2>. QED  BY <2>1, <2>3, <2>4, <2>5 DEF Pending
<1>. QED  BY <1>4, <1>5

LEMMA RegisterPending ==
    ASSUME SessionInv, WillBeSent, NEW d \in Docs, NEW u \in Uris, NEW f \in BOOLEAN, Register(d, u, f)
    PROVE  WillBeSent'
<1>. DEFINE ops == IF f THEN <<Refresh(d), Refresh(d)>> ELSE <<Refresh(d)>>
<1>0. /\ doc \in [Docs -> Documents]
      /\ doc' = [doc EXCEPT ![d].state = "open", ![d].uri = u]
      /\ UNCHANGED <<rpc, generation, life, timer, posted>> /\ Enqueue(ops)
      /\ doc[d].state = "unopened"
  BY DEF Register, sessionVars, clientVars, serverVars, SessionInv, SessionTypeOK, DocsOk, NewDoc
<1>1. rpc # None => Refresh(d) \in Ops
  BY OpMade DEF SessionInv, Refresh
<1>2. /\ \A j \in DOMAIN ops : ops[j] = Refresh(d) /\ ops[j].step = "queued"
      /\ rpc # None => ops \in Seq(Ops)
      /\ 1 \in DOMAIN ops
  BY <1>1, RefreshIsLive
<1>. HIDE DEF ops
<1>3. QueueGrows /\ (rpc # None => \A j \in DOMAIN ops : \E i \in New : queue'[i] = ops[j])
  BY <1>0, <1>2, EnqueueGrows
<1>4. \A e \in Docs : e # d => doc'[e] = doc[e]
  BY <1>0 DEF Documents, Open
<1>. SUFFICES ASSUME Up, NEW e \in Docs, doc'[e].state = "open", doc'[e].uri \in Analysed,
                     doc'[e].sent # doc'[e].text
              PROVE  Pending(e)'
  BY <1>0 DEF WillBeSent, Open, Language, Up
<1>5. CASE e = d
  <2>1. PICK i \in New : queue'[i] = Refresh(d)
    BY <1>2, <1>3, UpConn
  <2>. QED  BY <1>0, <1>5, <2>1, NewRefreshes DEF Pending, New
<1>6. CASE e # d
  <2>1. Pending(e) /\ doc'[e] = doc[e]
    BY <1>4, <1>6 DEF WillBeSent, Open, Language
  <2>2. (At("synchronizing")' <=> At("synchronizing")) /\ (At("synchronizing") => Current' = Current)
    BY <1>3, HeadSame DEF At
  <2>3. CASE \E i \in DOMAIN queue : Refreshes(i, e) \/ Renames(i, e)
    BY <1>0, <1>3, <2>3 DEF QueueGrows, Refreshes, Renames, Live, Pending
  <2>4. CASE Sending(e) /\ Current.snapshot = doc[e].text
    BY <1>0, <2>1, <2>2, <2>4 DEF Sending, Underway, Pending
  <2>5. CASE ToHandle("changed", e) \/ ToHandle("renamed", e) \/ e \in timer
    BY <1>0, <2>5 DEF Pending, ToHandle, IsPosted
  <2>. QED  BY <2>1, <2>3, <2>4, <2>5 DEF Pending
<1>. QED  BY <1>5, <1>6

LEMMA QuietPending ==
    ASSUME SessionInv, WillBeSent, UNCHANGED <<life, rpc, generation, queue, timer, posted>>,
           \A d \in Docs : /\ doc'[d].state = doc[d].state /\ doc'[d].uri = doc[d].uri
                           /\ doc'[d].text = doc[d].text /\ doc'[d].sent = doc[d].sent
    PROVE  WillBeSent'
<1>. SUFFICES ASSUME Up, NEW d \in Docs, d \in Open, Language(d), doc[d].sent # doc[d].text
              PROVE  Pending(d)'
  BY DEF WillBeSent, Open, Language, Up
<1>1. Pending(d)
  BY DEF WillBeSent
<1>. QED  BY <1>1, QueueSame, PendingKept DEF ToHandle, IsPosted

LEMMA WillBeSentNext ==
    ASSUME SessionInv, NamesInv, WillBeSent, [Next]_vars
    PROVE  WillBeSent'
<1>0. ASSUME life' # "up" PROVE WillBeSent'
  BY <1>0 DEF WillBeSent, Up
<1>1. CASE UiThread
  <2>1. ASSUME NEW c \in Conns, Receive(c) PROVE WillBeSent'
    BY <2>1, ReceiveEffect, QuietPending
  <2>2. ASSUME NEW i \in DOMAIN posted, RunPosted(i) PROVE WillBeSent'
    <3>1. CASE ~Up
      BY <1>0, <2>2, <3>1 DEF RunPosted, clientVars, Up
    <3>. QED  BY <2>2, <3>1, RunPostedPending
  <2>. QED  BY <1>1, <2>1, <2>2, DebouncedPending, BeginPending, OtherHeadPending, SynchronizedPending
            DEF UiThread
<1>2. CASE Answered
  BY <1>2, OtherHeadPending
<1>3. CASE Editor
  <2>1. ASSUME NEW d \in Docs \cup {None}, Activate(d) PROVE WillBeSent'
    BY <2>1, ActivateCalm, SameDocs, QuietCalmPending
  <2>2. ASSUME NEW d \in Docs, Hover(d) PROVE WillBeSent'
    BY <2>2, HoverCalm, SameDocs, QuietCalmPending
  <2>3. ASSUME NEW s \in Settings, Configure(s) PROVE WillBeSent'
    BY <2>3, ConfigureCalm, QuietCalmPending
  <2>. QED  BY <1>3, <2>1, <2>2, <2>3, EditPending, CloseViewPending, RenamePending, RegisterPending
            DEF Editor
<1>4. CASE Lifecycle
  <2>1. CASE RequestStop \/ Die \/ Exit \/ \E c \in Conns : Launch(c)
    BY <1>0, <2>1 DEF RequestStop, Die, Exit, Launch
  <2>2. CASE Start
    <3>1. /\ \A d \in Open : \E i \in New :
               queue'[i].kind = "refresh" /\ queue'[i].doc = d /\ Live(queue[i])'
          /\ QueueGrows /\ Stopped
      BY <2>2, StartEffect
    <3>2. Open' = Open
      BY <3>1, StoppedDocs DEF Open
    <3>3. \A d \in Open : Pending(d)'
      BY <3>1 DEF Pending, Refreshes, New, QueueGrows
    <3>. QED  BY <3>2, <3>3 DEF WillBeSent
  <2>. QED  BY <1>4, <2>1, <2>2 DEF Lifecycle
<1>5. CASE UNCHANGED vars
  BY <1>5, QuietPending DEF vars
<1>. QED  BY <1>1, <1>2, <1>3, <1>4, <1>5 DEF Next

LEMMA WillBeSentInit ==
    ASSUME Init
    PROVE  WillBeSent
BY DEF Init, WillBeSent, Up

-----------------------------------------------------------------------------
(* The settings the server scores with, unless it missed some.              *)

LEMMA HistoryNext ==
    ASSUME [Next]_vars
    PROVE  /\ reused => reused'
           /\ \/ UNCHANGED missed
              \/ \E s \in Settings : Configure(s)
              \/ \E c \in Conns : Launch(c)
<1>. USE DEF clientVars
<1>0. UNCHANGED history => UNCHANGED reused /\ UNCHANGED missed
  BY DEF history
<1>1. CASE UiThread \/ Answered
  <2>1. ASSUME Begin \/ Notified \/ Synchronized \/ GiveUp \/ Answered
        PROVE  UNCHANGED history
    BY <2>1 DEF Begin, Notified, Synchronized, GiveUp, Answered
  <2>2. ASSUME NEW i \in DOMAIN posted, RunPosted(i) PROVE UNCHANGED history
    BY <2>2 DEF RunPosted
  <2>3. ASSUME NEW d \in Docs, Debounced(d) PROVE UNCHANGED history
    BY <2>3 DEF Debounced
  <2>4. ASSUME NEW c \in Conns, Receive(c) PROVE UNCHANGED history
    BY <2>4 DEF Receive
  <2>. QED  BY <1>0, <1>1, <2>1, <2>2, <2>3, <2>4 DEF UiThread
<1>2. CASE Editor
  <2>1. ASSUME NEW d \in Docs \cup {None}, Activate(d) PROVE UNCHANGED history
    BY <2>1 DEF Activate
  <2>2. ASSUME NEW d \in Docs, Edit(d) \/ CloseView(d) \/ Hover(d) PROVE UNCHANGED history
    BY <2>2 DEF Edit, CloseView, Hover
  <2>3. ASSUME NEW d \in Docs, NEW u \in Uris, NEW f \in BOOLEAN, Register(d, u, f)
        PROVE  UNCHANGED history
    BY <2>3 DEF Register
  <2>4. ASSUME NEW d \in Docs, NEW u \in Uris, Rename(d, u)
        PROVE  (reused => reused') /\ UNCHANGED missed
    BY <2>4 DEF Rename
  <2>5. ASSUME NEW s \in Settings, Configure(s) PROVE UNCHANGED reused
    BY <2>5 DEF Configure
  <2>. QED  BY <1>0, <1>2, <2>1, <2>2, <2>3, <2>4, <2>5 DEF Editor
<1>3. CASE Lifecycle
  <2>1. ASSUME NEW c \in Conns, Launch(c) PROVE UNCHANGED reused
    BY <2>1 DEF Launch
  <2>2. ASSUME Start \/ Die \/ RequestStop \/ Exit PROVE UNCHANGED history
    BY <2>2 DEF Start, Die, RequestStop, Exit
  <2>. QED  BY <1>0, <1>3, <2>1, <2>2 DEF Lifecycle
<1>4. CASE UNCHANGED vars
  BY <1>4 DEF vars
<1>. QED  BY <1>1, <1>2, <1>3, <1>4 DEF Next

QueuedPush(i) ==
    queue[i].kind = "configure" /\ queue[i].step = "queued" /\ Live(queue[i])
(* The last push that is queued carries the settings of now; with none, the *)
(* server has them.                                                         *)
PushFit ==
    Up => /\ \A i \in DOMAIN queue :
               QueuedPush(i) /\ (\A j \in DOMAIN queue : QueuedPush(j) => j <= i)
                 => queue[i].settings = options
          /\ (\A i \in DOMAIN queue : ~QueuedPush(i)) => InForce(server[rpc]) = options
(* A server is started with the settings of now.                            *)
StartingFit == life = "starting" => server[Newest].init = options

SettingsInv == PushFit /\ StartingFit

LEMMA PushKept ==
    ASSUME SessionInv, PushFit, UNCHANGED <<life, rpc, generation, options>>, QueueGrows,
           \A i \in New : queue'[i].kind # "configure",
           Up => InForce(server'[rpc]) = InForce(server[rpc])
    PROVE  PushFit'
<1>1. \A i \in DOMAIN queue' : QueuedPush(i)' => i \in DOMAIN queue /\ QueuedPush(i)
  BY DEF QueueGrows, New, QueuedPush, Live
<1>2. \A i \in DOMAIN queue : QueuedPush(i) => i \in DOMAIN queue' /\ QueuedPush(i)'
  BY DEF QueueGrows, QueuedPush, Live
<1>. SUFFICES ASSUME Up
              PROVE  /\ \A i \in DOMAIN queue' :
                          QueuedPush(i)' /\ (\A j \in DOMAIN queue' : QueuedPush(j)' => j <= i)
                            => queue'[i].settings = options
                     /\ (\A i \in DOMAIN queue' : ~QueuedPush(i)') => InForce(server'[rpc]) = options
  BY DEF PushFit, Up
<1>3. ASSUME NEW i \in DOMAIN queue', QueuedPush(i)', \A j \in DOMAIN queue' : QueuedPush(j)' => j <= i
      PROVE  queue'[i].settings = options
  <2>1. i \in DOMAIN queue /\ QueuedPush(i) /\ \A j \in DOMAIN queue : QueuedPush(j) => j <= i
    BY <1>1, <1>2, <1>3
  <2>2. queue[i].settings = options
    BY <2>1 DEF PushFit
  <2>. QED  BY <2>1, <2>2 DEF QueueGrows
<1>4. ASSUME \A i \in DOMAIN queue' : ~QueuedPush(i)' PROVE InForce(server'[rpc]) = options
  BY <1>2, <1>4 DEF PushFit
<1>. QED  BY <1>3, <1>4

LEMMA PushAdded ==
    ASSUME SessionInv, UNCHANGED <<life, rpc, generation>>, QueueGrows, New # {},
           \A i \in New : /\ queue'[i].kind = "configure" /\ queue'[i].settings = options'
                          /\ Live(queue'[i])
    PROVE  PushFit'
<1>1. DOMAIN queue \subseteq Nat /\ DOMAIN queue' \subseteq Nat
  BY DEF SessionInv, SessionTypeOK, QueueGrows
<1>2. \A i \in New : i \in DOMAIN queue' /\ QueuedPush(i)' /\ \A k \in DOMAIN queue : k < i
  BY DEF QueueGrows, New, QueuedPush, Live
<1>3. ASSUME NEW i \in DOMAIN queue', \A j \in DOMAIN queue' : QueuedPush(j)' => j <= i
      PROVE  queue'[i].settings = options'
  <2>1. PICK n \in New : TRUE
    OBVIOUS
  <2>2. n <= i /\ n \in DOMAIN queue'
    BY <1>2, <1>3
  <2>3. i \notin DOMAIN queue
    <3>1. ASSUME i \in DOMAIN queue PROVE FALSE
      <4>1. i < n
        BY <1>2, <3>1
      <4>. QED  BY <1>1, <2>2, <4>1
    <3>. QED  BY <3>1
  <2>4. i \in New
    BY <2>3 DEF New
  <2>. QED  BY <2>4
<1>4. ~\A i \in DOMAIN queue' : ~QueuedPush(i)'
  BY <1>2
<1>. QED  BY <1>3, <1>4 DEF PushFit

LEMMA PushPassed ==
    ASSUME SessionInv, PushFit, UNCHANGED <<life, rpc, generation, options>>, queue # <<>>,
           \/ queue' = Tail(queue)
           \/ \E new \in Ops : Put(new) /\ new.step # "queued",
           ~QueuedPush(1),
           Up => InForce(server'[rpc]) = InForce(server[rpc])
    PROVE  PushFit'
<1>0. DOMAIN queue \subseteq Nat
  BY DEF SessionInv, SessionTypeOK
<1>. SUFFICES ASSUME Up
              PROVE  /\ \A i \in DOMAIN queue' :
                          QueuedPush(i)' /\ (\A j \in DOMAIN queue' : QueuedPush(j)' => j <= i)
                            => queue'[i].settings = options
                     /\ (\A i \in DOMAIN queue' : ~QueuedPush(i)') => InForce(server'[rpc]) = options
  BY DEF PushFit, Up
<1>1. CASE queue' = Tail(queue)
  <2>1. /\ \A i \in DOMAIN queue' : i + 1 \in DOMAIN queue /\ queue'[i] = queue[i + 1]
        /\ \A i \in DOMAIN queue : i # 1 => i - 1 \in DOMAIN queue' /\ queue'[i - 1] = queue[i]
        /\ DOMAIN queue' \subseteq Nat
    BY <1>1, QueuePopped DEF SessionInv
  <2>2. \A i \in DOMAIN queue' : QueuedPush(i)' => QueuedPush(i + 1)
    BY <2>1 DEF QueuedPush, Live
  <2>3. \A i \in DOMAIN queue : QueuedPush(i) => i - 1 \in DOMAIN queue' /\ QueuedPush(i - 1)'
    BY <2>1 DEF QueuedPush, Live
  <2>4. ASSUME NEW i \in DOMAIN queue', QueuedPush(i)',
               \A j \in DOMAIN queue' : QueuedPush(j)' => j <= i
        PROVE  queue'[i].settings = options
    <3>1. i + 1 \in DOMAIN queue /\ QueuedPush(i + 1)
      BY <2>1, <2>2, <2>4
    <3>2. ASSUME NEW j \in DOMAIN queue, QueuedPush(j) PROVE j <= i + 1
      <4>1. j - 1 \in DOMAIN queue' /\ j - 1 <= i
        BY <2>3, <2>4, <3>2
      <4>. QED  BY <1>0, <2>1, <4>1
    <3>3. queue[i + 1].settings = options
      BY <3>1, <3>2 DEF PushFit
    <3>. QED  BY <2>1, <3>3
  <2>5. ASSUME \A i \in DOMAIN queue' : ~QueuedPush(i)' PROVE InForce(server'[rpc]) = options
    BY <2>3, <2>5 DEF PushFit
  <2>. QED  BY <2>4, <2>5
<1>2. ASSUME NEW new \in Ops, Put(new), new.step # "queued"
      PROVE  /\ \A i \in DOMAIN queue' :
                  QueuedPush(i)' /\ (\A j \in DOMAIN queue' : QueuedPush(j)' => j <= i)
                    => queue'[i].settings = options
             /\ (\A i \in DOMAIN queue' : ~QueuedPush(i)') => InForce(server'[rpc]) = options
  <2>1. /\ DOMAIN queue' = DOMAIN queue /\ queue'[1] = new
        /\ \A i \in DOMAIN queue : i # 1 => queue'[i] = queue[i]
    BY <1>2, QueuePut DEF SessionInv, Put
  <2>2. ~QueuedPush(1)'
    BY <1>2, <2>1 DEF QueuedPush
  <2>3. \A i \in DOMAIN queue : QueuedPush(i)' <=> QueuedPush(i)
    BY <2>1, <2>2 DEF QueuedPush, Live
  <2>4. \A i \in DOMAIN queue : QueuedPush(i) => queue'[i] = queue[i]
    BY <2>1
  <2>. QED  BY <2>1, <2>3, <2>4 DEF PushFit
<1>. QED  BY <1>1, <1>2

LEMMA PushTaken ==
    ASSUME SessionInv, PushFit, UNCHANGED <<life, rpc, generation, options>>, queue # <<>>, Up,
           QueuedPush(1), NEW new \in Ops, Put(new), new.step # "queued",
           InForce(server'[rpc]) = Current.settings
    PROVE  PushFit'
<1>1. /\ DOMAIN queue' = DOMAIN queue /\ queue'[1] = new /\ 1 \in DOMAIN queue /\ Current = queue[1]
      /\ \A i \in DOMAIN queue : i # 1 => queue'[i] = queue[i]
      /\ DOMAIN queue \subseteq Nat \ {0}
  BY QueuePut, AtHead DEF SessionInv, Put
<1>2. ~QueuedPush(1)'
  BY <1>1 DEF QueuedPush
<1>3. \A i \in DOMAIN queue : QueuedPush(i)' <=> QueuedPush(i) /\ i # 1
  BY <1>1, <1>2 DEF QueuedPush, Live
<1>4. ASSUME NEW i \in DOMAIN queue', QueuedPush(i)',
             \A j \in DOMAIN queue' : QueuedPush(j)' => j <= i
      PROVE  queue'[i].settings = options
  <2>1. \A j \in DOMAIN queue : QueuedPush(j) => j <= i
    <3>1. \A j \in DOMAIN queue : QueuedPush(j) => j = 1 \/ j <= i
      BY <1>1, <1>3, <1>4
    <3>2. 1 <= i
      BY <1>1
    <3>. QED  BY <3>1, <3>2
  <2>. QED  BY <1>1, <1>3, <1>4, <2>1 DEF PushFit
<1>5. ASSUME \A i \in DOMAIN queue' : ~QueuedPush(i)' PROVE InForce(server'[rpc]) = options
  <2>1. \A j \in DOMAIN queue : QueuedPush(j) => j = 1
    BY <1>1, <1>3, <1>5
  <2>2. \A j \in DOMAIN queue : QueuedPush(j) => j <= 1
    BY <2>1
  <2>. QED  BY <1>1, <2>2 DEF PushFit
<1>. QED  BY <1>4, <1>5 DEF PushFit

LEMMA NamingQueues ==
    ASSUME SessionInv, NEW d \in Docs, NEW u \in Uris, NEW f \in BOOLEAN,
           CloseView(d) \/ Rename(d, u) \/ Register(d, u, f)
    PROVE  /\ UNCHANGED <<life, rpc, generation, options, server, news>>
           /\ QueueGrows
           /\ \A i \in New : queue'[i].kind \in {"close", "refresh"}
<1>0. UNCHANGED <<life, rpc, generation, options, server, news>>
  BY DEF CloseView, Rename, Register, sessionVars, clientVars, serverVars
<1>. PICK v \in Uris \cup {None} : v = doc[d].uri
  BY NoneAssumption DEF SessionInv, SessionTypeOK, Documents
<1>1. CASE Register(d, u, f)
  <2>. DEFINE ops == IF f THEN <<Refresh(d), Refresh(d)>> ELSE <<Refresh(d)>>
  <2>0. Enqueue(ops)
    BY <1>1 DEF Register
  <2>1. rpc # None => Refresh(d) \in Ops
    BY OpMade DEF SessionInv, Refresh
  <2>2. /\ \A j \in DOMAIN ops : ops[j].kind = "refresh" /\ ops[j].step = "queued"
        /\ rpc # None => ops \in Seq(Ops)
    BY <2>1, RefreshIsLive
  <2>. HIDE DEF ops
  <2>. QED  BY <1>0, <2>0, <2>2, EnqueueGrows
<1>2. CASE CloseView(d)
  <2>. DEFINE new == Close(v)
  <2>0. Enqueue(<<new>>) /\ v \in Uris
    BY <1>2 DEF CloseView, Open, SessionInv, DocsOk
  <2>1. new.step = "queued" /\ new.kind = "close" /\ (rpc # None => new \in Ops)
    BY <2>0, OpMade DEF Close, Op, SessionInv
  <2>. HIDE DEF new
  <2>. QED  BY <1>0, <2>0, <2>1, EnqueueOne
<1>3. CASE Rename(d, u)
  <2>. DEFINE new == [Close(v) EXCEPT !.then = "renamed", !.doc = d]
  <2>0. Enqueue(<<new>>) /\ v \in Uris
    BY <1>3 DEF Rename, Open, SessionInv, DocsOk
  <2>1. new.step = "queued" /\ new.kind = "close" /\ (rpc # None => new \in Ops)
    BY <2>0 DEF Close, Op, Ops, SessionInv, SessionTypeOK
  <2>. HIDE DEF new
  <2>. QED  BY <1>0, <2>0, <2>1, EnqueueOne
<1>. QED  BY <1>1, <1>2, <1>3

LEMMA HeadPush ==
    ASSUME SessionInv, queue # <<>>
    PROVE  QueuedPush(1) <=> Current.kind = "configure" /\ Current.step = "queued" /\ ~Stale
BY AtHead DEF SessionInv, QueuedPush, Live, Stale

LEMMA BeginPush ==
    ASSUME SessionInv, PushFit, Begin
    PROVE  PushFit'
<1>. DEFINE op == Current
           still == UNCHANGED <<doc, server, news>>
<1>0. /\ queue # <<>> /\ op.step = "queued" /\ UNCHANGED <<life, rpc, generation, options>>
      /\ QueuedPush(1) <=> op.kind = "configure" /\ ~Stale
  BY BeginUp, HeadPush
<1>1. CASE ~Up
  BY <1>0, <1>1 DEF PushFit, Up
<1>2. CASE (Done \/ Fails) /\ still /\ (Stale \/ op.kind # "configure")
  BY <1>0, <1>2, PushPassed DEF Done, Fails
<1>3. CASE /\ still /\ op.kind # "configure" /\ \E new \in Ops : AskedAs(new)
  BY <1>0, <1>3, PushPassed DEF AskedAs
<1>4. CASE Up /\ op.kind # "configure" /\ \E new \in Ops : SentUp(new)
  <2>1. PICK new \in Ops : SentUp(new)
    BY <1>4
  <2>2. Put(new) /\ new.step # "queued"
    BY <2>1 DEF SentUp
  <2>3. InForce(server'[rpc]) = InForce(server[rpc])
    <3>1. CASE UNCHANGED serverVars
      BY <3>1 DEF serverVars
    <3>2. CASE TakesIn(rpc, Opening(rpc, doc[op.doc].uri, doc[op.doc].text, doc[op.doc].version + 1),
                       {doc[op.doc].uri})
      <4>1. server'[rpc] = Opening(rpc, doc[op.doc].uri, doc[op.doc].text, doc[op.doc].version + 1)
        BY <1>0, <1>4, <3>2, TakenIn
      <4>2. server[rpc] \in Servers
        BY <1>4, UpConn
      <4>. QED  BY <4>1, <4>2 DEF Opening, Servers, InForce
    <3>. QED  BY <2>1, <3>1, <3>2 DEF SentUp
  <2>. QED  BY <1>0, <1>4, <2>2, <2>3, PushPassed
<1>5. CASE /\ Up /\ op.kind = "close" /\ Notifies
           /\ TakesIn(rpc, [server[rpc] EXCEPT !.docs[op.uri] = None], {})
  <2>1. InForce(server'[rpc]) = InForce(server[rpc])
    <3>1. server[rpc] \in Servers
      BY <1>5, UpConn
    <3>. QED  BY <1>0, <1>5, <3>1, TakenIn DEF Servers, InForce
  <2>2. \E new \in Ops : Put(new) /\ new.step # "queued"
    BY <1>0, <1>5, NotifiesPuts
  <2>. QED  BY <1>0, <1>5, <2>1, <2>2, PushPassed
<1>6. CASE /\ Up /\ ~Stale /\ op.kind = "configure" /\ Notifies
           /\ TakesIn(rpc, [server[rpc] EXCEPT !.configured = op.settings],
                      Affected(rpc, op.settings))
  <2>1. InForce(server'[rpc]) = op.settings
    <3>1. server[rpc] \in Servers
      BY <1>6, UpConn
    <3>2. op.settings # None
      BY <1>0, <1>6, HeadOk, NoneAssumption DEF OpOk
    <3>. QED  BY <1>0, <1>6, <3>1, <3>2, TakenIn DEF Servers, InForce
  <2>2. PICK new \in Ops : Put(new) /\ new.step = "notifying"
    BY <1>0, <1>6, NotifiesPuts
  <2>. QED  BY <1>0, <1>6, <2>1, <2>2, PushTaken
<1>. QED  BY <1>0, <1>1, <1>2, <1>3, <1>4, <1>5, <1>6, BeginUp

LEMMA OtherHeadPush ==
    ASSUME SessionInv, PushFit, Notified \/ Synchronized \/ GiveUp \/ Answered
    PROVE  PushFit'
<1>0. /\ queue # <<>> /\ UNCHANGED <<life, rpc, generation, options, server>>
      /\ Current.step # "queued"
      /\ At("synchronizing") => Current.kind \in {"refresh", "hover"}
  BY HeadOk DEF Notified, Synchronized, GiveUp, Answered, At, sessionVars, clientVars, serverVars, OpOk
<1>1. \/ queue' = Tail(queue)
      \/ \E new \in Ops : Put(new) /\ new.step # "queued"
  <2>1. CASE AskNext /\ At("synchronizing")
    BY <1>0, <2>1, AskCases DEF Done, Fails, AskedAs
  <2>2. CASE Done \/ Fails
    BY <2>2 DEF Done, Fails
  <2>. QED  BY <2>1, <2>2 DEF Notified, Synchronized, GiveUp, Answered
<1>. QED  BY <1>0, <1>1, HeadPush, PushPassed

LEMMA StartPush ==
    ASSUME SessionInv, StartingFit, Blank, Start
    PROVE  PushFit'
<1>1. /\ life = "starting" /\ Stopped /\ rpc' = Newest /\ UNCHANGED <<server, options>> /\ QueueGrows
      /\ \A i \in New : queue'[i].kind = "refresh"
  BY StartEffect
<1>2. generation < generation' /\ generation \in Nat /\ generation' \in Nat
  BY <1>1, StoppedOk DEF SessionInv, SessionTypeOK
<1>3. ASSUME NEW i \in DOMAIN queue' PROVE ~QueuedPush(i)'
  <2>1. CASE i \in DOMAIN queue
    <3>1. queue'[i] = queue[i]
      BY <1>1, <2>1 DEF QueueGrows
    <3>2. PICK op \in Ops : op = queue[i] /\ OpOk(op)
      BY <2>1 DEF SessionInv, SessionTypeOK, OpsOk, InQueue
    <3>3. queue[i].epoch \in Nat /\ queue[i].epoch <= generation
      BY <3>2 DEF OpOk, Ops
    <3>. QED  BY <1>2, <3>1, <3>3 DEF QueuedPush, Live
  <2>2. CASE i \in New
    BY <1>1, <2>2 DEF QueuedPush
  <2>. QED  BY <1>3, <2>1, <2>2 DEF New
<1>4. InForce(server'[rpc']) = options'
  BY <1>1 DEF StartingFit, Blank, InForce
<1>. QED  BY <1>3, <1>4 DEF PushFit

LEMMA ConfigurePush ==
    ASSUME SessionInv, NEW s \in Settings, Configure(s)
    PROVE  PushFit'
<1>1. CASE ~Up
  BY <1>1 DEF Configure, PushFit, Up
<1>2. CASE Up
  BY <1>2, ConfigureCalm, UpConn, PushAdded DEF Calm
<1>. QED  BY <1>1, <1>2

LEMMA PushNext ==
    ASSUME SessionInv, SettingsInv, Blank, [Next]_vars
    PROVE  PushFit'
<1>. USE DEF SettingsInv
<1>0. ASSUME Calm, UNCHANGED options, \A i \in New : queue'[i].kind # "configure"
      PROVE  PushFit'
  BY <1>0, PushKept DEF Calm
<1>1. CASE UiThread
  <2>1. ASSUME NEW c \in Conns, Receive(c) PROVE PushFit'
    BY <2>1, ReceiveEffect, QueueSame, PushKept
  <2>2. ASSUME NEW d \in Docs, Debounced(d) PROVE PushFit'
    BY <1>0, <2>2, DebouncedCalm
  <2>3. ASSUME NEW i \in DOMAIN posted, RunPosted(i) PROVE PushFit'
    <3>1. CASE Halts /\ life # "up"
      BY <2>3, <3>1 DEF RunPosted, clientVars, PushFit, Up
    <3>2. UNCHANGED options
      BY <2>3, RunPostedCases
    <3>3. CASE Calm /\ \A n \in New : queue'[n].kind = "refresh"
      BY <1>0, <3>2, <3>3
    <3>. QED  BY <2>3, <3>1, <3>3, RunPostedCases
  <2>. QED  BY <1>1, <2>1, <2>2, <2>3, BeginPush, OtherHeadPush DEF UiThread
<1>2. CASE Answered
  BY <1>2, OtherHeadPush
<1>3. CASE Editor
  <2>1. ASSUME NEW d \in Docs \cup {None}, Activate(d) PROVE PushFit'
    BY <1>0, <2>1, ActivateCalm
  <2>2. ASSUME NEW d \in Docs, Edit(d) PROVE PushFit'
    BY <1>0, <2>2, EditCalm
  <2>3. ASSUME NEW d \in Docs, Hover(d) PROVE PushFit'
    BY <1>0, <2>3, HoverCalm
  <2>4. ASSUME NEW s \in Settings, Configure(s) PROVE PushFit'
    BY <2>4, ConfigurePush
  <2>5. ASSUME NEW d \in Docs, NEW u \in Uris, NEW f \in BOOLEAN,
               CloseView(d) \/ Rename(d, u) \/ Register(d, u, f)
        PROVE  PushFit'
    <3>1. \A i \in New : queue'[i].kind # "configure"
      BY <2>5, NamingQueues
    <3>. QED  BY <2>5, <3>1, NamingQueues, PushKept
  <2>6. ASSUME NEW d \in Docs, CloseView(d) PROVE PushFit'
    <3>1. CASE Uris # {}
      BY <2>5, <2>6, <3>1
    <3>2. CASE Uris = {}
      BY <2>6, <3>2 DEF CloseView, Open, SessionInv, DocsOk
    <3>. QED  BY <3>1, <3>2
  <2>. QED  BY <1>3, <2>1, <2>2, <2>3, <2>4, <2>5, <2>6 DEF Editor
<1>4. CASE Lifecycle
  <2>1. CASE RequestStop \/ Die \/ Exit \/ \E c \in Conns : Launch(c)
    BY <2>1 DEF RequestStop, Die, Exit, Launch, PushFit, Up
  <2>. QED  BY <1>4, <2>1, StartPush DEF Lifecycle
<1>5. CASE UNCHANGED vars
  BY <1>5, QueueSame, PushKept DEF vars
<1>. QED  BY <1>1, <1>2, <1>3, <1>4, <1>5 DEF Next

LEMMA StartingNext ==
    ASSUME SessionInv, StartingFit, Blank, ~missed', [Next]_vars
    PROVE  StartingFit'
<1>0. ASSUME UNCHANGED <<life, options>>, ServersGrow PROVE StartingFit'
  <2>1. life # "off" => Newest' = Newest
    BY <1>0, SameInits DEF ServersGrow, ServersSteady
  <2>. QED  BY <1>0, <2>1 DEF StartingFit, ServersGrow, serverVars
<1>1. CASE life' # "starting"
  BY <1>1 DEF StartingFit
<1>2. CASE Begin \/ Notified \/ Synchronized \/ GiveUp \/ Answered
  BY <1>0, <1>2, HeadServers
<1>3. ASSUME UNCHANGED <<life, server, options>>
      PROVE  StartingFit'
  BY <1>3 DEF StartingFit, Newest
<1>4. ASSUME NEW c \in Conns, Receive(c) PROVE StartingFit'
  BY <1>3, <1>4, ReceiveEffect
<1>5. ASSUME NEW i \in DOMAIN posted, RunPosted(i) PROVE StartingFit'
  BY <1>3, <1>5, RunPostedCases
<1>6. CASE \E d \in Docs : Debounced(d)
  BY <1>3, <1>6 DEF Debounced, clientVars, serverVars
<1>7. CASE Editor
  <2>1. ASSUME NEW s \in Settings, Configure(s) PROVE StartingFit'
    BY <2>1, ConfigureCalm DEF Calm, StartingFit
  <2>. QED  BY ZenonT(60), <1>3, <1>7, <2>1
            DEF Editor, Activate, Edit, CloseView, Hover, Rename, Register, clientVars, serverVars
<1>8. ASSUME NEW c \in Conns, Launch(c) PROVE StartingFit'
  BY <1>8, BlankLaunch DEF StartingFit
<1>9. CASE Start \/ Die \/ RequestStop \/ Exit
  BY <1>1, <1>9 DEF Start, Die, RequestStop, Exit
<1>10. CASE UNCHANGED vars
  BY <1>3, <1>10 DEF vars
<1>. QED  BY <1>2, <1>4, <1>5, <1>6, <1>7, <1>8, <1>9, <1>10 DEF Next, UiThread, Lifecycle

LEMMA SettingsNext ==
    ASSUME SessionInv, ~missed => SettingsInv, Blank, ~missed', [Next]_vars
    PROVE  SettingsInv'
<1>1. CASE ~missed
  BY <1>1, PushNext, StartingNext DEF SettingsInv
<1>2. ASSUME NEW c \in Conns, Launch(c) PROVE SettingsInv'
  <2>1. life' = "starting" /\ UNCHANGED options
    BY <1>2 DEF Launch
  <2>. QED  BY <1>2, <2>1, BlankLaunch DEF SettingsInv, PushFit, StartingFit, Up
<1>3. ASSUME NEW s \in Settings, Configure(s) PROVE SettingsInv'
  <2>1. life' # "starting"
    BY <1>3, ConfigureCalm DEF Calm
  <2>. QED  BY <1>3, <2>1, ConfigurePush DEF SettingsInv, StartingFit
<1>. QED  BY <1>1, <1>2, <1>3, HistoryNext

LEMMA SettingsInit ==
    ASSUME Init
    PROVE  SettingsInv
BY DEF Init, SettingsInv, PushFit, StartingFit, Up

-----------------------------------------------------------------------------
(* At rest.                                                                 *)

SettledInv ==
    /\ SessionInv /\ Blank
    /\ ~reused => NamesInv /\ KnownInv /\ WillBeSent
    /\ ~missed => SettingsInv

LEMMA SettledTells ==
    ASSUME SettledInv
    PROVE  ServerKnowsEditor
<1>. USE DEF SettledInv
<1>. SUFFICES ASSUME AtRest, Up, rpc # None
              PROVE  /\ ~missed => InForce(server[rpc]) = options
                     /\ ~reused => \A u \in Uris :
                          /\ ByUri(u) = {} => Known(u) = None
                          /\ u \in Analysed =>
                               \A d \in ByUri(u) : Known(u) # None /\ Known(u).text = doc[d].text
  BY DEF ServerKnowsEditor, Settled, Up, Known
<1>0. queue = <<>> /\ posted = <<>> /\ timer = {} /\ DOMAIN queue = {} /\ DOMAIN posted = {}
  BY DEF AtRest
<1>1. ~missed => InForce(server[rpc]) = options
  BY <1>0 DEF SettingsInv, PushFit
<1>2. /\ \A d : ~Sending(d)
      /\ \A u : ~Closing(u)
  BY <1>0 DEF Sending, Underway, At, Closing
<1>3. ASSUME ~reused, NEW d \in Open, Language(d)
      PROVE  doc[d].sent = doc[d].text /\ doc[d].text # None
  <2>1. ~Pending(d)
    BY <1>0, <1>2 DEF Pending, ToHandle, IsPosted
  <2>2. doc[d].text # None
    BY NoneAssumption DEF Open, SessionInv, SessionTypeOK, Documents
  <2>. QED  BY <1>3, <2>1, <2>2 DEF WillBeSent
<1>4. ASSUME ~reused, NEW u \in Analysed, NEW d \in ByUri(u)
      PROVE  Known(u) # None /\ Known(u).text = doc[d].text
  <2>1. d \in Open /\ doc[d].uri = u /\ Language(d)
    BY DEF ByUri, Language
  <2>2. IsKnown(d)
    BY <1>4, <2>1 DEF KnownInv, SentIsKnown
  <2>. QED  BY <1>2, <1>3, <1>4, <2>1, <2>2 DEF IsKnown
<1>5. ASSUME ~reused, NEW u \in Uris, ByUri(u) = {}
      PROVE  Known(u) = None
  BY <1>2, <1>5 DEF KnownInv, KnownIsOpen, ByUri
<1>. QED  BY <1>1, <1>4, <1>5

LEMMA SettledInit ==
    ASSUME Init
    PROVE  SettledInv
BY InitOk, NamesInit, BlankInit, KnownInit, WillBeSentInit, SettingsInit DEF SettledInv

LEMMA SettledNext ==
    ASSUME SettledInv, [Next]_vars
    PROVE  SettledInv'
<1>. USE DEF SettledInv
<1>1. SessionInv' /\ Blank'
  BY NextKeeps, BlankNext
<1>2. ASSUME ~reused' PROVE (NamesInv /\ KnownInv /\ WillBeSent)'
  BY <1>2, HistoryNext, NamesNext, KnownNext, WillBeSentNext
<1>3. ASSUME ~missed' PROVE SettingsInv'
  BY <1>3, SettingsNext
<1>. QED  BY <1>1, <1>2, <1>3

(* Once there is nothing more to do, the server scores with the options in  *)
(* force unless they changed while it initialized, and, unless a name was   *)
(* given while its didClose was queued, it holds no document under a name   *)
(* that none has, and every analysed one with the text it has: whatever was *)
(* edited, configured, renamed, closed, started and stopped on the way      *)
(* (AnalysisSession.cs, Schedule, SynchronizeAsync, Configure and the       *)
(* closes queued when a document is closed or renamed).                     *)
THEOREM ServerHoldsWhatIsOpen == Spec => []ServerKnowsEditor
<1>1. Init => SettledInv
  BY SettledInit
<1>2. SettledInv /\ [Next]_vars => SettledInv'
  BY SettledNext
<1>3. SettledInv => ServerKnowsEditor
  BY SettledTells
<1>. QED  BY <1>1, <1>2, <1>3, PTL DEF Spec

=============================================================================
