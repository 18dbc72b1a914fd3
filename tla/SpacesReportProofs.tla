------------------------- MODULE SpacesReportProofs -------------------------
(***************************************************************************)
(* What file_health of health/score.rs collects from the spaces metrics()  *)
(* of spaces.rs returns, and what their metrics add up to, for trees of    *)
(* any size.                                                               *)
(*                                                                         *)
(* Nodes are met in source order, since those to come that hang below one  *)
(* met are on the stack, the next one on top (Frontier).  The open spaces  *)
(* are a chain, and all that was met since one opened is inside it (Chain),*)
(* so a space is closed after those before it, and the spaces directly in  *)
(* one are listed in source order (SpacesListed).  When the walk is over   *)
(* all but the file is closed (Closing).  What is collected from such lists*)
(* is in source order again, and is all there is below a space             *)
(* (GatherRight), since what hangs below a node comes in one piece         *)
(* (OnePiece).  The fold over a list is a recursive function on sets of    *)
(* positions: it is unfolded along the list's prefixes (GatherUnfolds).    *)
(*                                                                         *)
(* For the metrics, sums over sets of nodes are taken in source order      *)
(* (Total), where a node is added and two disjoint sets are joined.  The   *)
(* account of an open space is that of the keywords met directly in it and *)
(* of the spaces merged into it so far (OpenAccount); closing it and       *)
(* merging it into the next one keeps this, so a space that is left has    *)
(* the account of all that is within it (ClosedAccount).                   *)
(***************************************************************************)
EXTENDS MetricsCommandProofs

(* A node hangs below a node of the path to the one before it.              *)
Preorder ==
    /\ parent[1] = 0 /\ SpaceNodes \in Nat \ {0}
    /\ \A x \in Walk!Nodes \ {1} : parent[x] \in Walk!PathTo(parent, x - 1)

(* Nodes are met in source order.  Those to come that hang below one that   *)
(* has been met are on the stack, or in the walk's hands; the next is last. *)
Todo ==
    IF pc = "loop" THEN stack
    ELSE IF current = Walk!Nothing THEN <<>>
    ELSE Append(stack, current)
Met == IF Todo = <<>> THEN SpaceNodes ELSE Walk!Last(Todo).node - 1

Frontier(todo, v) ==
    /\ todo \in Seq(Entries) /\ v \in 0..SpaceNodes
    /\ \A i, j \in DOMAIN todo : i < j => todo[i].node > todo[j].node
    /\ {todo[i].node : i \in DOMAIN todo} = {x \in Walk!Nodes : x > v /\ parent[x] <= v}

(* The space a node is directly in.                                         *)
Directly(t, s) == s \in Around(t) /\ \A y \in Around(t) : y <= s
IsOpen(t) == \E i \in DOMAIN open : open[i] = t
Left(s, v) == {t \in Walk!Spaces : Directly(t, s) /\ t <= v /\ ~IsOpen(t)}

(* What is open is a chain, and all that was met since is inside.           *)
Chain ==
    \A i \in DOMAIN open :
        /\ open[i] \in Walk!Spaces /\ open[i] <= Met
        /\ Around(open[i]) = {open[j] : j \in 1..(i - 1)}
        /\ \A y \in open[i]..Met : open[i] \in Walk!PathTo(parent, y)

(* The spaces directly in one that are left, in source order.               *)
SpacesListed ==
    /\ DOMAIN spaces = Walk!Nodes
    /\ \A s \in Walk!Nodes : Lists(spaces[s], Left(s, Met))

(* When the walk is over, all but the file is closed.                       *)
Closing ==
    /\ Met >= 1 /\ pc # "returned" => open # <<>>
    /\ pc = "finalize" /\ current = Walk!Nothing => diff > Len(open) \/ (diff = 0 /\ Len(open) = 1)
    /\ pc = "returned" => root = 1 /\ open = <<>> /\ current = Walk!Nothing

ReportInv ==
    /\ WalkInv /\ Preorder
    /\ Frontier(Todo, Met)
    /\ Chain /\ SpacesListed /\ Closing

-----------------------------------------------------------------------------
(* Paths in preorder.                                                       *)

LEMMA ParentIsNode ==
    ASSUME TreeOk, Preorder, NEW x \in Walk!Nodes
    PROVE  /\ SpaceNodes \in Nat /\ x \in Nat /\ x >= 1 /\ x <= SpaceNodes /\ x \in 0..SpaceNodes
           /\ parent[x] \in Nat /\ parent[x] < x /\ parent[x] \in 0..SpaceNodes /\ x - 1 \in 0..SpaceNodes
           /\ x # 1 => parent[x] \in Walk!Nodes /\ x - 1 \in Walk!Nodes
<1>1. /\ SpaceNodes \in Nat /\ x \in Nat /\ x >= 1 /\ x <= SpaceNodes
      /\ parent[x] \in Nat /\ parent[x] < x
  BY DEF TreeOk, Preorder, Downward, Walk!Nodes
<1>2. ASSUME x # 1 PROVE parent[x] \in Walk!Nodes /\ x - 1 \in Walk!Nodes
  <2>1. x - 1 \in 0..SpaceNodes /\ x - 1 \in Walk!Nodes
    BY <1>1, <1>2 DEF Walk!Nodes
  <2>2. parent[x] \in 1..(x - 1)
    BY <2>1, <1>2, PathIsAbove DEF TreeOk, Preorder
  <2>. QED  BY <1>1, <2>1, <2>2 DEF Walk!Nodes
<1>. QED  BY <1>1, <1>2

LEMMA PathOfAbove ==
    ASSUME TreeOk, NEW x \in 0..SpaceNodes
    PROVE  \A y \in Walk!PathTo(parent, x) : Walk!PathTo(parent, y) = Walk!PathTo(parent, x) \cap (1..y)
<1>. DEFINE Bad == {z \in 0..SpaceNodes :
                      \E y \in Walk!PathTo(parent, z) : Walk!PathTo(parent, y) # Walk!PathTo(parent, z) \cap (1..y)}
<1>0. SpaceNodes \in Nat
  BY SizeAssumption
<1>. SUFFICES ASSUME Bad # {} PROVE FALSE
  OBVIOUS
<1>1. PICK z \in Bad : \A w \in Bad : z <= w
  <2>. HIDE DEF Bad
  <2>1. Bad \subseteq Nat
    BY <1>0 DEF Bad
  <2>. QED  BY <2>1, LeastExists
<1>2. PICK y \in Walk!PathTo(parent, z) : Walk!PathTo(parent, y) # Walk!PathTo(parent, z) \cap (1..y)
  OBVIOUS
<1>3. z \in 0..SpaceNodes /\ z \in Nat
  OBVIOUS
<1>4. z \in Walk!Nodes /\ Walk!PathTo(parent, z) = {z} \cup Walk!PathTo(parent, parent[z])
  <2>1. z # 0
    BY <1>2, PathUnfolds DEF TreeOk
  <2>2. z \in Walk!Nodes
    BY <1>0, <1>3, <2>1 DEF Walk!Nodes
  <2>. QED  BY <2>2, PathUnfolds DEF TreeOk
<1>5. parent[z] \in 0..SpaceNodes /\ parent[z] < z /\ parent[z] \in Nat
  BY <1>0, <1>4 DEF TreeOk, Downward, Walk!Nodes
<1>6. Walk!PathTo(parent, z) \subseteq 1..z /\ Walk!PathTo(parent, parent[z]) \subseteq 1..parent[z]
  BY <1>3, <1>5, PathIsAbove DEF TreeOk
<1>7. y # z
  BY <1>2, <1>6
<1>8. y \in Walk!PathTo(parent, parent[z]) /\ y < z /\ y \in Nat
  BY <1>2, <1>4, <1>5, <1>6, <1>7
<1>9. parent[z] \notin Bad
  <2>. HIDE DEF Bad
  <2>. QED  BY <1>1, <1>3, <1>5
<1>10. Walk!PathTo(parent, y) = Walk!PathTo(parent, parent[z]) \cap (1..y)
  BY <1>5, <1>8, <1>9
<1>. QED  BY <1>2, <1>3, <1>4, <1>8, <1>10

(* What hangs below a node comes in one piece.                              *)
LEMMA OnePiece ==
    ASSUME TreeOk, Preorder, NEW c \in 0..SpaceNodes, NEW x \in Walk!PathTo(parent, c)
    PROVE  \A y \in x..c : x \in Walk!PathTo(parent, y)
<1>. DEFINE Bad == {z \in 0..SpaceNodes :
                      x \in Walk!PathTo(parent, z) /\ \E y \in x..z : x \notin Walk!PathTo(parent, y)}
<1>0. SpaceNodes \in Nat
  BY SizeAssumption
<1>. SUFFICES ASSUME Bad # {} PROVE FALSE
  OBVIOUS
<1>1. PICK z \in Bad : \A w \in Bad : z <= w
  <2>. HIDE DEF Bad
  <2>1. Bad \subseteq Nat
    BY <1>0 DEF Bad
  <2>. QED  BY <2>1, LeastExists
<1>2. PICK y \in x..z : x \notin Walk!PathTo(parent, y)
  OBVIOUS
<1>3. z \in 0..SpaceNodes /\ z \in Nat /\ x \in Walk!PathTo(parent, z)
  OBVIOUS
<1>4. x \in Nat /\ 1 <= x /\ x <= z
  BY <1>3, PathIsAbove DEF TreeOk
<1>5. z \in Walk!Nodes /\ x < z /\ y < z /\ y \in x..(z - 1)
  BY <1>0, <1>2, <1>3, <1>4 DEF Walk!Nodes
<1>6. z # 1 /\ parent[z] \in Walk!PathTo(parent, z - 1) /\ z - 1 \in 0..SpaceNodes
  BY <1>0, <1>3, <1>4, <1>5 DEF Preorder
<1>7. x \in Walk!PathTo(parent, parent[z])
  <2>1. Walk!PathTo(parent, z) = {z} \cup Walk!PathTo(parent, parent[z])
    BY <1>5, PathUnfolds DEF TreeOk
  <2>. QED  BY <1>3, <1>4, <1>5, <2>1
<1>8. x \in Walk!PathTo(parent, z - 1)
  BY <1>6, <1>7, PathOfAbove
<1>9. z - 1 \notin Bad
  <2>. HIDE DEF Bad
  <2>. QED  BY <1>1, <1>3, <1>6
<1>. QED  BY <1>2, <1>5, <1>6, <1>8, <1>9

LEMMA PathHasNodes ==
    ASSUME TreeOk, Preorder, NEW x \in Walk!Nodes
    PROVE  /\ x \in Walk!PathTo(parent, x) /\ Walk!PathTo(parent, x) \subseteq 1..x
           /\ Walk!PathTo(parent, x) = {x} \cup Walk!PathTo(parent, parent[x])
           /\ Walk!PathTo(parent, parent[x]) \subseteq 1..parent[x]
BY ParentIsNode, PathUnfolds, PathIsAbove DEF TreeOk

-----------------------------------------------------------------------------
(* The walk in source order.                                                *)

LEMMA FrontierMeets ==
    ASSUME TreeOk, Preorder, NEW todo, NEW v, Frontier(todo, v)
    PROVE  /\ v \in Nat /\ v <= SpaceNodes
           /\ todo = <<>> => v = SpaceNodes
           /\ todo # <<>> => /\ Walk!Last(todo).node = v + 1 /\ Walk!Last(todo).node \in Walk!Nodes
                             /\ parent[v + 1] <= v
<1>1. /\ SpaceNodes \in Nat /\ v \in Nat /\ v <= SpaceNodes /\ todo \in Seq(Entries)
      /\ DOMAIN todo = 1..Len(todo) /\ Len(todo) \in Nat
      /\ \A x \in Walk!Nodes : x \in Nat
  BY SizeAssumption DEF Frontier, Walk!Nodes
<1>2. ASSUME v # SpaceNodes PROVE \E i \in DOMAIN todo : todo[i].node = v + 1
  <2>1. v + 1 \in Walk!Nodes
    BY <1>1, <1>2 DEF Walk!Nodes
  <2>2. v + 1 > v /\ parent[v + 1] <= v
    BY <1>1, <2>1, ParentIsNode
  <2>. QED  BY <2>1, <2>2 DEF Frontier
<1>3. CASE todo = <<>>
  <2>1. DOMAIN todo = {}
    BY <1>3
  <2>. QED  BY <1>1, <1>2, <1>3, <2>1
<1>4. CASE todo # <<>>
  <2>1. Len(todo) \in DOMAIN todo /\ Walk!Last(todo) = todo[Len(todo)]
    BY <1>1, <1>4, LastAndFront
  <2>2. \A i \in DOMAIN todo : todo[i].node \in Walk!Nodes /\ todo[i].node > v /\ parent[todo[i].node] <= v
    BY DEF Frontier
  <2>3. v # SpaceNodes
    <3>1. todo[Len(todo)].node \in 1..SpaceNodes /\ todo[Len(todo)].node > v
      BY <2>1, <2>2 DEF Walk!Nodes
    <3>. QED  BY <1>1, <3>1
  <2>4. PICK i \in DOMAIN todo : todo[i].node = v + 1
    BY <1>2, <2>3
  <2>5. i = Len(todo)
    <3>. SUFFICES ASSUME i # Len(todo) PROVE FALSE
      OBVIOUS
    <3>1. i < Len(todo)
      BY <1>1
    <3>2. todo[i].node > todo[Len(todo)].node
      BY <2>1, <3>1 DEF Frontier
    <3>3. todo[Len(todo)].node > v /\ todo[Len(todo)].node \in Nat
      BY <1>1, <2>1, <2>2
    <3>. QED  BY <1>1, <2>4, <3>2, <3>3
  <2>. QED  BY <1>1, <1>4, <2>1, <2>2, <2>4, <2>5
<1>. QED  BY <1>3, <1>4

LEMMA ChildrenDescend ==
    ASSUME NEW x \in Walk!Nodes
    PROVE  LET cs == Walk!Reverse(Walk!Children(x))
           IN  /\ cs \in Seq(Nat) /\ \A i, j \in DOMAIN cs : i < j => cs[i] > cs[j]
               /\ {cs[i] : i \in DOMAIN cs} = {c \in Walk!Nodes : parent[c] = x}
<1>. DEFINE S == {c \in Walk!Nodes : parent[c] = x}
            up == Walk!Children(x)
            cs == Walk!Reverse(up)
            n == Len(up)
<1>1. /\ up \in Seq(Nat) /\ Increasing(up) /\ {up[i] : i \in DOMAIN up} = S
  <2>1. Lists(Walk!InSourceOrder(S), S \cap Walk!Nodes)
    BY InSourceOrderLists
  <2>. QED  BY <2>1 DEF Lists, Walk!Children
<1>. HIDE DEF up
<1>2. n \in Nat /\ DOMAIN up = 1..n
  BY <1>1
<1>3. cs = [i \in 1..n |-> up[(n - i) + 1]]
  BY DEF Walk!Reverse
<1>4. \A i \in 1..n : (n - i) + 1 \in 1..n /\ (n - ((n - i) + 1)) + 1 = i
  BY <1>2
<1>5. cs \in Seq(Nat) /\ DOMAIN cs = 1..n
  <2>1. \A i \in 1..n : up[(n - i) + 1] \in Nat
    BY <1>1, <1>2, <1>4
  <2>2. [i \in 1..n |-> up[(n - i) + 1]] \in Seq(Nat)
    BY <1>2, <2>1, IsASeq
  <2>. QED  BY <1>3, <2>2
<1>6. ASSUME NEW i \in 1..n, NEW j \in 1..n, i < j PROVE cs[i] > cs[j]
  <2>1. (n - j) + 1 \in 1..n /\ (n - i) + 1 \in 1..n /\ (n - j) + 1 < (n - i) + 1
    BY <1>2, <1>6
  <2>2. up[(n - j) + 1] < up[(n - i) + 1]
    BY <1>1, <1>2, <2>1 DEF Increasing
  <2>3. up[(n - j) + 1] \in Nat /\ up[(n - i) + 1] \in Nat
    BY <1>1, <1>2, <2>1
  <2>. QED  BY <1>3, <2>2, <2>3
<1>7. {cs[i] : i \in 1..n} = S
  <2>1. \A i \in 1..n : cs[i] = up[(n - i) + 1] /\ up[i] = cs[(n - i) + 1]
    BY <1>3, <1>4
  <2>. HIDE DEF cs, n
  <2>. QED  BY <1>1, <1>2, <1>4, <2>1
<1>. QED  BY <1>5, <1>6, <1>7 DEF up

LEMMA FrontierVisit ==
    ASSUME TreeOk, Preorder, NEW st \in Seq(Entries), NEW e \in Entries, NEW v,
           Frontier(Append(st, e), v), NEW below \in Nat,
           NEW pushed,
           pushed = [i \in DOMAIN Walk!Reverse(Walk!Children(e.node)) |->
                       [node |-> Walk!Reverse(Walk!Children(e.node))[i], level |-> below]]
    PROVE  v + 1 = e.node /\ Frontier(st \o pushed, v + 1)
<1>. DEFINE x == e.node
            cs == Walk!Reverse(Walk!Children(x))
            todo == Append(st, e)
            next == st \o pushed
            m == Len(st)
            n == Len(cs)
<1>1. /\ m \in Nat /\ DOMAIN st = 1..m /\ Len(todo) = m + 1 /\ todo # <<>> /\ DOMAIN todo = 1..(m + 1)
      /\ todo[m + 1] = e /\ \A i \in 1..m : todo[i] = st[i]
  <2>1. /\ todo \in Seq(Entries) /\ todo # <<>> /\ Len(todo) = m + 1 /\ todo[m + 1] = e
        /\ \A i \in 1..m : todo[i] = st[i]
    BY AppendProperties
  <2>. HIDE DEF todo
  <2>. QED  BY <2>1
<1>2. /\ v \in Nat /\ v + 1 = x /\ x \in Walk!Nodes /\ parent[x] <= v
  <2>1. Walk!Last(todo) = e
    BY <1>1 DEF Walk!Last
  <2>. QED  BY <1>1, <2>1, FrontierMeets
<1>3. /\ cs \in Seq(Nat) /\ \A i, j \in DOMAIN cs : i < j => cs[i] > cs[j]
      /\ {cs[i] : i \in DOMAIN cs} = {c \in Walk!Nodes : parent[c] = x}
  BY <1>2, ChildrenDescend
<1>. HIDE DEF cs
<1>4. n \in Nat /\ DOMAIN cs = 1..n /\ \A i \in 1..n : cs[i] \in Nat
  BY <1>3
<1>5. pushed \in Seq(Entries) /\ Len(pushed) = n /\ \A i \in 1..n : pushed[i].node = cs[i]
  <2>1. pushed = [i \in 1..n |-> [node |-> cs[i], level |-> below]]
    BY <1>4 DEF cs
  <2>2. \A i \in 1..n : [node |-> cs[i], level |-> below] \in Entries
    BY <1>4 DEF Entries
  <2>3. [i \in 1..n |-> [node |-> cs[i], level |-> below]] \in Seq(Entries)
    BY <1>4, <2>2, IsASeq
  <2>4. \A i \in 1..n : pushed[i].node = cs[i]
    BY <2>1
  <2>5. Len(pushed) = n
    BY <1>4, <2>1
  <2>. QED  BY <2>1, <2>3, <2>4, <2>5
<1>6. /\ next \in Seq(Entries) /\ DOMAIN next = 1..(m + n)
      /\ \A i \in 1..m : next[i] = st[i]
      /\ \A i \in 1..n : next[m + i] = pushed[i]
  <2>1. /\ next \in Seq(Entries) /\ Len(next) = m + n
        /\ \A i \in 1..(m + n) : next[i] = IF i <= m THEN st[i] ELSE pushed[i - m]
    BY <1>1, <1>5, ConcatProperties
  <2>2. \A i \in 1..n : m + i \in 1..(m + n) /\ ~(m + i <= m) /\ (m + i) - m = i
    BY <1>1, <1>4
  <2>3. \A i \in 1..m : i \in 1..(m + n) /\ i <= m
    BY <1>1, <1>4
  <2>4. DOMAIN next = 1..(m + n)
    BY <2>1
  <2>. HIDE DEF next
  <2>. QED  BY <2>1, <2>2, <2>3, <2>4
<1>. HIDE DEF next
<1>7. \A i \in 1..(m + n) : i \in 1..m \/ \E j \in 1..n : i = m + j
  <2>. SUFFICES ASSUME NEW i \in 1..(m + n), i \notin 1..m PROVE i - m \in 1..n /\ i = m + (i - m)
    OBVIOUS
  <2>. QED  BY <1>1, <1>4
<1>8. \A i \in 1..m : /\ st[i].node \in Walk!Nodes /\ st[i].node > x /\ parent[st[i].node] <= v
  <2>. SUFFICES ASSUME NEW i \in 1..m PROVE st[i].node \in Walk!Nodes /\ st[i].node > x /\ parent[st[i].node] <= v
    OBVIOUS
  <2>1. i \in DOMAIN todo /\ m + 1 \in DOMAIN todo /\ i < m + 1
    BY <1>1
  <2>2. todo[i].node > todo[m + 1].node /\ todo[i].node \in Walk!Nodes /\ parent[todo[i].node] <= v
    BY <2>1 DEF Frontier
  <2>. QED  BY <1>1, <2>2
<1>9. \A i \in 1..n : cs[i] \in Walk!Nodes /\ parent[cs[i]] = x
  BY <1>3, <1>4
<1>10. ASSUME NEW i \in 1..m, NEW j \in 1..n PROVE st[i].node > cs[j]
  <2>. DEFINE y == st[i].node
              c == cs[j]
  <2>1. /\ y \in Walk!Nodes /\ y \in Nat /\ y > x /\ parent[y] <= v /\ parent[y] \in Nat /\ parent[y] < x
        /\ c \in Walk!Nodes /\ c \in Nat /\ parent[c] = x /\ c \in 0..SpaceNodes
    <3>1. y \in Walk!Nodes /\ y > x /\ parent[y] <= v /\ c \in Walk!Nodes /\ parent[c] = x
      BY <1>8, <1>9
    <3>. HIDE DEF y, c
    <3>2. y \in Nat /\ parent[y] \in Nat /\ c \in Nat /\ c \in 0..SpaceNodes
      BY <3>1, ParentIsNode
    <3>. QED  BY <1>2, <3>1, <3>2
  <2>. SUFFICES ASSUME ~(y > c) PROVE FALSE
    OBVIOUS
  <2>. HIDE DEF y, c
  <2>2. y # c
    BY <1>2, <2>1
  <2>3. x \in Walk!PathTo(parent, c)
    BY <1>2, <2>1, PathHasNodes
  <2>4. y \in x..c
    BY <1>2, <2>1
  <2>5. x \in Walk!PathTo(parent, y)
    BY <2>1, <2>3, <2>4, OnePiece
  <2>6. x \in Walk!PathTo(parent, parent[y])
    BY <1>2, <2>1, <2>5, PathHasNodes
  <2>7. x \in 1..parent[y]
    BY <2>1, <2>6, PathHasNodes
  <2>. QED  BY <1>2, <2>1, <2>7
<1>11. \A i, j \in 1..(m + n) : i < j => next[i].node > next[j].node
  <2>. SUFFICES ASSUME NEW i \in 1..(m + n), NEW j \in 1..(m + n), i < j
                PROVE  next[i].node > next[j].node
    OBVIOUS
  <2>1. CASE j \in 1..m
    <3>1. i \in 1..m /\ i \in DOMAIN todo /\ j \in DOMAIN todo
      BY <1>1, <1>4, <2>1
    <3>2. todo[i].node > todo[j].node
      BY <3>1 DEF Frontier
    <3>. QED  BY <1>1, <1>6, <2>1, <3>1, <3>2
  <2>2. CASE \E k \in 1..n : j = m + k
    <3>1. PICK k \in 1..n : j = m + k
      BY <2>2
    <3>2. next[j].node = cs[k]
      BY <1>5, <1>6, <3>1
    <3>3. CASE i \in 1..m
      BY <1>6, <1>10, <3>2, <3>3
    <3>4. CASE \E l \in 1..n : i = m + l
      <4>1. PICK l \in 1..n : i = m + l
        BY <3>4
      <4>2. l < k
        BY <1>1, <1>4, <3>1, <4>1
      <4>3. cs[l] > cs[k]
        BY <1>3, <1>4, <4>2
      <4>. QED  BY <1>5, <1>6, <3>2, <4>1, <4>3
    <3>. QED  BY <1>7, <3>3, <3>4
  <2>. QED  BY <1>7, <2>1, <2>2
<1>12. {next[i].node : i \in 1..(m + n)} = {y \in Walk!Nodes : y > v + 1 /\ parent[y] <= v + 1}
  <2>1. ASSUME NEW i \in 1..(m + n)
        PROVE  next[i].node \in Walk!Nodes /\ next[i].node > v + 1 /\ parent[next[i].node] <= v + 1
    <3>1. CASE i \in 1..m
      <4>1. st[i].node \in Walk!Nodes /\ st[i].node > x /\ parent[st[i].node] <= v /\ parent[st[i].node] \in Nat
        BY <1>8, <3>1, ParentIsNode
      <4>2. next[i] = st[i]
        BY <1>6, <3>1
      <4>. QED  BY <1>2, <4>1, <4>2
    <3>2. CASE \E k \in 1..n : i = m + k
      <4>1. PICK k \in 1..n : i = m + k
        BY <3>2
      <4>2. next[i].node = cs[k] /\ cs[k] \in Walk!Nodes /\ parent[cs[k]] = x
        BY <1>5, <1>6, <1>9, <4>1
      <4>3. parent[cs[k]] < cs[k] /\ cs[k] \in Nat
        BY <4>2, ParentIsNode
      <4>. QED  BY <1>2, <4>2, <4>3
    <3>. QED  BY <1>7, <3>1, <3>2
  <2>2. ASSUME NEW y \in Walk!Nodes, y > v + 1, parent[y] <= v + 1
        PROVE  \E i \in 1..(m + n) : next[i].node = y
    <3>0. y \in Nat /\ parent[y] \in Nat
      BY ParentIsNode
    <3>1. CASE parent[y] = x
      <4>1. PICK k \in 1..n : cs[k] = y
        BY <1>3, <1>4, <3>1
      <4>2. m + k \in 1..(m + n)
        BY <1>1, <1>4
      <4>3. next[m + k].node = y
        BY <1>5, <1>6, <4>1
      <4>. QED  BY <4>2, <4>3
    <3>2. CASE parent[y] # x
      <4>1. y > v /\ parent[y] <= v
        BY <1>2, <2>2, <3>0, <3>2
      <4>2. PICK i \in DOMAIN todo : todo[i].node = y
        BY <4>1 DEF Frontier
      <4>3. i # m + 1
        BY <1>1, <1>2, <2>2, <3>0, <4>2
      <4>4. i \in 1..m /\ i \in 1..(m + n)
        BY <1>1, <1>4, <4>3
      <4>5. next[i].node = y
        BY <1>1, <1>6, <4>2, <4>4
      <4>. QED  BY <4>4, <4>5
    <3>. QED  BY <3>1, <3>2
  <2>. QED  BY <2>1, <2>2
<1>13. v + 1 \in 0..SpaceNodes
  BY <1>2, ParentIsNode
<1>. QED  BY <1>2, <1>6, <1>11, <1>12, <1>13 DEF Frontier, next

LEMMA RootIsAbove ==
    ASSUME TreeOk, Preorder, NEW x \in Walk!Nodes
    PROVE  1 \in Walk!PathTo(parent, x)
<1>. DEFINE Bad == {y \in Walk!Nodes : 1 \notin Walk!PathTo(parent, y)}
<1>. SUFFICES ASSUME Bad # {} PROVE FALSE
  OBVIOUS
<1>1. PICK m \in Bad : \A y \in Bad : m <= y
  <2>. HIDE DEF Bad
  <2>1. Bad \subseteq Nat
    BY DEF Bad, Walk!Nodes
  <2>. QED  BY <2>1, LeastExists
<1>2. m \in Walk!Nodes /\ 1 \notin Walk!PathTo(parent, m)
  OBVIOUS
<1>3. m # 1 /\ Walk!PathTo(parent, parent[m]) \subseteq Walk!PathTo(parent, m)
  BY <1>2, PathHasNodes
<1>4. parent[m] \in Walk!Nodes /\ parent[m] \in Nat /\ m \in Nat /\ parent[m] < m
  BY <1>2, <1>3, ParentIsNode
<1>5. parent[m] \notin Bad
  <2>. HIDE DEF Bad
  <2>. QED  BY <1>1, <1>4
<1>. QED  BY <1>2, <1>3, <1>4, <1>5

LEMMA WhatIsAround ==
    ASSUME TreeOk, Preorder, NEW x \in Walk!Nodes
    PROVE  /\ x \in Nat /\ x >= 1 /\ Around(x) \subseteq Walk!Spaces
           /\ \A y \in Around(x) : /\ y \in Walk!Nodes /\ y \in Nat /\ y < x /\ y \in Walk!PathTo(parent, x)
           /\ \A y \in Walk!Spaces : y \in Walk!PathTo(parent, x) /\ y # x => y \in Around(x)
           /\ Around(x) = {} => x = 1
           /\ x = 1 => Around(x) = {}
<1>1. x \in Nat /\ x >= 1 /\ (x # 1 => parent[x] \in Walk!Nodes)
  BY ParentIsNode
<1>2. /\ Around(x) \subseteq Walk!Spaces /\ Walk!Spaces \subseteq Walk!Nodes
      /\ Walk!PathTo(parent, x) = {x} \cup Walk!PathTo(parent, parent[x])
  BY PathHasNodes DEF Around, Walk!Spaces
<1>3. \A y \in Around(x) : y \in Nat /\ y < x
  BY AroundIsSmaller
<1>4. \A y \in Walk!Spaces : y \in Walk!PathTo(parent, x) /\ y # x => y \in Around(x)
  BY <1>2 DEF Around
<1>5. x # 1 => 1 \in Around(x)
  BY <1>1, RootIsAbove DEF Around, TreeOk
<1>6. x = 1 => Around(x) = {}
  BY PathUnfolds DEF TreeOk, Preorder, Around
<1>. QED  BY <1>1, <1>2, <1>3, <1>4, <1>5, <1>6 DEF Around

LEMMA PutTogether ==
    ASSUME NEW S, NEW s \in Seq(S), s # <<>>
    PROVE  Append(Walk!Front(s), Walk!Last(s)) = s
<1>. DEFINE n == Len(s) - 1
            t == Append(Walk!Front(s), Walk!Last(s))
<1>1. /\ Walk!Last(s) = s[Len(s)] /\ Walk!Last(s) \in S /\ Walk!Front(s) \in Seq(S) /\ Len(Walk!Front(s)) = n
      /\ \A i \in 1..n : Walk!Front(s)[i] = s[i]
  BY LastAndFront
<1>2. Len(s) \in Nat /\ Len(s) >= 1 /\ n \in Nat /\ n + 1 = Len(s)
  OBVIOUS
<1>. HIDE DEF n
<1>3. /\ t \in Seq(S) /\ Len(t) = n + 1 /\ t[n + 1] = s[Len(s)]
      /\ \A i \in 1..n : t[i] = Walk!Front(s)[i]
  BY <1>1, AppendProperties
<1>. HIDE DEF t
<1>4. \A i \in 1..Len(s) : i \in 1..n \/ i = n + 1
  BY <1>2
<1>5. \A i \in 1..Len(s) : t[i] = s[i]
  BY <1>1, <1>2, <1>3, <1>4
<1>6. t = s
  BY <1>2, <1>3, <1>5, SeqEqual
<1>. QED  BY <1>6 DEF t

LEMMA StepsKeepTodo ==
    ASSUME WalkInv,
           Walk!Pop \/ Walk!Drained \/ Walk!FinalizeLast \/ Walk!FinalizeInner \/ Walk!Finalized \/ Walk!Return
    PROVE  Todo' = Todo /\ Met' = Met
<1>1. Todo' = Todo
  <2>1. CASE Walk!Pop
    <3>1. /\ pc = "loop" /\ stack # <<>> /\ current' = Walk!Last(stack) /\ stack' = Walk!Front(stack)
          /\ pc' # "loop" /\ stack \in Seq(Entries)
      BY <2>1 DEF Walk!Pop, WalkInv, WalkTyped
    <3>2. current' # Walk!Nothing
      <4>1. Fits(Walk!Last(stack))
        BY <3>1, LastAndFront DEF WalkInv, StackFits
      <4>. QED  BY <3>1, <4>1 DEF Fits, Walk!Nothing, Walk!Nodes
    <3>. QED  BY <3>1, <3>2, PutTogether DEF Todo
  <2>2. CASE Walk!Drained
    BY <2>2 DEF Walk!Drained, Todo
  <2>3. CASE Walk!FinalizeLast \/ Walk!FinalizeInner
    <3>1. pc = "finalize" /\ UNCHANGED <<pc, current, stack>>
      BY <2>3 DEF Walk!FinalizeLast, Walk!FinalizeInner, Walk!walk
    <3>. QED  BY <3>1 DEF Todo
  <2>4. CASE Walk!Finalized
    BY <2>4 DEF Walk!Finalized, Todo, Walk!walk
  <2>5. CASE Walk!Return
    BY <2>5 DEF Walk!Return, Todo
  <2>. QED  BY <2>1, <2>2, <2>3, <2>4, <2>5
<1>. QED  BY <1>1 DEF Met

LEMMA SameLists ==
    ASSUME UNCHANGED <<parent, kind>>, Todo' = Todo, Met' = Met
    PROVE  /\ Preorder' <=> Preorder
           /\ Frontier(Todo, Met)' <=> Frontier(Todo, Met)
           /\ Walk!Spaces' = Walk!Spaces
           /\ \A t : Around(t)' = Around(t)
           /\ \A t, s : Directly(t, s)' <=> Directly(t, s)
BY DEF Preorder, Frontier, Walk!Spaces, Around, Directly

LEMMA SameChain ==
    ASSUME UNCHANGED <<parent, kind, open>>, Todo' = Todo, Met' = Met
    PROVE  /\ Chain' <=> Chain
           /\ \A s, v : Left(s, v)' = Left(s, v)
BY SameLists DEF Chain, Left, IsOpen

LEMMA MetIsNat ==
    ASSUME ReportInv
    PROVE  /\ TreeOk /\ Preorder /\ Met \in Nat /\ Met <= SpaceNodes /\ Met \in 0..SpaceNodes
           /\ Todo = <<>> => Met = SpaceNodes
           /\ open \in Seq(Nat) /\ Len(open) \in Nat /\ DOMAIN open = 1..Len(open)
           /\ SpaceNodes \in Nat /\ SpaceNodes >= 1
<1>1. TreeOk /\ Preorder /\ Frontier(Todo, Met)
  BY DEF ReportInv, WalkInv
<1>2. /\ Met \in Nat /\ Met <= SpaceNodes /\ (Todo = <<>> => Met = SpaceNodes)
  BY <1>1, FrontierMeets
<1>3. open \in Seq(Nat)
  BY DEF ReportInv, WalkInv, WalkTyped
<1>. QED  BY <1>1, <1>2, <1>3, SizeAssumption

(* A chain is no longer than the file.                                      *)
LEMMA ChainIsShort ==
    ASSUME ReportInv
    PROVE  Len(open) <= SpaceNodes
<1>. DEFINE n == Len(open)
            T == {i \in 0..n : i # 0 => i <= open[i]}
<1>1. /\ n \in Nat /\ DOMAIN open = 1..n /\ Increasing(open) /\ SpaceNodes \in Nat
      /\ \A i \in 1..n : open[i] \in Nat /\ open[i] >= 1 /\ open[i] <= SpaceNodes
  <2>1. \A i \in DOMAIN open : open[i] \in Walk!Spaces
    BY DEF ReportInv, Chain
  <2>. QED  BY <2>1, MetIsNat DEF Walk!Spaces, Walk!Nodes, ReportInv, WalkInv, WalkTyped
<1>. HIDE DEF n
<1>2. 0 \in T
  BY <1>1
<1>3. \A k \in 0..(n - 1) : k \in T => k + 1 \in T
  <2>. SUFFICES ASSUME NEW k \in 0..(n - 1), k # 0 => k <= open[k]
                PROVE  k + 1 \in 0..n /\ k + 1 <= open[k + 1]
    OBVIOUS
  <2>1. k + 1 \in 1..n /\ k + 1 \in 0..n
    BY <1>1
  <2>2. CASE k = 0
    BY <1>1, <2>1, <2>2
  <2>3. CASE k # 0
    <3>1. k \in 1..n /\ k < k + 1
      BY <1>1, <2>3
    <3>2. open[k] < open[k + 1]
      BY <1>1, <2>1, <3>1 DEF Increasing
    <3>. QED  BY <1>1, <2>1, <2>3, <3>1, <3>2
  <2>. QED  BY <2>2, <2>3
<1>. HIDE DEF T
<1>4. n \in T
  <2>1. n \in 0..n
    BY <1>1
  <2>. QED  BY <1>1, <1>2, <1>3, <2>1, CountingUp
<1>5. n # 0 => n <= open[n]
  BY <1>4 DEF T
<1>6. n # 0 => n \in 1..n
  BY <1>1
<1>7. n <= SpaceNodes
  BY <1>1, <1>5, <1>6
<1>. QED  BY <1>7 DEF n

LEMMA ReportInit ==
    ASSUME Walk!Init, RootKinds \subseteq Walk!SpaceKinds
    PROVE  ReportInv
<1>0. SpaceNodes \in Nat /\ SpaceNodes >= 1 /\ 1 \in Walk!Nodes
  BY SizeAssumption DEF Walk!Nodes
<1>1. WalkInv /\ TreeOk
  BY WalkInit DEF WalkInv
<1>2. /\ stack = <<RootEntry>> /\ open = <<>> /\ pc = "loop" /\ parent \in Walk!Parents
      /\ spaces = [x \in Walk!Nodes |-> <<>>]
  BY DEF Walk!Init, Walk!Start, RootEntry
<1>3. Preorder
  BY <1>0, <1>2 DEF Preorder, Walk!Parents
<1>4. Todo = <<RootEntry>> /\ Met = 0
  <2>1. Walk!Last(<<RootEntry>>) = RootEntry
    BY DEF Walk!Last
  <2>. QED  BY <1>2, <2>1 DEF Todo, Met, RootEntry
<1>5. Frontier(<<RootEntry>>, 0)
  <2>1. {x \in Walk!Nodes : x > 0 /\ parent[x] <= 0} = {1}
    <3>1. parent[1] = 0
      BY <1>3 DEF Preorder
    <3>2. \A x \in Walk!Nodes : x \in Nat /\ x > 0 /\ (x # 1 => parent[x] \in Walk!Nodes)
      BY <1>1, <1>3, ParentIsNode
    <3>3. \A x \in Walk!Nodes : x > 0 /\ ~(x <= 0)
      BY DEF Walk!Nodes
    <3>. QED  BY <1>0, <3>1, <3>2, <3>3
  <2>2. <<RootEntry>> \in Seq(Entries) /\ DOMAIN <<RootEntry>> = {1} /\ <<RootEntry>>[1].node = 1
    BY DEF RootEntry, Entries
  <2>3. \A i, j \in {1} : ~(i < j)
    OBVIOUS
  <2>4. {<<RootEntry>>[i].node : i \in {1}} = {1}
    BY <2>2
  <2>. QED  BY <1>0, <2>1, <2>2, <2>3, <2>4 DEF Frontier
<1>6. Chain /\ Closing
  BY <1>2, <1>4 DEF Chain, Closing
<1>7. SpacesListed
  <2>1. \A s \in Walk!Nodes : Left(s, 0) = {}
    BY DEF Left, Walk!Spaces, Walk!Nodes
  <2>2. Lists(<<>>, {})
    BY DEF Lists, Increasing
  <2>. QED  BY <1>2, <1>4, <2>1, <2>2 DEF SpacesListed
<1>. QED  BY <1>1, <1>3, <1>4, <1>5, <1>6, <1>7 DEF ReportInv

(* Steps that neither meet nor close a node.                                *)
LEMMA ReportQuiet ==
    ASSUME ReportInv, WalkInv', Todo' = Todo, Met' = Met, Closing',
           UNCHANGED <<parent, kind, open, spaces>>
    PROVE  ReportInv'
<1>1. Preorder' /\ Frontier(Todo, Met)' /\ Chain'
  BY SameLists, SameChain DEF ReportInv
<1>2. SpacesListed'
  BY SameChain DEF ReportInv, SpacesListed
<1>. QED  BY <1>1, <1>2 DEF ReportInv

LEMMA ReportPop ==
    ASSUME ReportInv, Walk!Pop
    PROVE  ReportInv'
<1>1. WalkInv' /\ Todo' = Todo /\ Met' = Met
  BY PopKeeps, StepsKeepTodo DEF ReportInv
<1>2. UNCHANGED <<parent, kind, open, spaces>> /\ pc = "loop"
  BY DEF Walk!Pop, Walk!tree
<1>3. Closing'
  <2>1. pc' \in {"visit", "finalize"} /\ current' # Walk!Nothing
    <3>1. stack \in Seq(Entries) /\ stack # <<>> /\ current' = Walk!Last(stack) /\ StackFits
      BY DEF Walk!Pop, ReportInv, WalkInv, WalkTyped
    <3>2. Fits(Walk!Last(stack))
      BY <3>1, LastAndFront DEF StackFits
    <3>. QED  BY <3>1, <3>2 DEF Walk!Pop, Fits, Walk!Nothing, Walk!Nodes
  <2>2. pc # "returned" /\ pc' # "returned"
    BY <1>2, <2>1
  <2>3. Met' >= 1 => open' # <<>>
    BY <1>1, <1>2, <2>2 DEF ReportInv, Closing
  <2>. QED  BY <2>1, <2>2, <2>3 DEF Closing
<1>. QED  BY <1>1, <1>2, <1>3, ReportQuiet

LEMMA ReportDrained ==
    ASSUME ReportInv, Walk!Drained
    PROVE  ReportInv'
<1>1. WalkInv' /\ Todo' = Todo /\ Met' = Met
  BY DrainedKeeps, StepsKeepTodo DEF ReportInv
<1>2. UNCHANGED <<parent, kind, open, spaces>> /\ pc = "loop" /\ pc' = "finalize" /\ diff' = SpaceNodes + 1
  BY DEF Walk!Drained, Walk!tree
<1>3. diff' > Len(open')
  BY <1>2, ChainIsShort, MetIsNat
<1>4. Closing'
  BY <1>1, <1>2, <1>3 DEF ReportInv, Closing
<1>. QED  BY <1>1, <1>2, <1>4, ReportQuiet

LEMMA ReportFinalizeLast ==
    ASSUME ReportInv, Walk!FinalizeLast
    PROVE  ReportInv'
<1>1. WalkInv' /\ Todo' = Todo /\ Met' = Met
  BY FinalizeLastKeeps, StepsKeepTodo DEF ReportInv
<1>2. UNCHANGED <<parent, kind, open, spaces, current, pc>> /\ pc = "finalize" /\ diff' = 0 /\ Len(open) = 1
  BY DEF Walk!FinalizeLast, Walk!tree, Walk!walk
<1>3. Closing'
  BY <1>1, <1>2 DEF ReportInv, Closing
<1>. QED  BY <1>1, <1>2, <1>3, ReportQuiet

LEMMA ReportFinalized ==
    ASSUME ReportInv, Walk!Finalized
    PROVE  ReportInv'
<1>1. WalkInv' /\ Todo' = Todo /\ Met' = Met
  BY FinalizedKeeps, StepsKeepTodo DEF ReportInv
<1>2. UNCHANGED <<parent, kind, open, spaces, current>> /\ pc = "finalize" /\ pc' = "visit"
  BY DEF Walk!Finalized, Walk!tree, Walk!walk
<1>3. Closing'
  BY <1>1, <1>2 DEF ReportInv, Closing
<1>. QED  BY <1>1, <1>2, <1>3, ReportQuiet

(* What metrics() returns is the file.                                      *)
LEMMA ReportReturn ==
    ASSUME ReportInv, Walk!Return
    PROVE  ReportInv'
<1>1. WalkInv' /\ Todo' = Todo /\ Met' = Met
  BY ReturnKeeps, StepsKeepTodo DEF ReportInv
<1>2. /\ UNCHANGED <<parent, kind, spaces, current>> /\ pc = "finalize" /\ pc' = "returned" /\ current = Walk!Nothing
      /\ diff = 0 \/ open = <<>>
  BY DEF Walk!Return, Walk!tree
<1>3. Met >= 1
  <2>1. Todo = <<>>
    BY <1>2 DEF Todo
  <2>. QED  BY <2>1, MetIsNat
<1>4. open # <<>> /\ Len(open) = 1 /\ 1 \in DOMAIN open
  <2>1. open # <<>> /\ diff = 0 /\ (diff > Len(open) \/ Len(open) = 1)
    BY <1>2, <1>3 DEF ReportInv, Closing
  <2>2. Len(open) = 1
    BY <2>1, MetIsNat
  <2>. QED  BY <2>1, <2>2, MetIsNat
<1>5. open[1] = 1
  <2>1. open[1] \in Walk!Spaces /\ Around(open[1]) = {open[j] : j \in 1..(1 - 1)}
    BY <1>4 DEF ReportInv, Chain
  <2>2. Around(open[1]) = {}
    BY <2>1
  <2>3. open[1] \in Walk!Nodes
    BY <2>1 DEF Walk!Spaces
  <2>. QED  BY <2>2, <2>3, WhatIsAround, MetIsNat
<1>6. root' = 1 /\ open' = <<>>
  <2>1. /\ Walk!Last(open) = open[Len(open)] /\ Walk!Front(open) \in Seq(Nat) /\ Len(Walk!Front(open)) = Len(open) - 1
    BY <1>4, MetIsNat, LastAndFront
  <2>2. root' = Walk!Last(open) /\ open' = Walk!Front(open)
    BY <1>4 DEF Walk!Return
  <2>. QED  BY <1>4, <1>5, <2>1, <2>2
<1>7. Preorder' /\ Frontier(Todo, Met)' /\ Walk!Spaces' = Walk!Spaces /\ \A t, s : Directly(t, s)' <=> Directly(t, s)
  BY <1>1, <1>2, SameLists DEF ReportInv
<1>8. Chain'
  BY <1>6 DEF Chain
<1>9. SpacesListed'
  <2>1. \A s \in Walk!Nodes : Left(s, Met)' = Left(s, Met)
    <3>. SUFFICES ASSUME NEW CONSTANT s \in Walk!Nodes PROVE Left(s, Met)' = Left(s, Met)
      OBVIOUS
    <3>1. \A t : IsOpen(t) <=> t = 1
      BY <1>4, <1>5, MetIsNat DEF IsOpen
    <3>2. \A t : ~IsOpen(t)'
      BY <1>6 DEF IsOpen
    <3>3. ~Directly(1, s)
      <4>1. 1 \in Walk!Nodes
        BY MetIsNat DEF Walk!Nodes
      <4>2. Around(1) = {}
        BY <4>1, WhatIsAround, MetIsNat
      <4>. QED  BY <4>2 DEF Directly
    <3>. QED  BY <1>1, <1>7, <3>1, <3>2, <3>3 DEF Left
  <2>. QED  BY <1>2, <2>1 DEF ReportInv, SpacesListed
<1>10. Closing'
  BY <1>2, <1>6 DEF Closing
<1>. QED  BY <1>1, <1>7, <1>8, <1>9, <1>10 DEF ReportInv

(* The innermost open space is the last one in the space around it.         *)
LEMMA InnermostOpen ==
    ASSUME ReportInv, Len(open) > 1
    PROVE  LET inner == Walk!Last(open)
               outer == Walk!Last(Walk!Front(open))
           IN  /\ inner = open[Len(open)] /\ outer = open[Len(open) - 1]
               /\ inner \in Walk!Spaces /\ outer \in Walk!Spaces /\ inner \in Walk!Nodes /\ outer \in Walk!Nodes
               /\ inner \in Nat /\ outer \in Nat /\ outer < inner /\ inner <= Met
               /\ Directly(inner, outer)
               /\ \A t \in Left(outer, Met) : t \in Nat /\ t < inner
<1>. DEFINE m == Len(open)
            l == m - 1
            inner == open[m]
            outer == open[l]
<1>1. /\ TreeOk /\ Preorder /\ Met \in Nat /\ Met <= SpaceNodes
      /\ open \in Seq(Nat) /\ m \in Nat /\ DOMAIN open = 1..m /\ Increasing(open)
  BY MetIsNat DEF ReportInv, WalkInv, WalkTyped
<1>2. open # <<>> /\ m \in 1..m /\ l \in 1..m /\ l < m /\ l \in 1..l /\ l \in Nat /\ l >= 1
  BY <1>1
<1>3. Walk!Last(open) = inner /\ Walk!Last(Walk!Front(open)) = outer
  <2>1. /\ Walk!Last(open) = open[m] /\ Walk!Front(open) \in Seq(Nat) /\ Len(Walk!Front(open)) = l
        /\ \A i \in 1..l : Walk!Front(open)[i] = open[i]
    BY <1>1, <1>2, LastAndFront
  <2>2. Walk!Front(open) # <<>>
    BY <1>2, <2>1
  <2>3. Walk!Last(Walk!Front(open)) = Walk!Front(open)[l]
    BY <2>1, <2>2, LastAndFront
  <2>. QED  BY <1>2, <2>1, <2>3
<1>4. /\ inner \in Walk!Spaces /\ outer \in Walk!Spaces /\ inner <= Met
      /\ Around(inner) = {open[j] : j \in 1..l}
      /\ \A y \in inner..Met : inner \in Walk!PathTo(parent, y)
  BY <1>1, <1>2 DEF ReportInv, Chain
<1>5. inner \in Walk!Nodes /\ outer \in Walk!Nodes /\ inner \in Nat /\ outer \in Nat /\ outer < inner
  BY <1>1, <1>2, <1>4 DEF Walk!Spaces, Increasing, Walk!Nodes
<1>6. Directly(inner, outer)
  <2>1. outer \in Around(inner)
    BY <1>2, <1>4
  <2>2. ASSUME NEW j \in 1..l PROVE open[j] <= outer
    <3>0. l <= m /\ m \in Nat /\ l \in Nat
      BY <1>1, <1>2
    <3>. HIDE DEF m, l
    <3>1. j \in 1..m /\ j \in Nat /\ (j = l \/ j < l)
      BY <3>0
    <3>2. j < l => open[j] < open[l]
      BY <1>1, <1>2, <3>1 DEF Increasing
    <3>3. open[j] \in Nat
      BY <1>1, <3>1
    <3>. QED  BY <1>5, <3>1, <3>2, <3>3
  <2>. QED  BY <1>4, <2>1, <2>2 DEF Directly
<1>. HIDE DEF m, l, inner, outer
<1>7. ASSUME NEW t \in Left(outer, Met) PROVE t \in Nat /\ t < inner
  <2>1. /\ t \in Walk!Spaces /\ t \in Walk!Nodes /\ t \in Nat /\ t <= Met /\ ~IsOpen(t) /\ Directly(t, outer)
    BY DEF Left, Walk!Spaces, Walk!Nodes
  <2>2. t # inner
    BY <1>1, <1>2, <2>1 DEF IsOpen, inner
  <2>3. ASSUME inner < t PROVE FALSE
    <3>1. t \in inner..Met
      BY <1>1, <1>5, <2>1, <2>3
    <3>2. inner \in Around(t)
      BY <1>1, <1>4, <2>1, <2>2, <3>1, WhatIsAround
    <3>3. inner <= outer
      BY <2>1, <3>2 DEF Directly
    <3>. QED  BY <1>5, <3>3
  <2>. QED  BY <1>5, <2>1, <2>2, <2>3
<1>. QED  BY <1>3, <1>4, <1>5, <1>6, <1>7 DEF inner, outer, l, m

(* The innermost open space becomes one of those left in the one around it. *)
LEMMA InnerIsLeft ==
    ASSUME ReportInv, Walk!FinalizeInner
    PROVE  LET inner == Walk!Last(open)
               outer == Walk!Last(Walk!Front(open))
           IN  /\ \A t : IsOpen(t) <=> IsOpen(t)' \/ t = inner
               /\ \A t : t = inner => ~IsOpen(t)'
               /\ \A s \in Walk!Nodes :
                    Left(s, Met)' = IF s = outer THEN Left(outer, Met) \cup {inner} ELSE Left(s, Met)
<1>. DEFINE inner == Walk!Last(open)
            outer == Walk!Last(Walk!Front(open))
            m == Len(open)
<1>1. WalkInv' /\ Todo' = Todo /\ Met' = Met
  BY FinalizeInnerKeeps, StepsKeepTodo DEF ReportInv
<1>2. /\ UNCHANGED <<parent, kind, current, pc>> /\ pc = "finalize" /\ diff > 0 /\ m > 1
      /\ open' = Walk!Front(open) /\ diff' = diff - 1
      /\ spaces' = [spaces EXCEPT ![outer] = Append(@, inner)]
  BY DEF Walk!FinalizeInner, Walk!tree
<1>3. /\ Preorder' /\ Frontier(Todo, Met)' /\ Walk!Spaces' = Walk!Spaces
      /\ \A t : Around(t)' = Around(t)
      /\ \A t, s : Directly(t, s)' <=> Directly(t, s)
  BY <1>1, <1>2, SameLists DEF ReportInv
<1>4. /\ open \in Seq(Nat) /\ m \in Nat /\ DOMAIN open = 1..m /\ open # <<>> /\ Increasing(open)
      /\ diff \in Nat
  BY <1>2, MetIsNat DEF ReportInv, WalkInv, WalkTyped
<1>5. /\ DOMAIN open' = 1..(m - 1) /\ Len(open') = m - 1 /\ open' # <<>>
      /\ \A i \in 1..(m - 1) : open'[i] = open[i] /\ i \in DOMAIN open
  <2>1. /\ Walk!Front(open) \in Seq(Nat) /\ Len(Walk!Front(open)) = m - 1 /\ DOMAIN Walk!Front(open) = 1..(m - 1)
        /\ \A i \in 1..(m - 1) : Walk!Front(open)[i] = open[i] /\ i \in DOMAIN open
    BY <1>4, LastAndFront
  <2>. QED  BY <1>2, <1>4, <2>1
<1>6. /\ inner = open[m] /\ outer = open[m - 1] /\ inner \in Walk!Spaces /\ outer \in Walk!Nodes
      /\ inner \in Walk!Nodes /\ inner \in Nat /\ inner <= Met
      /\ Directly(inner, outer) /\ \A t \in Left(outer, Met) : t < inner
  BY <1>2, InnermostOpen
<1>. HIDE DEF inner, outer
<1>8. \A t : IsOpen(t) <=> IsOpen(t)' \/ t = inner
  <2>1. \A i \in 1..m : i \in 1..(m - 1) \/ i = m
    <3>1. m \in Nat
      BY <1>4
    <3>. HIDE DEF m
    <3>. QED  BY <3>1
  <2>2. m \in 1..m /\ \A i \in 1..(m - 1) : i \in 1..m
    BY <1>2, <1>4
  <2>. QED  BY <1>4, <1>5, <1>6, <2>1, <2>2 DEF IsOpen
<1>9. \A i \in DOMAIN open' : open'[i] # inner
  <2>0. m \in Nat /\ m > 1
    BY <1>2, <1>4
  <2>. HIDE DEF m
  <2>1. ASSUME NEW i \in 1..(m - 1) PROVE open[i] # open[m]
    <3>1. i \in 1..m /\ m \in 1..m /\ i < m
      BY <2>0
    <3>2. open[i] < open[m] /\ open[m] \in Nat
      BY <1>4, <3>1 DEF Increasing
    <3>. QED  BY <3>2
  <2>. QED  BY <1>5, <1>6, <2>1
<1>10. ASSUME NEW CONSTANT s \in Walk!Nodes
       PROVE  Left(s, Met)' = IF s = outer THEN Left(outer, Met) \cup {inner} ELSE Left(s, Met)
  <2>1. Directly(inner, s) => s = outer
    <3>1. Directly(inner, s) => s <= outer /\ outer <= s
      BY <1>6 DEF Directly
    <3>2. s \in Nat /\ outer \in Nat
      BY <1>6 DEF Walk!Nodes
    <3>. QED  BY <3>1, <3>2
  <2>2. Left(s, Met)' = {t \in Walk!Spaces : Directly(t, s) /\ t <= Met /\ ~IsOpen(t)'}
    BY <1>1, <1>3 DEF Left
  <2>3. ASSUME NEW CONSTANT t
        PROVE  t \in Left(s, Met)' <=> t \in Left(s, Met) \/ (s = outer /\ t = inner)
    <3>1. CASE t = inner
      <4>1. ~IsOpen(t)'
        BY <1>9, <3>1 DEF IsOpen
      <4>2. IsOpen(t) /\ t \in Walk!Spaces /\ t <= Met /\ Directly(t, outer)
        BY <1>6, <1>8, <3>1
      <4>3. t \in Left(s, Met)' <=> Directly(t, s)
        BY <2>2, <4>1, <4>2
      <4>4. t \notin Left(s, Met)
        BY <4>2 DEF Left
      <4>. QED  BY <2>1, <3>1, <4>2, <4>3, <4>4
    <3>2. CASE t # inner
      BY <1>8, <2>2, <3>2 DEF Left
    <3>. QED  BY <3>1, <3>2
  <2>. QED  BY <2>3
<1>11. \A t : t = inner => ~IsOpen(t)'
  BY <1>9 DEF IsOpen
<1>. HIDE DEF IsOpen
<1>. QED  BY <1>8, <1>10, <1>11 DEF inner, outer

LEMMA ReportFinalizeInner ==
    ASSUME ReportInv, Walk!FinalizeInner
    PROVE  ReportInv'
<1>. DEFINE inner == Walk!Last(open)
            outer == Walk!Last(Walk!Front(open))
            m == Len(open)
<1>1. WalkInv' /\ Todo' = Todo /\ Met' = Met
  BY FinalizeInnerKeeps, StepsKeepTodo DEF ReportInv
<1>2. /\ UNCHANGED <<parent, kind, current, pc>> /\ pc = "finalize" /\ diff > 0 /\ m > 1
      /\ open' = Walk!Front(open) /\ diff' = diff - 1
      /\ spaces' = [spaces EXCEPT ![outer] = Append(@, inner)]
  BY DEF Walk!FinalizeInner, Walk!tree
<1>3. /\ Preorder' /\ Frontier(Todo, Met)' /\ Walk!Spaces' = Walk!Spaces
      /\ \A t : Around(t)' = Around(t)
      /\ \A t, s : Directly(t, s)' <=> Directly(t, s)
  BY <1>1, <1>2, SameLists DEF ReportInv
<1>4. /\ open \in Seq(Nat) /\ m \in Nat /\ DOMAIN open = 1..m /\ open # <<>> /\ Increasing(open)
      /\ diff \in Nat
  BY <1>2, MetIsNat DEF ReportInv, WalkInv, WalkTyped
<1>5. /\ DOMAIN open' = 1..(m - 1) /\ Len(open') = m - 1 /\ open' # <<>>
      /\ \A i \in 1..(m - 1) : open'[i] = open[i] /\ i \in DOMAIN open
  <2>1. /\ Walk!Front(open) \in Seq(Nat) /\ Len(Walk!Front(open)) = m - 1 /\ DOMAIN Walk!Front(open) = 1..(m - 1)
        /\ \A i \in 1..(m - 1) : Walk!Front(open)[i] = open[i] /\ i \in DOMAIN open
    BY <1>4, LastAndFront
  <2>. QED  BY <1>2, <1>4, <2>1
<1>6. /\ inner = open[m] /\ outer = open[m - 1] /\ inner \in Walk!Spaces /\ outer \in Walk!Nodes
      /\ inner \in Walk!Nodes /\ inner \in Nat /\ inner <= Met
      /\ Directly(inner, outer) /\ \A t \in Left(outer, Met) : t < inner
  BY <1>2, InnermostOpen
<1>. HIDE DEF inner, outer
<1>7. Chain'
  <2>. SUFFICES ASSUME NEW CONSTANT i \in 1..(m - 1)
                PROVE  /\ open[i] \in Walk!Spaces /\ open[i] <= Met
                       /\ Around(open[i]) = {open'[j] : j \in 1..(i - 1)}
                       /\ \A y \in open[i]..Met : open[i] \in Walk!PathTo(parent, y)
    BY <1>1, <1>2, <1>3, <1>5 DEF Chain
  <2>1. /\ open[i] \in Walk!Spaces /\ open[i] <= Met
        /\ Around(open[i]) = {open[j] : j \in 1..(i - 1)}
        /\ \A y \in open[i]..Met : open[i] \in Walk!PathTo(parent, y)
    BY <1>5 DEF ReportInv, Chain
  <2>2. \A j \in 1..(i - 1) : j \in 1..(m - 1)
    BY <1>4
  <2>3. \A j \in 1..(i - 1) : open'[j] = open[j]
    BY <1>5, <2>2
  <2>. QED  BY <2>1, <2>3
<1>10. \A s \in Walk!Nodes :
         Left(s, Met)' = IF s = outer THEN Left(outer, Met) \cup {inner} ELSE Left(s, Met)
  BY InnerIsLeft DEF inner, outer
<1>11. SpacesListed'
  <2>1. DOMAIN spaces = Walk!Nodes /\ \A s \in Walk!Nodes : Lists(spaces[s], Left(s, Met))
    BY DEF ReportInv, SpacesListed
  <2>2. DOMAIN spaces' = Walk!Nodes
    BY <1>2, <2>1
  <2>3. ASSUME NEW CONSTANT s \in Walk!Nodes PROVE Lists(spaces'[s], Left(s, Met)')
    <3>1. CASE s = outer
      <4>1. spaces'[s] = Append(spaces[outer], inner)
        BY <1>2, <2>1, <3>1
      <4>2. Lists(spaces[outer], Left(outer, Met))
        BY <1>6, <2>1
      <4>3. Lists(Append(spaces[outer], inner), Left(outer, Met) \cup {inner})
        BY <1>6, <4>2, ListsGrow
      <4>. QED  BY <1>10, <3>1, <4>1, <4>3
    <3>2. CASE s # outer
      <4>1. spaces'[s] = spaces[s]
        BY <1>2, <2>1, <3>2
      <4>. QED  BY <1>10, <2>1, <3>2, <4>1
    <3>. QED  BY <3>1, <3>2
  <2>. QED  BY <2>2, <2>3 DEF SpacesListed, Lists, Increasing
<1>12. Closing'
  <2>1. current = Walk!Nothing => diff > Len(open)
    <3>1. current = Walk!Nothing => diff > Len(open) \/ diff = 0
      BY <1>2 DEF ReportInv, Closing
    <3>. QED  BY <1>2, <1>4, <3>1
  <2>2. current = Walk!Nothing => diff' > Len(open')
    BY <1>2, <1>4, <1>5, <2>1
  <2>. QED  BY <1>2, <1>5, <2>2 DEF Closing
<1>. QED  BY <1>1, <1>3, <1>7, <1>11, <1>12 DEF ReportInv

(* A node is met: one that is a space opens, and none is closed.            *)
LEMMA VisitMeets ==
    ASSUME ReportInv, Walk!Visit
    PROVE  LET x == current.node
           IN  /\ Met + 1 = x /\ Met' = x /\ Frontier(Todo', x)
               /\ Met \in Nat /\ x \in Walk!Nodes /\ x \in Nat /\ x >= 1 /\ x <= SpaceNodes
               /\ Walk!Spaces' = Walk!Spaces /\ Preorder'
               /\ \A t : Around(t)' = Around(t)
               /\ \A t, s : Directly(t, s)' <=> Directly(t, s)
               /\ \A t : IsOpen(t)' <=> IsOpen(t) \/ (x \in Walk!Spaces /\ t = x)
               /\ \A s \in Walk!Nodes : Left(s, Met)' = Left(s, Met)
<1>. DEFINE x == current.node
            m == Len(open)
            below == IF x \in Walk!Spaces THEN current.level + 1 ELSE current.level
<1>1. /\ WalkInv' /\ WalkInv /\ TreeOk /\ Preorder /\ Arrived /\ WalkTyped /\ Frontier(Todo, Met)
      /\ SpaceNodes \in Nat
  BY VisitKeeps, MetIsNat DEF ReportInv, WalkInv, Walk!Visit
<1>2. /\ UNCHANGED <<parent, kind, current, spaces>> /\ pc = "visit" /\ pc' = "loop" /\ current # Walk!Nothing
      /\ open' = IF x \in Walk!Spaces THEN Append(open, x) ELSE open
      /\ stack' = stack \o [i \in DOMAIN Walk!Reverse(Walk!Children(x)) |->
                              [node |-> Walk!Reverse(Walk!Children(x))[i], level |-> below]]
  BY <1>1 DEF Walk!Visit, Walk!tree, WalkInv
<1>3. /\ stack \in Seq(Entries) /\ current \in Entries /\ below \in Nat
      /\ open \in Seq(Nat) /\ m \in Nat /\ DOMAIN open = 1..m
  BY <1>1 DEF WalkTyped, Entries
<1>4. /\ Todo = Append(stack, current) /\ Todo' = stack'
  BY <1>2 DEF Todo
<1>. HIDE DEF below
<1>5. Met + 1 = x /\ Frontier(Todo', x)
  <2>1. Frontier(Append(stack, current), Met)
    BY <1>1, <1>4
  <2>2. Met + 1 = x /\ Frontier(stack', Met + 1)
    BY <1>1, <1>2, <1>3, <2>1, FrontierVisit
  <2>. QED  BY <1>4, <2>2
<1>6. Met \in Nat /\ x \in Walk!Nodes /\ x \in Nat /\ x >= 1 /\ x <= SpaceNodes
  <2>1. current.node \in Walk!Nodes
    BY <1>1, <1>2 DEF Arrived, Fits
  <2>. QED  BY <1>1, <2>1, MetIsNat DEF Walk!Nodes, ReportInv
<1>7. Met' = x
  <2>1. Todo' # <<>> => Walk!Last(Todo').node = x + 1
    BY <1>1, <1>5, FrontierMeets
  <2>2. Todo' = <<>> => x = SpaceNodes
    BY <1>1, <1>5, FrontierMeets
  <2>. QED  BY <1>6, <2>1, <2>2 DEF Met
<1>8. /\ Walk!Spaces' = Walk!Spaces /\ Preorder'
      /\ \A t : Around(t)' = Around(t)
      /\ \A t, s : Directly(t, s)' <=> Directly(t, s)
  BY <1>1, <1>2 DEF Preorder, Walk!Spaces, Around, Directly
<1>9. \A t : IsOpen(t)' <=> IsOpen(t) \/ (x \in Walk!Spaces /\ t = x)
  <2>1. CASE x \in Walk!Spaces
    <3>1. /\ DOMAIN open' = 1..(m + 1) /\ open'[m + 1] = x
          /\ \A i \in 1..m : open'[i] = open[i]
      <4>1. /\ Len(Append(open, x)) = m + 1 /\ Append(open, x)[m + 1] = x
            /\ \A i \in 1..m : Append(open, x)[i] = open[i]
            /\ Append(open, x) \in Seq(Nat)
        BY <1>3, <1>6, AppendProperties
      <4>2. open' = Append(open, x)
        BY <1>2, <2>1
      <4>. QED  BY <4>1, <4>2
    <3>2. \A i \in 1..(m + 1) : i \in 1..m \/ i = m + 1
      BY <1>3
    <3>3. m + 1 \in 1..(m + 1) /\ \A i \in 1..m : i \in 1..(m + 1)
      BY <1>3
    <3>. QED  BY <1>3, <2>1, <3>1, <3>2, <3>3 DEF IsOpen
  <2>2. CASE x \notin Walk!Spaces
    <3>1. open' = open
      BY <1>2, <2>2
    <3>. QED  BY <2>2, <3>1 DEF IsOpen
  <2>. QED  BY <2>1, <2>2
<1>10. ASSUME NEW CONSTANT s \in Walk!Nodes PROVE Left(s, Met)' = Left(s, Met)
  <2>1. \A t \in Walk!Spaces : t \in Nat
    BY DEF Walk!Spaces, Walk!Nodes
  <2>2. \A t \in Nat : t # x => (t <= x <=> t <= Met)
    BY <1>5, <1>6
  <2>3. ~(x <= Met)
    BY <1>5, <1>6
  <2>. QED  BY <1>7, <1>8, <1>9, <2>1, <2>2, <2>3 DEF Left
<1>. QED  BY <1>5, <1>6, <1>7, <1>8, <1>9, <1>10

LEMMA ReportVisit ==
    ASSUME ReportInv, Walk!Visit
    PROVE  ReportInv'
<1>. DEFINE x == current.node
            m == Len(open)
            below == IF x \in Walk!Spaces THEN current.level + 1 ELSE current.level
<1>1. /\ WalkInv' /\ WalkInv /\ TreeOk /\ Preorder /\ Arrived /\ WalkTyped /\ Frontier(Todo, Met)
      /\ SpaceNodes \in Nat
  BY VisitKeeps, MetIsNat DEF ReportInv, WalkInv, Walk!Visit
<1>2. /\ UNCHANGED <<parent, kind, current, spaces>> /\ pc = "visit" /\ pc' = "loop" /\ current # Walk!Nothing
      /\ open' = IF x \in Walk!Spaces THEN Append(open, x) ELSE open
      /\ stack' = stack \o [i \in DOMAIN Walk!Reverse(Walk!Children(x)) |->
                              [node |-> Walk!Reverse(Walk!Children(x))[i], level |-> below]]
  BY <1>1 DEF Walk!Visit, Walk!tree, WalkInv
<1>3. /\ stack \in Seq(Entries) /\ current \in Entries /\ below \in Nat
      /\ open \in Seq(Nat) /\ m \in Nat /\ DOMAIN open = 1..m
  BY <1>1 DEF WalkTyped, Entries
<1>. HIDE DEF below
<1>5. /\ Met + 1 = x /\ Met' = x /\ Frontier(Todo', x)
      /\ Met \in Nat /\ x \in Walk!Nodes /\ x \in Nat /\ x >= 1 /\ x <= SpaceNodes
      /\ Walk!Spaces' = Walk!Spaces /\ Preorder'
      /\ \A t : Around(t)' = Around(t)
      /\ \A t, s : Directly(t, s)' <=> Directly(t, s)
      /\ \A s \in Walk!Nodes : Left(s, Met)' = Left(s, Met)
  BY VisitMeets
<1>6. Met \in Nat /\ x \in Walk!Nodes /\ x \in Nat /\ x >= 1 /\ x <= SpaceNodes
  BY <1>5
<1>7. Met' = x
  BY <1>5
<1>8. /\ Walk!Spaces' = Walk!Spaces /\ Preorder'
      /\ \A t : Around(t)' = Around(t)
      /\ \A t, s : Directly(t, s)' <=> Directly(t, s)
  BY <1>5
<1>9. Frontier(Todo, Met)'
  BY <1>2, <1>5, <1>7 DEF Frontier
<1>10. /\ {open[i] : i \in 1..m} = Around(x)
       /\ \A y \in Around(x) : y \in Walk!PathTo(parent, x)
  <2>1. {open[i] : i \in DOMAIN open} = Around(x)
    BY <1>1, <1>2, OpenIsAround DEF Lists
  <2>. QED  BY <1>1, <1>3, <1>6, <2>1, WhatIsAround
<1>11. ASSUME NEW CONSTANT i \in 1..m
       PROVE  /\ open[i] \in Walk!Spaces /\ open[i] <= x
              /\ Around(open[i]) = {open[j] : j \in 1..(i - 1)}
              /\ \A y \in open[i]..x : open[i] \in Walk!PathTo(parent, y)
  <2>1. /\ open[i] \in Walk!Spaces /\ open[i] <= Met
        /\ Around(open[i]) = {open[j] : j \in 1..(i - 1)}
        /\ \A y \in open[i]..Met : open[i] \in Walk!PathTo(parent, y)
    BY <1>3 DEF ReportInv, Chain
  <2>2. open[i] \in Walk!PathTo(parent, x)
    BY <1>10
  <2>3. open[i] \in Nat
    BY <1>3
  <2>4. \A y \in open[i]..x : y = x \/ y \in open[i]..Met
    BY <1>5, <1>6, <2>3
  <2>5. open[i] <= x
    BY <1>5, <1>6, <2>1, <2>3
  <2>. QED  BY <2>1, <2>2, <2>4, <2>5
<1>12. CASE x \in Walk!Spaces
  <2>1. /\ DOMAIN open' = 1..(m + 1) /\ open'[m + 1] = x /\ open' # <<>>
        /\ \A i \in 1..m : open'[i] = open[i]
    <3>1. /\ Append(open, x) # <<>> /\ Len(Append(open, x)) = m + 1 /\ Append(open, x)[m + 1] = x
          /\ \A i \in 1..m : Append(open, x)[i] = open[i]
          /\ Append(open, x) \in Seq(Nat)
      BY <1>3, <1>6, AppendProperties
    <3>2. open' = Append(open, x)
      BY <1>2, <1>12
    <3>. QED  BY <3>1, <3>2
  <2>2. \A i \in 1..(m + 1) : i \in 1..m \/ i = m + 1
    BY <1>3
  <2>3. Chain'
    <3>. SUFFICES ASSUME NEW CONSTANT i \in 1..(m + 1)
                  PROVE  /\ open'[i] \in Walk!Spaces /\ open'[i] <= x
                         /\ Around(open'[i]) = {open'[j] : j \in 1..(i - 1)}
                         /\ \A y \in open'[i]..x : open'[i] \in Walk!PathTo(parent, y)
      BY <1>2, <1>7, <1>8, <2>1 DEF Chain
    <3>1. \A j \in 1..(i - 1) : j \in 1..m
      BY <1>3
    <3>2. {open'[j] : j \in 1..(i - 1)} = {open[j] : j \in 1..(i - 1)}
      BY <2>1, <3>1
    <3>3. CASE i \in 1..m
      BY <1>11, <2>1, <3>2, <3>3
    <3>4. CASE i = m + 1
      <4>1. {open[j] : j \in 1..(i - 1)} = Around(x)
        BY <1>3, <1>10, <3>4
      <4>2. \A y \in x..x : y = x
        BY <1>6
      <4>3. x \in Walk!PathTo(parent, x)
        BY <1>1, <1>6, PathHasNodes
      <4>4. open'[i] = x
        BY <2>1, <3>4
      <4>5. Around(x) = {open'[j] : j \in 1..(i - 1)}
        BY <3>2, <4>1
      <4>. HIDE DEF x
      <4>. QED  BY <1>6, <1>12, <4>2, <4>3, <4>4, <4>5
    <3>. QED  BY <2>2, <3>3, <3>4
  <2>6. SpacesListed'
    BY <1>2, <1>5 DEF ReportInv, SpacesListed
  <2>7. Closing'
    BY <1>2, <2>1 DEF Closing
  <2>. QED  BY <1>1, <1>8, <1>9, <2>3, <2>6, <2>7 DEF ReportInv
<1>13. CASE x \notin Walk!Spaces
  <2>1. open' = open
    BY <1>2, <1>13
  <2>2. Chain'
    <3>. SUFFICES ASSUME NEW CONSTANT i \in 1..m
                  PROVE  /\ open[i] \in Walk!Spaces /\ open[i] <= x
                         /\ Around(open[i]) = {open[j] : j \in 1..(i - 1)}
                         /\ \A y \in open[i]..x : open[i] \in Walk!PathTo(parent, y)
      <4>1. DOMAIN open' = 1..m /\ parent' = parent
        BY <1>2, <1>3, <2>1
      <4>. HIDE DEF x, m
      <4>. QED  BY <1>7, <1>8, <2>1, <4>1 DEF Chain
    <3>. QED  BY <1>11
  <2>4. SpacesListed'
    BY <1>2, <1>5 DEF ReportInv, SpacesListed
  <2>5. open # <<>>
    <3>1. x # 1
      BY <1>1, <1>13 DEF TreeOk
    <3>. QED  BY <1>2, <1>5, <1>6, <3>1 DEF ReportInv, Closing
  <2>6. Closing'
    BY <1>2, <2>1, <2>5 DEF Closing
  <2>. QED  BY <1>1, <1>8, <1>9, <2>2, <2>4, <2>6 DEF ReportInv
<1>. QED  BY <1>12, <1>13

LEMMA ReportNext ==
    ASSUME ReportInv, Walk!Next
    PROVE  ReportInv'
BY ReportPop, ReportDrained, ReportFinalizeLast, ReportFinalizeInner, ReportFinalized, ReportReturn,
   ReportVisit DEF Walk!Next

LEMMA ReportStutters ==
    ASSUME ReportInv, UNCHANGED Walk!vars
    PROVE  ReportInv'
<1>1. UNCHANGED <<parent, kind, stack, open, current, diff, spaces, root, pc>>
  BY DEF Walk!vars, Walk!tree, Walk!walk
<1>2. Todo' = Todo /\ Met' = Met
  BY <1>1 DEF Todo, Met
<1>3. Closing'
  BY <1>1, <1>2 DEF ReportInv, Closing
<1>. QED  BY <1>1, <1>2, <1>3, WalkStutters, ReportQuiet DEF ReportInv

-----------------------------------------------------------------------------
(* The report.                                                              *)

(* collect_functions or collect_classes at one space, g giving what is      *)
(* collected from the spaces in it.                                         *)
Gather(g, k, s) ==
    Walk!FoldLeft(LAMBDA out, c : out \o (IF kind[c] = k THEN <<c>> ELSE <<>>) \o g[c], <<>>, s)

GatherStep(g, k, s, it, S) ==
    IF S = {} THEN <<>>
    ELSE it[S \ {Walk!Max(S)}] \o (IF kind[s[Walk!Max(S)]] = k THEN <<s[Walk!Max(S)]>> ELSE <<>>) \o g[s[Walk!Max(S)]]

LEMMA MaxIs ==
    ASSUME NEW S \in SUBSET Nat, NEW m \in S, \A y \in S : y <= m
    PROVE  Walk!Max(S) = m
<1>1. \E x \in S : \A y \in S : x >= y
  BY DEF Walk!Max
<1>2. Walk!Max(S) \in S /\ \A y \in S : Walk!Max(S) >= y
  BY <1>1 DEF Walk!Max
<1>3. Walk!Max(S) \in Nat /\ m \in Nat /\ Walk!Max(S) >= m /\ Walk!Max(S) <= m
  BY <1>2
<1>. QED  BY <1>3

LEMMA GatherOnSets ==
    ASSUME NEW g, NEW k, NEW s, NEW n \in Nat
    PROVE  \E it : it = [S \in SUBSET (1..n) |-> GatherStep(g, k, s, it, S)]
<1>. DEFINE T == {m \in Nat : \E it : it = [S \in SUBSET (1..m) |-> GatherStep(g, k, s, it, S)]}
<1>1. 0 \in T
  <2>. DEFINE it == [S \in SUBSET (1..0) |-> <<>>]
  <2>1. \A S \in SUBSET (1..0) : S = {}
    OBVIOUS
  <2>2. \A S \in SUBSET (1..0) : GatherStep(g, k, s, it, S) = <<>>
    BY <2>1 DEF GatherStep
  <2>. HIDE DEF it
  <2>3. it = [S \in SUBSET (1..0) |-> GatherStep(g, k, s, it, S)]
    BY <2>2 DEF it
  <2>. QED  BY <2>3
<1>2. ASSUME NEW m \in 0..(n - 1), m \in T PROVE m + 1 \in T
  <2>1. PICK g0 : g0 = [S \in SUBSET (1..m) |-> GatherStep(g, k, s, g0, S)]
    BY <1>2
  <2>2. m \in Nat /\ m + 1 \in Nat
    OBVIOUS
  <2>. DEFINE h == [S \in SUBSET (1..(m + 1)) |->
                      IF m + 1 \in S
                      THEN g0[S \ {m + 1}]
                             \o (IF kind[s[m + 1]] = k THEN <<s[m + 1]>> ELSE <<>>) \o g[s[m + 1]]
                      ELSE g0[S]]
  <2>3. \A S \in SUBSET (1..(m + 1)) :
          /\ S \ {m + 1} \in SUBSET (1..m) /\ S \in SUBSET Nat
          /\ m + 1 \notin S => S \in SUBSET (1..m)
          /\ \A y \in S : y <= m + 1
    <3>1. \A y \in 1..(m + 1) : y \in Nat /\ y <= m + 1 /\ (y # m + 1 => y \in 1..m)
      BY <2>2
    <3>. QED  BY <3>1
  <2>4. \A S \in SUBSET (1..m) : S \in SUBSET (1..(m + 1)) /\ m + 1 \notin S
    <3>1. \A y \in 1..m : y \in 1..(m + 1) /\ y # m + 1
      BY <2>2
    <3>. QED  BY <3>1
  <2>5. \A S \in SUBSET (1..m) : h[S] = g0[S]
    BY <2>4
  <2>6. ASSUME NEW S \in SUBSET (1..(m + 1)) PROVE h[S] = GatherStep(g, k, s, h, S)
    <3>1. CASE m + 1 \in S
      <4>1. Walk!Max(S) = m + 1
        BY <2>3, <3>1, MaxIs
      <4>2. h[S \ {m + 1}] = g0[S \ {m + 1}]
        BY <2>3, <2>5
      <4>3. h[S] = g0[S \ {m + 1}]
                     \o (IF kind[s[m + 1]] = k THEN <<s[m + 1]>> ELSE <<>>) \o g[s[m + 1]]
        BY <3>1
      <4>. HIDE DEF h
      <4>. QED  BY <3>1, <4>1, <4>2, <4>3 DEF GatherStep
    <3>2. CASE m + 1 \notin S /\ S # {}
      <4>1. S \in SUBSET (1..m) /\ h[S] = g0[S]
        BY <2>3, <2>5, <3>2
      <4>2. S \ {Walk!Max(S)} \in SUBSET (1..m)
        BY <4>1
      <4>3. h[S \ {Walk!Max(S)}] = g0[S \ {Walk!Max(S)}]
        BY <2>5, <4>2
      <4>4. g0[S] = GatherStep(g, k, s, g0, S)
        BY <2>1, <4>1
      <4>. HIDE DEF h
      <4>. QED  BY <3>2, <4>1, <4>3, <4>4 DEF GatherStep
    <3>3. CASE S = {}
      <4>1. S \in SUBSET (1..m) /\ h[S] = g0[S]
        BY <2>5, <3>3
      <4>2. g0[S] = GatherStep(g, k, s, g0, S)
        BY <2>1, <4>1
      <4>. HIDE DEF h
      <4>. QED  BY <3>3, <4>1, <4>2 DEF GatherStep
    <3>. QED  BY <3>1, <3>2, <3>3
  <2>7. h = [S \in SUBSET (1..(m + 1)) |-> h[S]]
    OBVIOUS
  <2>. HIDE DEF h
  <2>8. h = [S \in SUBSET (1..(m + 1)) |-> GatherStep(g, k, s, h, S)]
    BY <2>6, <2>7
  <2>. QED  BY <2>2, <2>8
<1>. HIDE DEF T
<1>3. n \in T
  <2>1. n \in 0..n
    OBVIOUS
  <2>. QED  BY <1>1, <1>2, <2>1, CountingUp
<1>. QED  BY <1>3 DEF T

(* A fold over a sequence goes through its prefixes.                        *)
GatherRun(g, k, s, it) ==
    /\ it[0] = <<>> /\ Gather(g, k, s) = it[Len(s)]
    /\ \A j \in 1..Len(s) :
         it[j] = it[j - 1] \o (IF kind[s[j]] = k THEN <<s[j]>> ELSE <<>>) \o g[s[j]]

LEMMA GatherUnfolds ==
    ASSUME NEW g, NEW k, NEW s \in Seq(Nat)
    PROVE  \E it : GatherRun(g, k, s, it)
<1>. DEFINE n == Len(s)
            sets == CHOOSE it : it = [S \in SUBSET DOMAIN s |-> GatherStep(g, k, s, it, S)]
            upTo == [j \in 0..n |-> sets[1..j]]
<1>1. n \in Nat /\ DOMAIN s = 1..n
  OBVIOUS
<1>2. Gather(g, k, s) = sets[DOMAIN s]
  BY DEF Gather, Walk!FoldLeft, Walk!MapThenFoldSet, GatherStep
<1>3. sets = [S \in SUBSET DOMAIN s |-> GatherStep(g, k, s, sets, S)]
  BY <1>1, GatherOnSets
<1>. HIDE DEF n, sets
<1>4. upTo[0] = <<>>
  <2>1. 0 \in 0..n /\ 1..0 = {} /\ {} \in SUBSET DOMAIN s
    BY <1>1
  <2>2. sets[{}] = GatherStep(g, k, s, sets, {})
    BY <1>3, <2>1
  <2>3. sets[{}] = <<>>
    BY <2>2 DEF GatherStep
  <2>4. upTo[0] = sets[1..0]
    BY <2>1
  <2>. QED  BY <2>1, <2>3, <2>4
<1>5. ASSUME NEW j \in 1..n
      PROVE  upTo[j] = upTo[j - 1] \o (IF kind[s[j]] = k THEN <<s[j]>> ELSE <<>>) \o g[s[j]]
  <2>1. /\ j \in Nat /\ j >= 1 /\ j \in 0..n /\ j - 1 \in 0..n /\ 1..j \in SUBSET (1..n) /\ j \in 1..j
        /\ 1..j \in SUBSET Nat /\ \A y \in 1..j : y <= j
    BY <1>1
  <2>2. Walk!Max(1..j) = j
    BY <2>1, MaxIs
  <2>3. (1..j) \ {j} = 1..(j - 1)
    BY <2>1
  <2>4. sets[1..j] = GatherStep(g, k, s, sets, 1..j)
    BY <1>1, <1>3, <2>1
  <2>5. 1..j # {}
    BY <2>1
  <2>6. sets[1..j] = sets[1..(j - 1)] \o (IF kind[s[j]] = k THEN <<s[j]>> ELSE <<>>) \o g[s[j]]
    BY <2>2, <2>3, <2>4, <2>5 DEF GatherStep
  <2>7. upTo[j] = sets[1..j] /\ upTo[j - 1] = sets[1..(j - 1)]
    BY <2>1
  <2>. HIDE DEF upTo
  <2>. QED  BY <2>6, <2>7
<1>6. upTo[n] = sets[DOMAIN s]
  <2>1. n \in 0..n
    BY <1>1
  <2>. QED  BY <1>1, <2>1
<1>. HIDE DEF upTo
<1>. QED  BY <1>2, <1>4, <1>5, <1>6 DEF n, GatherRun

(* What is below a space, in source order.                                  *)
Below(x, k) == {t \in Walk!Nodes : kind[t] = k /\ x \in Around(t)}

LEMMA ListsJoin ==
    ASSUME NEW a, NEW A, NEW b, NEW B, Lists(a, A), Lists(b, B), \A x \in A, y \in B : x < y
    PROVE  Lists(a \o b, A \cup B)
<1>. DEFINE c == a \o b
            m == Len(a)
            n == Len(b)
<1>1. /\ a \in Seq(Nat) /\ b \in Seq(Nat) /\ m \in Nat /\ n \in Nat
      /\ DOMAIN a = 1..m /\ DOMAIN b = 1..n
      /\ Increasing(a) /\ Increasing(b)
      /\ A = {a[i] : i \in 1..m} /\ B = {b[i] : i \in 1..n}
  BY DEF Lists
<1>2. /\ c \in Seq(Nat) /\ Len(c) = m + n /\ DOMAIN c = 1..(m + n)
      /\ \A i \in 1..(m + n) : c[i] = IF i <= m THEN a[i] ELSE b[i - m]
  BY <1>1
<1>. HIDE DEF c, m, n
<1>3. \A i \in 1..(m + n) :
        /\ i \in Nat
        /\ \/ i <= m /\ i \in 1..m /\ c[i] = a[i]
           \/ i > m /\ i - m \in 1..n /\ c[i] = b[i - m]
  BY <1>1, <1>2
<1>4. ASSUME NEW i \in 1..(m + n), NEW j \in 1..(m + n), i < j
      PROVE  c[i] < c[j]
  <2>1. CASE j <= m
    <3>1. i \in 1..m /\ j \in 1..m /\ c[i] = a[i] /\ c[j] = a[j]
      BY <1>1, <1>3, <1>4, <2>1
    <3>. QED  BY <1>1, <1>4, <3>1 DEF Increasing
  <2>2. CASE i <= m /\ j > m
    <3>1. i \in 1..m /\ c[i] = a[i] /\ j - m \in 1..n /\ c[j] = b[j - m]
      BY <1>1, <1>3, <2>2
    <3>2. c[i] \in A /\ c[j] \in B
      BY <1>1, <3>1
    <3>. QED  BY <3>2
  <2>3. CASE i > m
    <3>1. /\ i - m \in 1..n /\ c[i] = b[i - m] /\ j - m \in 1..n /\ c[j] = b[j - m]
          /\ i - m < j - m
      BY <1>1, <1>3, <1>4, <2>3
    <3>. QED  BY <1>1, <3>1 DEF Increasing
  <2>. QED  BY <1>1, <1>3, <2>1, <2>2, <2>3
<1>5. {c[i] : i \in 1..(m + n)} = A \cup B
  <2>1. \A i \in 1..(m + n) : c[i] \in A \cup B
    BY <1>1, <1>3
  <2>2. ASSUME NEW i \in 1..m PROVE \E j \in 1..(m + n) : c[j] = a[i]
    <3>1. i \in 1..(m + n) /\ i <= m
      BY <1>1
    <3>. QED  BY <1>2, <3>1
  <2>3. ASSUME NEW i \in 1..n PROVE \E j \in 1..(m + n) : c[j] = b[i]
    <3>1. m + i \in 1..(m + n) /\ ~(m + i <= m) /\ (m + i) - m = i
      BY <1>1
    <3>2. c[m + i] = b[i]
      BY <1>2, <3>1
    <3>. QED  BY <3>1, <3>2
  <2>4. \A y \in A \cup B : \E j \in 1..(m + n) : c[j] = y
    BY <1>1, <2>2, <2>3
  <2>. QED  BY <2>1, <2>4
<1>. QED  BY <1>2, <1>4, <1>5 DEF Lists, Increasing, c

(* What is directly in a space, and what is below that, is what is below it.*)
LEMMA BelowIsBelow ==
    ASSUME TreeOk, Preorder, NEW x \in Walk!Nodes, NEW t \in Walk!Spaces
    PROVE  x \in Around(t)
             <=> \E c \in Walk!Spaces : Directly(c, x) /\ (t = c \/ c \in Around(t))
<1>1. t \in Walk!Nodes /\ Walk!Spaces \subseteq Walk!Nodes /\ x \in Nat /\ Walk!Spaces \subseteq Nat
  BY DEF Walk!Spaces, Walk!Nodes
<1>2. /\ t \in Nat /\ t \in Walk!PathTo(parent, t) /\ SpaceNodes \in Nat /\ t \in 0..SpaceNodes
      /\ \A y \in Walk!PathTo(parent, t) : Walk!PathTo(parent, y) = Walk!PathTo(parent, t) \cap (1..y)
  BY <1>1, ParentIsNode, PathHasNodes, PathOfAbove
<1>3. ASSUME NEW c \in Around(t)
      PROVE  /\ c \in Walk!Spaces /\ c \in Walk!Nodes /\ c \in Nat /\ c < t
             /\ \A y \in Walk!Spaces : y \in Around(c) <=> y \in Around(t) /\ y < c
  <2>1. c \in Walk!Spaces /\ c \in Walk!Nodes /\ c \in Nat /\ c < t /\ c \in Walk!PathTo(parent, t)
    BY <1>1, WhatIsAround
  <2>2. Walk!PathTo(parent, c) = Walk!PathTo(parent, t) \cap (1..c)
    BY <1>2, <2>1
  <2>3. ASSUME NEW y \in Walk!Spaces, y \in Around(c) PROVE y \in Around(t) /\ y < c
    <3>1. y \in Nat /\ y < c /\ y \in Walk!PathTo(parent, c)
      BY <2>1, <2>3, WhatIsAround
    <3>2. y \in Walk!PathTo(parent, t) /\ y # t
      BY <1>2, <2>1, <2>2, <3>1
    <3>. QED  BY <1>1, <3>1, <3>2, WhatIsAround
  <2>4. ASSUME NEW y \in Walk!Spaces, y \in Around(t), y < c PROVE y \in Around(c)
    <3>1. y \in Walk!Nodes /\ y \in Nat /\ y >= 1 /\ y \in Walk!PathTo(parent, t)
      BY <1>1, <2>4, WhatIsAround DEF Walk!Nodes
    <3>2. y \in Walk!PathTo(parent, c) /\ y # c
      BY <2>1, <2>2, <2>4, <3>1
    <3>. QED  BY <2>1, <3>2, WhatIsAround
  <2>. QED  BY <2>1, <2>3, <2>4
<1>4. ASSUME NEW c \in Walk!Spaces, Directly(c, x), t = c \/ c \in Around(t)
      PROVE  x \in Around(t)
  <2>1. x \in Around(c) /\ x \in Walk!Spaces
    BY <1>1, <1>4, WhatIsAround DEF Directly
  <2>. QED  BY <1>3, <1>4, <2>1
<1>5. ASSUME x \in Around(t)
      PROVE  \E c \in Walk!Spaces : Directly(c, x) /\ (t = c \/ c \in Around(t))
  <2>. DEFINE Between == {c \in Around(t) : c > x}
  <2>1. CASE Between = {}
    <3>1. \A y \in Around(t) : y <= x
      BY <1>1, <1>3, <2>1
    <3>. QED  BY <1>5, <3>1 DEF Directly
  <2>2. CASE Between # {}
    <3>1. PICK c \in Between : \A y \in Between : c <= y
      <4>1. Between \subseteq Nat
        BY <1>3
      <4>. HIDE DEF Between
      <4>. QED  BY <2>2, <4>1, LeastExists
    <3>2. c \in Around(t) /\ c > x /\ c \in Nat /\ c \in Walk!Spaces /\ x \in Walk!Spaces
      BY <1>3, <1>5
    <3>3. x \in Around(c)
      BY <1>1, <1>3, <1>5, <3>2
    <3>4. ASSUME NEW y \in Around(c) PROVE y <= x
      <4>1. y \in Walk!Spaces /\ y \in Nat
        BY <1>3, <3>2, WhatIsAround
      <4>2. y \in Around(t) /\ y < c
        BY <1>3, <3>2, <4>1
      <4>. QED  BY <1>1, <3>1, <3>2, <4>1, <4>2
    <3>. QED  BY <3>2, <3>3, <3>4 DEF Directly
  <2>. QED  BY <2>1, <2>2
<1>. QED  BY <1>4, <1>5

(* A space collects what is below it when the spaces in it do.              *)
LEMMA GatherRight ==
    ASSUME TreeOk, Preorder, NEW x \in Walk!Nodes, NEW k \in Walk!SpaceKinds, NEW g, NEW s,
           Lists(s, {t \in Walk!Spaces : Directly(t, x)}),
           \A i \in DOMAIN s : Lists(g[s[i]], Below(s[i], k))
    PROVE  Lists(Gather(g, k, s), Below(x, k))
<1>. DEFINE n == Len(s)
            Part(j) == {t \in Walk!Nodes : /\ kind[t] = k
                                           /\ \E i \in 1..j : t = s[i] \/ s[i] \in Around(t)}
            own(j) == IF kind[s[j]] = k THEN <<s[j]>> ELSE <<>>
<1>1. /\ s \in Seq(Nat) /\ n \in Nat /\ DOMAIN s = 1..n /\ Increasing(s)
      /\ {s[i] : i \in 1..n} = {t \in Walk!Spaces : Directly(t, x)}
  BY DEF Lists
<1>2. PICK it : /\ it[0] = <<>> /\ Gather(g, k, s) = it[n]
                /\ \A j \in 1..n : it[j] = it[j - 1] \o own(j) \o g[s[j]]
  <2>1. PICK it : GatherRun(g, k, s, it)
    BY <1>1, GatherUnfolds
  <2>. QED  BY <2>1 DEF GatherRun
<1>. HIDE DEF n
<1>3. \A i \in 1..n : s[i] \in Walk!Spaces /\ s[i] \in Walk!Nodes /\ s[i] \in Nat /\ Directly(s[i], x)
  BY <1>1 DEF Walk!Spaces
<1>4. \A t \in Walk!Nodes : kind[t] = k => t \in Walk!Spaces
  BY DEF Walk!Spaces
<1>5. Lists(it[0], Part(0))
  <2>1. Part(0) = {}
    OBVIOUS
  <2>2. Lists(<<>>, {})
    BY DEF Lists, Increasing
  <2>. QED  BY <1>2, <2>1, <2>2
<1>6. ASSUME NEW j \in 1..n, Lists(it[j - 1], Part(j - 1))
      PROVE  Lists(it[j], Part(j))
  <2>. DEFINE c == s[j]
              Own == {t \in Walk!Nodes : kind[t] = k /\ t = c}
  <2>1. /\ c \in Walk!Spaces /\ c \in Walk!Nodes /\ c \in Nat /\ x \in Nat /\ x \in Around(c)
        /\ \A y \in Around(c) : y <= x
    BY <1>3 DEF Directly, Walk!Nodes
  <2>2. Lists(own(j), Own)
    <3>1. CASE kind[c] = k
      <4>1. Own = {c} /\ own(j) = <<c>>
        BY <2>1, <3>1
      <4>2. Lists(<<c>>, {c})
        <5>. HIDE DEF c
        <5>. QED  BY <2>1 DEF Lists, Increasing
      <4>. QED  BY <4>1, <4>2
    <3>2. CASE kind[c] # k
      <4>1. Own = {} /\ own(j) = <<>>
        BY <3>2
      <4>2. Lists(<<>>, {})
        BY DEF Lists, Increasing
      <4>. QED  BY <4>1, <4>2
    <3>. QED  BY <3>1, <3>2
  <2>3. ASSUME NEW y \in Part(j - 1) PROVE y \in Nat /\ y < c
    <3>1. PICK i \in 1..(j - 1) : y = s[i] \/ s[i] \in Around(y)
      OBVIOUS
    <3>2. i \in 1..n /\ i < j /\ j \in DOMAIN s /\ i \in DOMAIN s
      BY <1>1
    <3>3. s[i] < c /\ s[i] \in Nat /\ s[i] \in Walk!Spaces /\ x \in Around(s[i]) /\ s[i] \in Walk!Nodes
      BY <1>1, <1>3, <3>2 DEF Increasing, Directly
    <3>4. x < s[i]
      BY <3>3, WhatIsAround
    <3>5. y \in Walk!Nodes /\ y \in Nat /\ y \in 0..SpaceNodes
      BY ParentIsNode
    <3>6. ASSUME s[i] \in Around(y), c <= y PROVE FALSE
      <4>1. s[i] \in Walk!PathTo(parent, y)
        BY <3>5, <3>6, WhatIsAround
      <4>2. c \in s[i]..y
        BY <2>1, <3>3, <3>5, <3>6
      <4>3. s[i] \in Walk!PathTo(parent, c)
        BY <3>5, <4>1, <4>2, OnePiece
      <4>4. s[i] \in Around(c)
        BY <2>1, <3>3, <4>3, WhatIsAround
      <4>. QED  BY <2>1, <3>3, <3>4, <4>4
    <3>. QED  BY <2>1, <3>1, <3>3, <3>5, <3>6
  <2>4. Lists(g[c], Below(c, k)) /\ \A y \in Below(c, k) : y \in Nat /\ c < y
    <3>1. \A y \in Walk!Nodes : c \in Around(y) => y \in Nat /\ c < y
      BY WhatIsAround
    <3>. QED  BY <1>1, <3>1 DEF Below
  <2>5. Lists(it[j - 1] \o own(j), Part(j - 1) \cup Own)
    <3>. HIDE DEF Part, own, c
    <3>1. \A y \in Part(j - 1), z \in Own : y < z
      BY <2>3
    <3>. HIDE DEF Own
    <3>. QED  BY <1>6, <2>2, <3>1, ListsJoin
  <2>6. Lists((it[j - 1] \o own(j)) \o g[c], (Part(j - 1) \cup Own) \cup Below(c, k))
    <3>. HIDE DEF Part, own, c
    <3>1. \A y \in Part(j - 1) \cup Own, z \in Below(c, k) : y < z
      BY <2>1, <2>3, <2>4
    <3>. HIDE DEF Own
    <3>. QED  BY <2>4, <2>5, <3>1, ListsJoin
  <2>7. (Part(j - 1) \cup Own) \cup Below(c, k) = Part(j)
    <3>1. \A i \in 1..j : i \in 1..(j - 1) \/ i = j
      OBVIOUS
    <3>2. j \in 1..j /\ \A i \in 1..(j - 1) : i \in 1..j
      OBVIOUS
    <3>3. ASSUME NEW t \in Walk!Nodes
          PROVE  (\E i \in 1..j : t = s[i] \/ s[i] \in Around(t))
                   <=> \/ \E i \in 1..(j - 1) : t = s[i] \/ s[i] \in Around(t)
                       \/ t = c \/ c \in Around(t)
      BY <3>1, <3>2
    <3>. QED  BY <3>3 DEF Below
  <2>. QED  BY <1>2, <2>6, <2>7
<1>7. Lists(it[n], Part(n))
  <2>. DEFINE T == {j \in 0..n : Lists(it[j], Part(j))}
  <2>1. 0 \in T
    <3>. HIDE DEF Part
    <3>. QED  BY <1>1, <1>5
  <2>2. ASSUME NEW j \in 0..(n - 1), j \in T PROVE j + 1 \in T
    <3>1. j + 1 \in 1..n /\ (j + 1) - 1 = j /\ j + 1 \in 0..n
      BY <1>1
    <3>2. Lists(it[j], Part(j))
      BY <2>2
    <3>. HIDE DEF Part
    <3>3. Lists(it[j + 1], Part(j + 1))
      BY <1>6, <3>1, <3>2
    <3>. QED  BY <3>1, <3>3
  <2>3. n \in 0..n
    BY <1>1
  <2>. HIDE DEF T
  <2>4. n \in T
    BY <1>1, <2>1, <2>2, <2>3, CountingUp
  <2>. QED  BY <2>4 DEF T
<1>8. Part(n) = Below(x, k)
  <2>1. ASSUME NEW t \in Walk!Nodes, kind[t] = k
        PROVE  (\E i \in 1..n : t = s[i] \/ s[i] \in Around(t)) <=> x \in Around(t)
    <3>1. x \in Around(t) <=> \E c \in Walk!Spaces : Directly(c, x) /\ (t = c \/ c \in Around(t))
      BY <1>4, <2>1, BelowIsBelow
    <3>2. \A c : c \in Walk!Spaces /\ Directly(c, x) <=> \E i \in 1..n : c = s[i]
      BY <1>1
    <3>. QED  BY <3>1, <3>2
  <2>. QED  BY <2>1 DEF Below
<1>. QED  BY <1>2, <1>7, <1>8

(* What the report collects is what is below the file.                      *)
LEMMA CollectedIsBelow ==
    ASSUME TreeOk, Preorder, NEW k \in Walk!SpaceKinds, DOMAIN spaces = Walk!Nodes,
           \A x \in Walk!Nodes : Lists(spaces[x], {t \in Walk!Spaces : Directly(t, x)})
    PROVE  \A x \in Walk!Nodes : Walk!Collected(x, k) = Walk!InSourceOrder(Below(x, k))
<1>. DEFINE Def(g) == g = [x \in Walk!Nodes |-> Gather(g, k, spaces[x])]
            collect == CHOOSE g : Def(g)
            h == [x \in Walk!Nodes |-> Walk!InSourceOrder(Below(x, k))]
<1>1. ASSUME NEW x \in Walk!Nodes
      PROVE  /\ spaces[x] \in Seq(Nat)
             /\ \A i \in DOMAIN spaces[x] :
                  spaces[x][i] \in Walk!Nodes /\ spaces[x][i] \in Nat /\ x < spaces[x][i]
  <2>1. /\ spaces[x] \in Seq(Nat)
        /\ {spaces[x][i] : i \in DOMAIN spaces[x]} = {t \in Walk!Spaces : Directly(t, x)}
    BY DEF Lists
  <2>2. ASSUME NEW i \in DOMAIN spaces[x]
        PROVE  spaces[x][i] \in Walk!Nodes /\ spaces[x][i] \in Nat /\ x < spaces[x][i]
    <3>1. spaces[x][i] \in Walk!Spaces /\ x \in Around(spaces[x][i])
      BY <2>1 DEF Directly
    <3>2. spaces[x][i] \in Walk!Nodes
      BY <3>1 DEF Walk!Spaces
    <3>. QED  BY <3>1, <3>2, WhatIsAround
  <2>. QED  BY <2>1, <2>2
<1>2. \A x \in Walk!Nodes : Lists(Walk!InSourceOrder(Below(x, k)), Below(x, k))
  <2>1. \A x \in Walk!Nodes : Below(x, k) \cap Walk!Nodes = Below(x, k)
    BY DEF Below
  <2>. QED  BY <2>1, InSourceOrderLists
<1>3. ASSUME NEW g, NEW x \in Walk!Nodes,
             \A i \in DOMAIN spaces[x] : g[spaces[x][i]] = h[spaces[x][i]]
      PROVE  Gather(g, k, spaces[x]) = h[x]
  <2>1. \A i \in DOMAIN spaces[x] : Lists(g[spaces[x][i]], Below(spaces[x][i], k))
    BY <1>1, <1>2, <1>3
  <2>2. Lists(Gather(g, k, spaces[x]), Below(x, k))
    BY <2>1, GatherRight
  <2>. QED  BY <1>2, <2>2, OneList
<1>4. \E g : Def(g)
  <2>1. \A x \in Walk!Nodes : h[x] = Gather(h, k, spaces[x])
    <3>. HIDE DEF h
    <3>. QED  BY <1>3
  <2>2. h = [x \in Walk!Nodes |-> h[x]]
    OBVIOUS
  <2>. HIDE DEF h
  <2>3. Def(h)
    BY <2>1, <2>2
  <2>. QED  BY <2>3
<1>5. Def(collect)
  BY <1>4
<1>6. \A x \in Walk!Nodes : Walk!Collected(x, k) = collect[x]
  <2>1. \A x \in Walk!Nodes : x # 0
    BY DEF Walk!Nodes
  <2>. QED  BY <2>1 DEF Walk!Collected, Gather
<1>. HIDE DEF collect
<1>7. \A x \in Walk!Nodes : collect[x] = Gather(collect, k, spaces[x])
  BY <1>5
<1>8. ASSUME NEW n \in Nat, n <= SpaceNodes,
             \A y \in Walk!Nodes : y > SpaceNodes - n => collect[y] = h[y]
      PROVE  \A y \in Walk!Nodes : y > SpaceNodes - (n + 1) => collect[y] = h[y]
  <2>. SUFFICES ASSUME NEW x \in Walk!Nodes, x > SpaceNodes - (n + 1) PROVE collect[x] = h[x]
    OBVIOUS
  <2>0. SpaceNodes \in Nat /\ x \in Nat
    BY DEF Preorder, Walk!Nodes
  <2>1. \A i \in DOMAIN spaces[x] : collect[spaces[x][i]] = h[spaces[x][i]]
    <3>. HIDE DEF h
    <3>1. ASSUME NEW i \in DOMAIN spaces[x] PROVE spaces[x][i] > SpaceNodes - n
      BY <1>1, <2>0
    <3>. QED  BY <1>1, <1>8, <3>1
  <2>. HIDE DEF h
  <2>. QED  BY <1>3, <1>7, <2>1
<1>9. \A y \in Walk!Nodes : collect[y] = h[y]
  <2>. DEFINE T == {n \in Nat : \A y \in Walk!Nodes : y > SpaceNodes - n => collect[y] = h[y]}
  <2>. HIDE DEF h
  <2>0. SpaceNodes \in Nat /\ \A y \in Walk!Nodes : y \in Nat /\ y >= 1 /\ y <= SpaceNodes
    BY DEF Preorder, Walk!Nodes
  <2>1. 0 \in T
    BY <2>0
  <2>2. ASSUME NEW n \in 0..(SpaceNodes - 1), n \in T PROVE n + 1 \in T
    <3>1. n \in Nat /\ n <= SpaceNodes /\ n + 1 \in Nat
      BY <2>0
    <3>. QED  BY <1>8, <2>2, <3>1
  <2>. HIDE DEF T
  <2>3. SpaceNodes \in T
    <3>1. SpaceNodes \in 0..SpaceNodes
      BY <2>0
    <3>. QED  BY <2>0, <2>1, <2>2, <3>1, CountingUp
  <2>4. \A y \in Walk!Nodes : y > SpaceNodes - SpaceNodes => collect[y] = h[y]
    BY <2>3 DEF T
  <2>. QED  BY <2>0, <2>4
<1>. QED  BY <1>6, <1>9

(* The report of a file that has been walked.                               *)
LEMMA ReportTells ==
    ASSUME ReportInv, kind[1] = "unit"
    PROVE  Walk!ReportIsComplete
<1>. SUFFICES ASSUME pc = "returned", NEW k \in {"function", "class"}
              PROVE  Walk!Collected(root, k) = Walk!InSourceOrder({x \in Walk!Nodes : kind[x] = k})
  BY DEF Walk!ReportIsComplete
<1>1. /\ TreeOk /\ Preorder /\ SpaceNodes \in Nat /\ SpaceNodes >= 1
      /\ root = 1 /\ open = <<>> /\ current = Walk!Nothing /\ k \in Walk!SpaceKinds
  BY MetIsNat DEF ReportInv, Closing, Walk!SpaceKinds
<1>2. Met = SpaceNodes
  BY <1>1, MetIsNat DEF Todo
<1>3. \A x \in Walk!Nodes : Left(x, Met) = {t \in Walk!Spaces : Directly(t, x)}
  <2>1. \A t : ~IsOpen(t)
    BY <1>1 DEF IsOpen
  <2>2. \A t \in Walk!Spaces : t <= Met
    BY <1>1, <1>2 DEF Walk!Spaces, Walk!Nodes
  <2>. QED  BY <2>1, <2>2 DEF Left
<1>4. DOMAIN spaces = Walk!Nodes /\ \A x \in Walk!Nodes : Lists(spaces[x], {t \in Walk!Spaces : Directly(t, x)})
  BY <1>3 DEF ReportInv, SpacesListed
<1>5. 1 \in Walk!Nodes
  BY <1>1 DEF Walk!Nodes
<1>6. Walk!Collected(1, k) = Walk!InSourceOrder(Below(1, k))
  BY <1>1, <1>4, <1>5, CollectedIsBelow
<1>7. Below(1, k) = {x \in Walk!Nodes : kind[x] = k}
  <2>1. \A x \in Walk!Nodes : x # 1 => 1 \in Around(x)
    <3>. SUFFICES ASSUME NEW x \in Walk!Nodes, x # 1 PROVE 1 \in Around(x)
      OBVIOUS
    <3>1. 1 \in Walk!PathTo(parent, x) /\ 1 \in Walk!Spaces
      BY <1>1, RootIsAbove DEF TreeOk
    <3>. QED  BY <1>1, <3>1, WhatIsAround
  <2>. QED  BY <2>1 DEF Below
<1>. QED  BY <1>1, <1>6, <1>7

-----------------------------------------------------------------------------
(* Sums.                                                                    *)

(* The sum of f over the nodes of a set, in source order.                   *)
Total(f, S) ==
    LET upTo[n \in 0..SpaceNodes] ==
            IF n = 0 THEN 0
            ELSE IF n \in S THEN upTo[n - 1] + f[n] ELSE upTo[n - 1]
    IN  upTo[SpaceNodes]

(* The keywords up to v that are directly in a space.                       *)
Counted(s, v) == {x \in Walk!Nodes : kind[x] = "keyword" /\ Directly(x, s) /\ x <= v}

(* What each space counts for in the metrics of those around it.            *)
Ones == [s \in Walk!Nodes |-> 1]
Branches == [s \in Walk!Nodes |-> Total(Ones, Counted(s, SpaceNodes))]
Complexities == [s \in Walk!Nodes |-> 1 + Branches[s]]
IsFunction == [s \in Walk!Nodes |-> IF kind[s] = "function" THEN 1 ELSE 0]
Totals == [s \in Walk!Nodes |-> Total(Complexities, Walk!Within(s))]
OwnMethods(s) == {f \in Walk!Nodes : kind[f] = "function" /\ Directly(f, s)}
Weights == [s \in Walk!Nodes |-> IF kind[s] = "class" THEN Total(Totals, OwnMethods(s)) ELSE 0]

Highest(m, W) ==
    /\ \A t \in W : Complexities[t] <= m
    /\ IF W = {} THEN m = 0 ELSE \E t \in W : Complexities[t] = m

-----------------------------------------------------------------------------
(* The accounts.                                                            *)

Accounts ==
    [cyclomatic : Nat, sum : Nat, max : Nat, n : Nat,
     functions : Nat, functionsSum : Nat,
     operators : Nat, halstead : Nat,
     wmcKind : {"unknown"} \cup Walk!SpaceKinds, method : Nat, wmc : Nat, wmcSum : Nat]

Inside(C) == {t \in Walk!Spaces : \E c \in C : c \in Walk!PathTo(parent, t)}

(* Of a space that is open: the nodes up to v have been measured, and the   *)
(* spaces of C, directly in it, merged.                                     *)
OpenAccount(r, s, C, v) ==
    /\ r.cyclomatic = 1 + Total(Ones, Counted(s, v))
    /\ r.sum = Total(Complexities, Inside(C))
    /\ Highest(r.max, Inside(C))
    /\ r.n = 1 + Total(Ones, Inside(C))
    /\ r.functions = IsFunction[s]
    /\ r.functionsSum = Total(IsFunction, Inside(C))
    /\ r.operators = Total(Ones, Counted(s, v)) + Total(Branches, Inside(C))
    /\ r.wmcKind \in {"unknown", kind[s]}
    /\ r.wmc = IF kind[s] = "class" THEN Total(Totals, {c \in C : kind[c] = "function"}) ELSE 0
    /\ r.wmcSum = Total(Weights, Inside(C))

(* Of a space that is closed.                                               *)
ClosedAccount(r, s) ==
    /\ r.sum = Totals[s]
    /\ Highest(r.max, Walk!Within(s))
    /\ r.n = Total(Ones, Walk!Within(s))
    /\ r.functionsSum = Total(IsFunction, Walk!Within(s))
    /\ r.operators = Total(Branches, Walk!Within(s)) /\ r.halstead = r.operators
    /\ r.wmcKind = kind[s] /\ (kind[s] = "function" => r.method = r.sum)
    /\ r.wmc = Weights[s]
    /\ r.wmcSum = Total(Weights, Walk!Within(s))

(* The file's account is closed before the file is.                         *)
Settled(s) == ~IsOpen(s) \/ (pc = "finalize" /\ current = Walk!Nothing /\ diff = 0)

StatsInv ==
    /\ stats \in [Walk!Nodes -> Accounts]
    /\ \A s \in Walk!Spaces :
        /\ s > Met => stats[s] = Walk!DefaultStats
        /\ s <= Met /\ ~Settled(s) => OpenAccount(stats[s], s, Left(s, Met), Met)
        /\ s <= Met /\ Settled(s) => ClosedAccount(stats[s], s)

-----------------------------------------------------------------------------
(* What a sum is.                                                           *)

TotalStep(f, S, up, n) ==
    IF n = 0 THEN 0 ELSE IF n \in S THEN up[n - 1] + f[n] ELSE up[n - 1]

LEMMA TotalUpTo ==
    ASSUME NEW f, NEW S, NEW n \in 0..SpaceNodes
    PROVE  \E up : up = [m \in 0..n |-> TotalStep(f, S, up, m)]
<1>. DEFINE T == {k \in 0..SpaceNodes : \E up : up = [m \in 0..k |-> TotalStep(f, S, up, m)]}
<1>0. SpaceNodes \in Nat
  BY SizeAssumption
<1>1. 0 \in T
  <2>. DEFINE up == [m \in 0..0 |-> 0]
  <2>1. \A m \in 0..0 : TotalStep(f, S, up, m) = 0
    BY DEF TotalStep
  <2>. HIDE DEF up
  <2>2. up = [m \in 0..0 |-> TotalStep(f, S, up, m)]
    BY <2>1 DEF up
  <2>. QED  BY <1>0, <2>2
<1>2. ASSUME NEW k \in 0..(SpaceNodes - 1), k \in T PROVE k + 1 \in T
  <2>1. PICK up : up = [m \in 0..k |-> TotalStep(f, S, up, m)]
    BY <1>2
  <2>2. k \in Nat /\ k + 1 \in 0..SpaceNodes
    BY <1>0
  <2>. DEFINE h == [m \in 0..(k + 1) |-> IF m = k + 1 THEN TotalStep(f, S, up, m) ELSE up[m]]
  <2>3. \A m \in 0..k : h[m] = up[m] /\ up[m] = TotalStep(f, S, up, m)
    <3>1. \A m \in 0..k : m \in 0..(k + 1) /\ m # k + 1
      BY <2>2
    <3>2. \A m \in 0..k : h[m] = up[m]
      BY <3>1
    <3>3. \A m \in 0..k : up[m] = TotalStep(f, S, up, m)
      BY <2>1
    <3>. QED  BY <3>2, <3>3
  <2>4. h[k + 1] = TotalStep(f, S, up, k + 1)
    BY <2>2
  <2>5. h = [m \in 0..(k + 1) |-> h[m]]
    OBVIOUS
  <2>. HIDE DEF h
  <2>6. ASSUME NEW m \in 0..(k + 1) PROVE h[m] = TotalStep(f, S, h, m)
    <3>1. m # 0 => m - 1 \in 0..k
      BY <2>2
    <3>2. m = k + 1 \/ m \in 0..k
      BY <2>2
    <3>3. TotalStep(f, S, h, m) = TotalStep(f, S, up, m)
      BY <2>3, <3>1 DEF TotalStep
    <3>. QED  BY <2>3, <2>4, <3>2, <3>3
  <2>7. h = [m \in 0..(k + 1) |-> TotalStep(f, S, h, m)]
    BY <2>5, <2>6
  <2>. QED  BY <2>2, <2>7
<1>. HIDE DEF T
<1>3. n \in T
  BY <1>0, <1>1, <1>2, CountingUp
<1>. QED  BY <1>3 DEF T

(* The sum up to each node.                                                 *)
SumsUp(up, f, S) ==
    /\ up[0] = 0 /\ Total(f, S) = up[SpaceNodes]
    /\ \A n \in Walk!Nodes : up[n] = IF n \in S THEN up[n - 1] + f[n] ELSE up[n - 1]

LEMMA TotalUnfolds ==
    ASSUME NEW f \in [Walk!Nodes -> Nat], NEW S
    PROVE  \E up \in [0..SpaceNodes -> Nat] : SumsUp(up, f, S)
<1>. DEFINE up == CHOOSE up : up = [m \in 0..SpaceNodes |-> TotalStep(f, S, up, m)]
            T == {k \in 0..SpaceNodes : up[k] \in Nat}
<1>0. SpaceNodes \in Nat /\ SpaceNodes \in 0..SpaceNodes
  BY SizeAssumption
<1>1. up = [m \in 0..SpaceNodes |-> TotalStep(f, S, up, m)]
  BY <1>0, TotalUpTo
<1>2. Total(f, S) = up[SpaceNodes]
  BY DEF Total, TotalStep
<1>. HIDE DEF up
<1>3. up[0] = 0
  <2>1. 0 \in 0..SpaceNodes
    BY <1>0
  <2>. QED  BY <1>1, <2>1 DEF TotalStep
<1>4. ASSUME NEW n \in Walk!Nodes PROVE up[n] = IF n \in S THEN up[n - 1] + f[n] ELSE up[n - 1]
  <2>1. n \in 0..SpaceNodes /\ n # 0
    BY <1>0 DEF Walk!Nodes
  <2>. QED  BY <1>1, <2>1 DEF TotalStep
<1>5. 0 \in T
  BY <1>0, <1>3
<1>6. ASSUME NEW k \in 0..(SpaceNodes - 1), k \in T PROVE k + 1 \in T
  <2>1. k + 1 \in Walk!Nodes /\ (k + 1) - 1 = k /\ k + 1 \in 0..SpaceNodes
    BY <1>0 DEF Walk!Nodes
  <2>2. up[k] \in Nat /\ f[k + 1] \in Nat
    BY <1>6, <2>1
  <2>3. up[k + 1] \in Nat
    BY <1>4, <2>1, <2>2
  <2>. QED  BY <2>1, <2>3
<1>. HIDE DEF T
<1>7. \A k \in 0..SpaceNodes : k \in T
  BY <1>0, <1>5, <1>6, CountingUp
<1>8. up \in [0..SpaceNodes -> Nat]
  <2>1. \A k \in 0..SpaceNodes : up[k] \in Nat
    BY <1>7 DEF T
  <2>. QED  BY <1>1, <2>1
<1>. QED  BY <1>2, <1>3, <1>4, <1>8 DEF SumsUp

(* Sums over sets that have no node in common add up.                       *)
LEMMA TotalJoins ==
    ASSUME NEW f \in [Walk!Nodes -> Nat], NEW A, NEW B, A \cap B = {}
    PROVE  /\ Total(f, A) \in Nat /\ Total(f, B) \in Nat
           /\ Total(f, A \cup B) = Total(f, A) + Total(f, B)
<1>1. PICK a \in [0..SpaceNodes -> Nat] : SumsUp(a, f, A)
  BY TotalUnfolds
<1>2. PICK b \in [0..SpaceNodes -> Nat] : SumsUp(b, f, B)
  BY TotalUnfolds
<1>3. PICK c \in [0..SpaceNodes -> Nat] : SumsUp(c, f, A \cup B)
  BY TotalUnfolds
<1>0. SpaceNodes \in Nat /\ SpaceNodes \in 0..SpaceNodes
  BY SizeAssumption
<1>. DEFINE T == {k \in 0..SpaceNodes : c[k] = a[k] + b[k]}
<1>4. 0 \in T
  BY <1>0, <1>1, <1>2, <1>3 DEF SumsUp
<1>5. ASSUME NEW k \in 0..(SpaceNodes - 1), k \in T PROVE k + 1 \in T
  <2>1. k + 1 \in Walk!Nodes /\ (k + 1) - 1 = k /\ k + 1 \in 0..SpaceNodes /\ k \in 0..SpaceNodes
    BY <1>0 DEF Walk!Nodes
  <2>2. /\ a[k] \in Nat /\ b[k] \in Nat /\ c[k] \in Nat /\ f[k + 1] \in Nat /\ c[k] = a[k] + b[k]
    BY <1>5, <2>1
  <2>3. /\ a[k + 1] = IF k + 1 \in A THEN a[k] + f[k + 1] ELSE a[k]
        /\ b[k + 1] = IF k + 1 \in B THEN b[k] + f[k + 1] ELSE b[k]
        /\ c[k + 1] = IF k + 1 \in A \cup B THEN c[k] + f[k + 1] ELSE c[k]
    BY <1>1, <1>2, <1>3, <2>1 DEF SumsUp
  <2>4. c[k + 1] = a[k + 1] + b[k + 1]
    <3>1. CASE k + 1 \in A
      <4>1. k + 1 \notin B
        BY <3>1
      <4>. QED  BY <2>2, <2>3, <3>1, <4>1
    <3>2. CASE k + 1 \notin A
      BY <2>2, <2>3, <3>2
    <3>. QED  BY <3>1, <3>2
  <2>. QED  BY <2>1, <2>4
<1>. HIDE DEF T
<1>6. SpaceNodes \in T
  BY <1>0, <1>4, <1>5, CountingUp
<1>7. c[SpaceNodes] = a[SpaceNodes] + b[SpaceNodes]
  BY <1>6 DEF T
<1>. QED  BY <1>0, <1>1, <1>2, <1>3, <1>7 DEF SumsUp

LEMMA TotalOfNone ==
    ASSUME NEW f \in [Walk!Nodes -> Nat]
    PROVE  Total(f, {}) = 0
<1>1. {} \cap {} = {} /\ {} \cup {} = {}
  OBVIOUS
<1>2. Total(f, {}) \in Nat /\ Total(f, {}) = Total(f, {}) + Total(f, {})
  BY <1>1, TotalJoins
<1>. QED  BY <1>2

LEMMA TotalOfOne ==
    ASSUME NEW f \in [Walk!Nodes -> Nat], NEW x \in Walk!Nodes
    PROVE  Total(f, {x}) = f[x]
<1>1. PICK up \in [0..SpaceNodes -> Nat] : SumsUp(up, f, {x})
  BY TotalUnfolds
<1>0. /\ SpaceNodes \in Nat /\ SpaceNodes \in 0..SpaceNodes
      /\ x \in Nat /\ x >= 1 /\ x <= SpaceNodes /\ f[x] \in Nat
  BY SizeAssumption DEF Walk!Nodes
<1>. DEFINE T == {k \in 0..SpaceNodes : up[k] = IF k < x THEN 0 ELSE f[x]}
<1>2. 0 \in T
  BY <1>0, <1>1 DEF SumsUp
<1>3. ASSUME NEW k \in 0..(SpaceNodes - 1), k \in T PROVE k + 1 \in T
  <2>1. k + 1 \in Walk!Nodes /\ (k + 1) - 1 = k /\ k + 1 \in 0..SpaceNodes /\ k \in Nat
    BY <1>0 DEF Walk!Nodes
  <2>2. up[k] = IF k < x THEN 0 ELSE f[x]
    BY <1>3
  <2>3. up[k + 1] = IF k + 1 = x THEN up[k] + f[k + 1] ELSE up[k]
    BY <1>1, <2>1 DEF SumsUp
  <2>4. up[k + 1] = IF k + 1 < x THEN 0 ELSE f[x]
    BY <1>0, <2>1, <2>2, <2>3
  <2>. QED  BY <2>1, <2>4
<1>. HIDE DEF T
<1>4. SpaceNodes \in T
  BY <1>0, <1>2, <1>3, CountingUp
<1>. QED  BY <1>0, <1>1, <1>4 DEF T, SumsUp

LEMMA TotalWithout ==
    ASSUME NEW f \in [Walk!Nodes -> Nat], NEW S, NEW x \in Walk!Nodes, x \in S
    PROVE  /\ Total(f, S) \in Nat /\ Total(f, S \ {x}) \in Nat
           /\ Total(f, S) = Total(f, S \ {x}) + f[x]
<1>1. (S \ {x}) \cap {x} = {} /\ (S \ {x}) \cup {x} = S
  OBVIOUS
<1>2. /\ Total(f, S \ {x}) \in Nat /\ Total(f, {x}) \in Nat
      /\ Total(f, S) = Total(f, S \ {x}) + Total(f, {x})
  BY <1>1, TotalJoins
<1>. QED  BY <1>2, TotalOfOne

LEMMA TotalWith ==
    ASSUME NEW f \in [Walk!Nodes -> Nat], NEW S, NEW x \in Walk!Nodes, x \notin S
    PROVE  /\ Total(f, S) \in Nat /\ Total(f, S \cup {x}) = Total(f, S) + f[x]
<1>1. S \cap {x} = {}
  OBVIOUS
<1>2. Total(f, S) \in Nat /\ Total(f, S \cup {x}) = Total(f, S) + Total(f, {x})
  BY <1>1, TotalJoins
<1>3. Total(f, {x}) = f[x]
  BY TotalOfOne
<1>. QED  BY <1>2, <1>3

-----------------------------------------------------------------------------
(* The sums and counts of the reference are such sums.                      *)

Some(S) == CHOOSE x \in S : TRUE
SumStep(f, it, S) == IF S = {} THEN 0 ELSE f[Some(S)] + it[S \ {Some(S)}]

LEMMA SumRuns ==
    ASSUME NEW f \in [Walk!Nodes -> Nat], NEW S \in SUBSET Walk!Nodes
    PROVE  /\ \A T \in SUBSET S : Total(f, T) = SumStep(f, [U \in SUBSET S |-> Total(f, U)], T)
           /\ \A it : it = [T \in SUBSET S |-> SumStep(f, it, T)] => it[S] = Total(f, S)
<1>. DEFINE totals == [U \in SUBSET S |-> Total(f, U)]
<1>1. ASSUME NEW T \in SUBSET S, T # {}
      PROVE  /\ Some(T) \in T /\ Some(T) \in Walk!Nodes /\ T \ {Some(T)} \in SUBSET S
             /\ f[Some(T)] \in Nat /\ Total(f, T \ {Some(T)}) \in Nat
             /\ Total(f, T) = f[Some(T)] + Total(f, T \ {Some(T)})
  <2>1. Some(T) \in T
    BY <1>1 DEF Some
  <2>2. Some(T) \in Walk!Nodes /\ T \ {Some(T)} \in SUBSET S /\ f[Some(T)] \in Nat
    BY <2>1
  <2>3. /\ Total(f, T \ {Some(T)}) \in Nat
        /\ Total(f, T) = Total(f, T \ {Some(T)}) + f[Some(T)]
    BY <2>1, <2>2, TotalWithout
  <2>. QED  BY <2>1, <2>2, <2>3
<1>2. ASSUME NEW T \in SUBSET S PROVE Total(f, T) = SumStep(f, totals, T)
  <2>1. CASE T = {}
    BY <2>1, TotalOfNone DEF SumStep
  <2>2. CASE T # {}
    <3>1. totals[T \ {Some(T)}] = Total(f, T \ {Some(T)})
      BY <1>1, <2>2
    <3>. HIDE DEF totals
    <3>. QED  BY <1>1, <2>2, <3>1 DEF SumStep
  <2>. QED  BY <2>1, <2>2
<1>3. ASSUME NEW it, it = [T \in SUBSET S |-> SumStep(f, it, T)] PROVE it[S] = Total(f, S)
  <2>. DEFINE Size(T) == Total(Ones, T)
              Known == {k \in Nat : \A T \in SUBSET S : Size(T) <= k => it[T] = Total(f, T)}
  <2>0. Ones \in [Walk!Nodes -> Nat] /\ \A x \in Walk!Nodes : Ones[x] = 1
    BY DEF Ones
  <2>1. \A T \in SUBSET S : Size(T) \in Nat
    <3>1. \A T \in SUBSET S : T \cap {} = {}
      OBVIOUS
    <3>. QED  BY <2>0, <3>1, TotalJoins
  <2>2. ASSUME NEW T \in SUBSET S, T # {} PROVE Size(T) >= 1 /\ Size(T \ {Some(T)}) = Size(T) - 1
    <3>1. Some(T) \in T /\ Some(T) \in Walk!Nodes
      BY <1>1, <2>2
    <3>2. /\ Size(T) \in Nat /\ Size(T \ {Some(T)}) \in Nat
          /\ Size(T) = Size(T \ {Some(T)}) + Ones[Some(T)]
      BY <2>0, <3>1, TotalWithout
    <3>. HIDE DEF Size
    <3>. QED  BY <2>0, <3>1, <3>2
  <2>. HIDE DEF Size
  <2>3. \A T \in SUBSET S : it[T] = SumStep(f, it, T)
    BY <1>3
  <2>4. 0 \in Known
    <3>. SUFFICES ASSUME NEW T \in SUBSET S, Size(T) <= 0 PROVE it[T] = Total(f, T)
      OBVIOUS
    <3>1. Size(T) \in Nat /\ ~(Size(T) >= 1)
      BY <2>1
    <3>2. T = {}
      BY <2>2, <3>1
    <3>. QED  BY <2>3, <3>2, TotalOfNone DEF SumStep
  <2>5. ASSUME NEW k \in 0..(Size(S) - 1), k \in Known PROVE k + 1 \in Known
    <3>. SUFFICES ASSUME NEW T \in SUBSET S, Size(T) <= k + 1 PROVE it[T] = Total(f, T)
      OBVIOUS
    <3>1. CASE T = {}
      BY <2>3, <3>1, TotalOfNone DEF SumStep
    <3>2. CASE T # {}
      <4>1. T \ {Some(T)} \in SUBSET S /\ Size(T \ {Some(T)}) <= k
        BY <1>1, <2>1, <2>2, <3>2
      <4>2. it[T \ {Some(T)}] = Total(f, T \ {Some(T)})
        BY <2>5, <4>1
      <4>. QED  BY <1>1, <2>3, <3>2, <4>2 DEF SumStep
    <3>. QED  BY <3>1, <3>2
  <2>6. Size(S) \in Nat /\ Size(S) \in 0..Size(S)
    BY <2>1
  <2>. HIDE DEF Known
  <2>7. Size(S) \in Known
    BY <2>4, <2>5, <2>6, CountingUp
  <2>. QED  BY <2>6, <2>7 DEF Known
<1>. QED  BY <1>2, <1>3

LEMMA CountIsTotal ==
    ASSUME NEW S \in SUBSET Walk!Nodes
    PROVE  IsFiniteSet(S) /\ Cardinality(S) = Total(Ones, S)
<1>. DEFINE Upto(k) == S \cap (1..k)
            T == {k \in 0..SpaceNodes : /\ IsFiniteSet(Upto(k))
                                        /\ Cardinality(Upto(k)) = Total(Ones, Upto(k))}
<1>0. SpaceNodes \in Nat /\ SpaceNodes \in 0..SpaceNodes
  BY SizeAssumption
<1>1. Ones \in [Walk!Nodes -> Nat] /\ \A x \in Walk!Nodes : Ones[x] = 1
  BY DEF Ones
<1>2. 0 \in T
  <2>1. Upto(0) = {}
    OBVIOUS
  <2>. HIDE DEF Upto
  <2>. QED  BY <1>0, <1>1, <2>1, FS_EmptySet, TotalOfNone
<1>3. ASSUME NEW k \in 0..(SpaceNodes - 1), k \in T PROVE k + 1 \in T
  <2>1. k + 1 \in Walk!Nodes /\ k + 1 \in 0..SpaceNodes /\ k \in Nat
    BY <1>0 DEF Walk!Nodes
  <2>2. IsFiniteSet(Upto(k)) /\ Cardinality(Upto(k)) = Total(Ones, Upto(k))
    BY <1>3
  <2>3. CASE k + 1 \in S
    <3>1. Upto(k + 1) = Upto(k) \cup {k + 1} /\ k + 1 \notin Upto(k)
      BY <2>1, <2>3
    <3>. HIDE DEF Upto
    <3>2. /\ IsFiniteSet(Upto(k) \cup {k + 1})
          /\ Cardinality(Upto(k) \cup {k + 1}) = Cardinality(Upto(k)) + 1
      BY <2>2, <3>1, FS_AddElement
    <3>3. Total(Ones, Upto(k) \cup {k + 1}) = Total(Ones, Upto(k)) + 1
      BY <1>1, <2>1, <3>1, TotalWith
    <3>. QED  BY <2>1, <2>2, <3>1, <3>2, <3>3
  <2>4. CASE k + 1 \notin S
    <3>1. Upto(k + 1) = Upto(k)
      BY <2>1, <2>4
    <3>. HIDE DEF Upto
    <3>. QED  BY <2>1, <2>2, <3>1
  <2>. QED  BY <2>3, <2>4
<1>4. Upto(SpaceNodes) = S
  BY DEF Walk!Nodes
<1>. HIDE DEF T
<1>5. SpaceNodes \in T
  BY <1>0, <1>2, <1>3, CountingUp
<1>. HIDE DEF Upto
<1>. QED  BY <1>4, <1>5 DEF T

-----------------------------------------------------------------------------
(* What is inside a space.                                                  *)

LEMMA TotalIsNat ==
    ASSUME NEW f \in [Walk!Nodes -> Nat], NEW S
    PROVE  Total(f, S) \in Nat
<1>1. S \cap {} = {}
  OBVIOUS
<1>. QED  BY <1>1, TotalJoins

LEMMA CountsAreNat ==
    /\ Ones \in [Walk!Nodes -> Nat] /\ Branches \in [Walk!Nodes -> Nat] /\ Complexities \in [Walk!Nodes -> Nat]
    /\ IsFunction \in [Walk!Nodes -> Nat] /\ Totals \in [Walk!Nodes -> Nat] /\ Weights \in [Walk!Nodes -> Nat]
<1>1. Ones \in [Walk!Nodes -> Nat]
  BY DEF Ones
<1>2. Branches \in [Walk!Nodes -> Nat]
  BY <1>1, TotalIsNat DEF Branches
<1>3. Complexities \in [Walk!Nodes -> Nat]
  <2>1. \A s \in Walk!Nodes : 1 + Branches[s] \in Nat
    BY <1>2
  <2>. QED  BY <2>1 DEF Complexities
<1>4. Totals \in [Walk!Nodes -> Nat]
  BY <1>3, TotalIsNat DEF Totals
<1>5. Weights \in [Walk!Nodes -> Nat]
  <2>1. \A s \in Walk!Nodes : Total(Totals, OwnMethods(s)) \in Nat
    BY <1>4, TotalIsNat
  <2>. QED  BY <2>1 DEF Weights
<1>. QED  BY <1>1, <1>2, <1>3, <1>4, <1>5 DEF IsFunction

LEMMA InsideIs ==
    ASSUME TreeOk, Preorder, NEW s \in Walk!Spaces,
           NEW C \in SUBSET {c \in Walk!Spaces : Directly(c, s)}
    PROVE  /\ s \in Walk!Nodes /\ s \notin Inside(C)
           /\ {c \in Walk!Spaces : Directly(c, s)} \subseteq C => Walk!Within(s) = Inside(C) \cup {s}
           /\ \A c \in {c \in Walk!Spaces : Directly(c, s)} \ C :
                /\ c \in Walk!Nodes /\ Inside(C) \cap Walk!Within(c) = {}
                /\ Inside(C \cup {c}) = Inside(C) \cup Walk!Within(c)
<1>0. Walk!Spaces \subseteq Walk!Nodes /\ Walk!Spaces \subseteq Nat /\ SpaceNodes \in Nat
  BY DEF Walk!Spaces, Walk!Nodes, Preorder
<1>1. \A c \in Walk!Spaces : Directly(c, s) => c \in Walk!Nodes /\ c \in Nat /\ s < c /\ c \in Walk!PathTo(parent, c)
  BY <1>0, WhatIsAround, PathHasNodes DEF Directly
<1>2. s \notin Inside(C)
  <2>. SUFFICES ASSUME NEW c \in C, c \in Walk!PathTo(parent, s) PROVE FALSE
    BY DEF Inside
  <2>1. s < c /\ c \in 1..s
    BY <1>0, <1>1, PathHasNodes
  <2>. QED  BY <1>0, <2>1
<1>3. ASSUME {c \in Walk!Spaces : Directly(c, s)} \subseteq C
      PROVE  Walk!Within(s) = Inside(C) \cup {s}
  <2>1. ASSUME NEW t \in Walk!Spaces
        PROVE  s \in Walk!PathTo(parent, t) <=> t = s \/ \E c \in C : c \in Walk!PathTo(parent, t)
    <3>1. t \in Walk!Nodes /\ t \in Walk!PathTo(parent, t)
      BY <1>0, PathHasNodes
    <3>2. s \in Walk!PathTo(parent, t) <=> t = s \/ s \in Around(t)
      BY <3>1, WhatIsAround
    <3>3. s \in Around(t) <=> \E c \in Walk!Spaces : Directly(c, s) /\ (t = c \/ c \in Around(t))
      BY <1>0, BelowIsBelow
    <3>4. \A c \in Walk!Spaces : t = c \/ c \in Around(t) <=> c \in Walk!PathTo(parent, t)
      BY <3>1, WhatIsAround
    <3>. QED  BY <1>3, <3>2, <3>3, <3>4
  <2>. QED  BY <2>1 DEF Walk!Within, Inside
<1>4. ASSUME NEW c \in Walk!Spaces, Directly(c, s), c \notin C
      PROVE  /\ c \in Walk!Nodes /\ Inside(C) \cap Walk!Within(c) = {}
             /\ Inside(C \cup {c}) = Inside(C) \cup Walk!Within(c)
  <2>1. Inside(C \cup {c}) = Inside(C) \cup Walk!Within(c)
    BY DEF Inside, Walk!Within
  <2>2. ASSUME NEW a \in Walk!Spaces, NEW b \in Walk!Spaces, Directly(a, s), Directly(b, s), a < b,
               NEW t \in Walk!Spaces, a \in Walk!PathTo(parent, t), b \in Walk!PathTo(parent, t)
        PROVE  FALSE
    <3>1. a \in Walk!Nodes /\ b \in Walk!Nodes /\ t \in Walk!Nodes /\ t \in 0..SpaceNodes /\ a \in Nat /\ a >= 1 /\ s < a /\ s \in Nat
      BY <1>0, <1>1, <2>2 DEF Walk!Nodes
    <3>2. Walk!PathTo(parent, b) = Walk!PathTo(parent, t) \cap (1..b)
      BY <2>2, <3>1, PathOfAbove
    <3>3. a \in Walk!PathTo(parent, b) /\ a # b
      BY <1>0, <2>2, <3>1, <3>2
    <3>4. a \in Around(b)
      BY <3>1, <3>3, WhatIsAround
    <3>5. a <= s
      BY <2>2, <3>4 DEF Directly
    <3>. QED  BY <3>1, <3>5
  <2>3. ASSUME NEW t \in Inside(C), t \in Walk!Within(c) PROVE FALSE
    <3>1. PICK d \in C : d \in Walk!PathTo(parent, t)
      BY DEF Inside
    <3>2. t \in Walk!Spaces /\ c \in Walk!PathTo(parent, t)
      BY <2>3 DEF Walk!Within
    <3>3. d \in Nat /\ c \in Nat /\ d # c /\ d \in Walk!Spaces /\ Directly(d, s)
      BY <1>0, <1>4
    <3>4. d < c \/ c < d
      BY <3>3
    <3>. QED  BY <1>4, <2>2, <3>1, <3>2, <3>3, <3>4
  <2>. QED  BY <1>0, <2>1, <2>3
<1>. QED  BY <1>0, <1>2, <1>3, <1>4

-----------------------------------------------------------------------------
(* What the steps do to an account.                                         *)

LEMMA ClosedFields ==
    ASSUME NEW r \in Accounts, NEW k \in Walk!SpaceKinds
    PROVE  LET q == Walk!Computed(Walk!Summed(r), k)
           IN  /\ q \in Accounts
               /\ q.sum = r.sum + r.cyclomatic /\ q.max = Walk!Larger(r.max, r.cyclomatic) /\ q.n = r.n
               /\ q.functionsSum = r.functionsSum + r.functions
               /\ q.operators = r.operators /\ q.halstead = r.operators
               /\ q.wmcKind = IF r.wmcKind = "unknown" THEN k ELSE r.wmcKind
               /\ k = "function" => q.method = q.sum
               /\ q.wmc = r.wmc /\ q.wmcSum = r.wmcSum + r.wmc
<1>. DEFINE a == Walk!Summed(r)
<1>1. /\ a \in Accounts /\ a.cyclomatic = r.cyclomatic
      /\ a.sum = r.sum + r.cyclomatic /\ a.max = Walk!Larger(r.max, r.cyclomatic) /\ a.n = r.n
      /\ a.functionsSum = r.functionsSum + r.functions
      /\ a.operators = r.operators /\ a.wmcKind = r.wmcKind
      /\ a.wmc = r.wmc /\ a.wmcSum = r.wmcSum + r.wmc
  <2>1. /\ Walk!Larger(r.max, r.cyclomatic) \in Nat /\ r.sum + r.cyclomatic \in Nat
        /\ r.functionsSum + r.functions \in Nat /\ r.wmcSum + r.wmc \in Nat
    BY DEF Accounts, Walk!Larger
  <2>2. \A u, x, y, z \in Nat :
          [r EXCEPT !.sum = u, !.max = x, !.functionsSum = y, !.wmcSum = z] \in Accounts
    BY DEF Accounts
  <2>3. a \in Accounts
    BY <2>1, <2>2 DEF Walk!Summed
  <2>4. /\ a.cyclomatic = r.cyclomatic
        /\ a.sum = r.sum + r.cyclomatic /\ a.max = Walk!Larger(r.max, r.cyclomatic) /\ a.n = r.n
    BY DEF Accounts, Walk!Summed
  <2>5. /\ a.functionsSum = r.functionsSum + r.functions
        /\ a.operators = r.operators /\ a.wmcKind = r.wmcKind
        /\ a.wmc = r.wmc /\ a.wmcSum = r.wmcSum + r.wmc
    BY DEF Accounts, Walk!Summed
  <2>. QED  BY <2>3, <2>4, <2>5
<1>. HIDE DEF a
<1>. DEFINE q == Walk!Computed(a, k)
<1>2. /\ q \in Accounts
      /\ q.sum = a.sum /\ q.max = a.max /\ q.n = a.n /\ q.functionsSum = a.functionsSum
      /\ q.operators = a.operators /\ q.halstead = a.operators
      /\ q.wmcKind = IF a.wmcKind = "unknown" THEN k ELSE a.wmcKind
      /\ k = "function" => q.method = a.sum
      /\ q.wmc = a.wmc /\ q.wmcSum = a.wmcSum
  BY <1>1 DEF Accounts, Walk!Computed
<1>. HIDE DEF q
<1>. QED  BY <1>1, <1>2 DEF a, q

LEMMA MergedFields ==
    ASSUME NEW r \in Accounts, NEW q \in Accounts, NEW k \in Walk!SpaceKinds
    PROVE  LET m == Walk!Merged(Walk!Computed([r EXCEPT !.operators = @ + q.operators], k), q)
           IN  /\ m \in Accounts
               /\ m.cyclomatic = r.cyclomatic /\ m.functions = r.functions
               /\ m.sum = r.sum + q.sum /\ m.max = Walk!Larger(r.max, q.max) /\ m.n = r.n + q.n
               /\ m.functionsSum = r.functionsSum + q.functionsSum
               /\ m.operators = r.operators + q.operators
               /\ m.wmcKind = IF r.wmcKind = "unknown" THEN k ELSE r.wmcKind
               /\ m.wmc = IF q.wmcKind = "function" /\ m.wmcKind = "class"
                          THEN r.wmc + q.method ELSE r.wmc
               /\ m.wmcSum = r.wmcSum + q.wmcSum
<1>. DEFINE a == [r EXCEPT !.operators = @ + q.operators]
            b == Walk!Computed(a, k)
            m == Walk!Merged(b, q)
<1>1. /\ a \in Accounts /\ a.cyclomatic = r.cyclomatic /\ a.functions = r.functions
      /\ a.sum = r.sum /\ a.max = r.max /\ a.n = r.n /\ a.functionsSum = r.functionsSum
      /\ a.operators = r.operators + q.operators /\ a.wmcKind = r.wmcKind
      /\ a.wmc = r.wmc /\ a.wmcSum = r.wmcSum
  BY DEF Accounts
<1>. HIDE DEF a
<1>2. /\ b \in Accounts /\ b.cyclomatic = a.cyclomatic /\ b.functions = a.functions
      /\ b.sum = a.sum /\ b.max = a.max /\ b.n = a.n /\ b.functionsSum = a.functionsSum
      /\ b.operators = a.operators
      /\ b.wmcKind = IF a.wmcKind = "unknown" THEN k ELSE a.wmcKind
      /\ b.wmc = a.wmc /\ b.wmcSum = a.wmcSum
  BY <1>1 DEF Accounts, Walk!Computed
<1>. HIDE DEF b
<1>3. /\ m \in Accounts /\ m.cyclomatic = b.cyclomatic /\ m.functions = b.functions
      /\ m.sum = b.sum + q.sum /\ m.max = Walk!Larger(b.max, q.max) /\ m.n = b.n + q.n
      /\ m.functionsSum = b.functionsSum + q.functionsSum
      /\ m.operators = b.operators /\ m.wmcKind = b.wmcKind
      /\ m.wmc = IF q.wmcKind = "function" /\ b.wmcKind = "class" THEN b.wmc + q.method ELSE b.wmc
      /\ m.wmcSum = b.wmcSum + q.wmcSum
  <2>. DEFINE w == IF q.wmcKind = "function" /\ b.wmcKind = "class" THEN b.wmc + q.method ELSE b.wmc
  <2>1. b \in Accounts
    BY <1>2
  <2>2. /\ Walk!Larger(b.max, q.max) \in Nat /\ b.sum + q.sum \in Nat /\ b.n + q.n \in Nat
        /\ b.functionsSum + q.functionsSum \in Nat /\ b.wmcSum + q.wmcSum \in Nat
    BY <2>1 DEF Accounts, Walk!Larger
  <2>3. w \in Nat
    BY <2>1 DEF Accounts
  <2>4. m = [b EXCEPT !.sum = b.sum + q.sum, !.max = Walk!Larger(b.max, q.max), !.n = b.n + q.n,
                      !.functionsSum = b.functionsSum + q.functionsSum, !.wmc = w,
                      !.wmcSum = b.wmcSum + q.wmcSum]
    BY DEF Walk!Merged
  <2>. HIDE DEF m, w
  <2>5. \A u, x, y, z, t, v \in Nat :
          [b EXCEPT !.sum = u, !.max = x, !.n = t, !.functionsSum = y, !.wmc = v, !.wmcSum = z] \in Accounts
    BY <2>1 DEF Accounts
  <2>6. m \in Accounts
    BY <2>2, <2>3, <2>4, <2>5
  <2>7. /\ m.cyclomatic = b.cyclomatic /\ m.functions = b.functions
        /\ m.sum = b.sum + q.sum /\ m.max = Walk!Larger(b.max, q.max) /\ m.n = b.n + q.n
    BY <2>1, <2>4 DEF Accounts
  <2>8. /\ m.functionsSum = b.functionsSum + q.functionsSum
        /\ m.operators = b.operators /\ m.wmcKind = b.wmcKind
    BY <2>1, <2>4 DEF Accounts
  <2>9. m.wmc = w /\ m.wmcSum = b.wmcSum + q.wmcSum
    BY <2>1, <2>4 DEF Accounts
  <2>. QED  BY <2>6, <2>7, <2>8, <2>9 DEF w
<1>. HIDE DEF m
<1>. QED  BY <1>1, <1>2, <1>3 DEF a, b, m

LEMMA HighestJoins ==
    ASSUME NEW A \in SUBSET Walk!Nodes, NEW B \in SUBSET Walk!Nodes, NEW m \in Nat, NEW n \in Nat,
           Highest(m, A), Highest(n, B)
    PROVE  Highest(Walk!Larger(m, n), A \cup B)
<1>1. \A t \in Walk!Nodes : Complexities[t] \in Nat
  BY CountsAreNat
<1>2. CASE m >= n
  <2>1. Walk!Larger(m, n) = m
    BY <1>2 DEF Walk!Larger
  <2>2. \A t \in A \cup B : Complexities[t] <= m
    BY <1>1, <1>2 DEF Highest
  <2>3. A # {} => \E t \in A \cup B : Complexities[t] = m
    BY DEF Highest
  <2>4. A = {} => m = 0 /\ n = 0
    BY <1>2 DEF Highest
  <2>5. A = {} /\ B # {} => \E t \in A \cup B : Complexities[t] = m
    BY <2>4 DEF Highest
  <2>6. A = {} /\ B = {} => m = 0 /\ A \cup B = {}
    BY <2>4
  <2>. QED  BY <2>1, <2>2, <2>3, <2>5, <2>6 DEF Highest
<1>3. CASE ~(m >= n)
  <2>1. Walk!Larger(m, n) = n /\ m <= n
    BY <1>3 DEF Walk!Larger
  <2>2. \A t \in A \cup B : Complexities[t] <= n
    BY <1>1, <2>1 DEF Highest
  <2>3. B # {}
    BY <1>3 DEF Highest
  <2>. QED  BY <2>1, <2>2, <2>3 DEF Highest
<1>. QED  BY <1>2, <1>3

(* A space is closed when all inside it is.                                 *)
LEMMA AccountCloses ==
    ASSUME TreeOk, Preorder, NEW s \in Walk!Spaces, NEW r \in Accounts, NEW v,
           Counted(s, v) = Counted(s, SpaceNodes),
           NEW C, C = {c \in Walk!Spaces : Directly(c, s)}, OpenAccount(r, s, C, v)
    PROVE  /\ Walk!Computed(Walk!Summed(r), kind[s]) \in Accounts
           /\ ClosedAccount(Walk!Computed(Walk!Summed(r), kind[s]), s)
<1>. DEFINE q == Walk!Computed(Walk!Summed(r), kind[s])
            I == Inside(C)
<1>1. /\ s \in Walk!Nodes /\ kind[s] \in Walk!SpaceKinds /\ kind[s] # "unknown"
  BY DEF Walk!Spaces, Walk!SpaceKinds
<1>2. s \notin I /\ Walk!Within(s) = I \cup {s} /\ I \subseteq Walk!Nodes
  <2>0. C \in SUBSET {c \in Walk!Spaces : Directly(c, s)} /\ {c \in Walk!Spaces : Directly(c, s)} \subseteq C
    OBVIOUS
  <2>1. s \notin I /\ Walk!Within(s) = I \cup {s}
    BY <2>0, InsideIs
  <2>2. I \subseteq Walk!Nodes
    BY DEF Inside, Walk!Spaces
  <2>. QED  BY <2>1, <2>2
<1>3. /\ q \in Accounts
      /\ q.sum = r.sum + r.cyclomatic /\ q.max = Walk!Larger(r.max, r.cyclomatic) /\ q.n = r.n
      /\ q.functionsSum = r.functionsSum + r.functions
      /\ q.operators = r.operators /\ q.halstead = r.operators
      /\ q.wmcKind = IF r.wmcKind = "unknown" THEN kind[s] ELSE r.wmcKind
      /\ kind[s] = "function" => q.method = q.sum
      /\ q.wmc = r.wmc /\ q.wmcSum = r.wmcSum + r.wmc
  BY <1>1, ClosedFields
<1>. HIDE DEF q, I
<1>4. ASSUME NEW f \in [Walk!Nodes -> Nat]
      PROVE  Total(f, I) \in Nat /\ f[s] \in Nat /\ Total(f, Walk!Within(s)) = Total(f, I) + f[s]
  BY <1>1, <1>2, TotalWith
<1>5. /\ r.cyclomatic = 1 + Branches[s] /\ r.cyclomatic = Complexities[s] /\ Branches[s] \in Nat
      /\ Total(Ones, Counted(s, v)) = Branches[s]
  BY <1>1, CountsAreNat DEF OpenAccount, Complexities, Branches
<1>6. q.sum = Totals[s]
  BY <1>1, <1>3, <1>4, <1>5, CountsAreNat DEF OpenAccount, Totals, I
<1>7. Highest(q.max, Walk!Within(s))
  <2>1. Highest(r.cyclomatic, {s})
    BY <1>1, <1>5, CountsAreNat DEF Highest
  <2>2. Highest(r.max, I) /\ r.max \in Nat /\ r.cyclomatic \in Nat
    BY DEF OpenAccount, I, Accounts
  <2>3. {s} \in SUBSET Walk!Nodes /\ I \in SUBSET Walk!Nodes
    BY <1>1, <1>2
  <2>. QED  BY <1>2, <1>3, <2>1, <2>2, <2>3, HighestJoins
<1>8. q.n = Total(Ones, Walk!Within(s))
  <2>1. Ones[s] = 1 /\ Total(Ones, I) \in Nat /\ Total(Ones, Walk!Within(s)) = Total(Ones, I) + Ones[s]
    BY <1>1, <1>4, CountsAreNat DEF Ones
  <2>. QED  BY <1>3, <2>1 DEF OpenAccount, I
<1>9. q.functionsSum = Total(IsFunction, Walk!Within(s))
  BY <1>3, <1>4, CountsAreNat DEF OpenAccount, I
<1>10. q.operators = Total(Branches, Walk!Within(s)) /\ q.halstead = q.operators
  <2>1. /\ Total(Branches, I) \in Nat /\ Total(Branches, Walk!Within(s)) = Total(Branches, I) + Branches[s]
    BY <1>4, CountsAreNat
  <2>. QED  BY <1>3, <1>5, <2>1 DEF OpenAccount, I
<1>11. q.wmcKind = kind[s]
  BY <1>3 DEF OpenAccount
<1>12. q.wmc = Weights[s]
  <2>1. {c \in C : kind[c] = "function"} = OwnMethods(s)
    BY DEF OwnMethods, Walk!Spaces, Walk!SpaceKinds
  <2>. QED  BY <1>1, <1>3, <2>1 DEF OpenAccount, Weights
<1>13. q.wmcSum = Total(Weights, Walk!Within(s))
  <2>1. /\ Total(Weights, I) \in Nat /\ Weights[s] \in Nat
        /\ Total(Weights, Walk!Within(s)) = Total(Weights, I) + Weights[s]
    BY <1>4, CountsAreNat
  <2>. QED  BY <1>3, <1>12, <2>1 DEF OpenAccount, I
<1>. QED  BY <1>3, <1>6, <1>7, <1>8, <1>9, <1>10, <1>11, <1>12, <1>13 DEF ClosedAccount, q

(* A closed space is merged into the one it is directly in.                 *)
LEMMA AccountMerges ==
    ASSUME TreeOk, Preorder, NEW s \in Walk!Spaces, NEW v, NEW C \in SUBSET {c \in Walk!Spaces : Directly(c, s)},
           NEW c \in Walk!Spaces, Directly(c, s), c \notin C,
           NEW r \in Accounts, NEW q \in Accounts, OpenAccount(r, s, C, v), ClosedAccount(q, c)
    PROVE  LET m == Walk!Merged(Walk!Computed([r EXCEPT !.operators = @ + q.operators], kind[s]), q)
           IN  m \in Accounts /\ OpenAccount(m, s, C \cup {c}, v)
<1>. DEFINE m == Walk!Merged(Walk!Computed([r EXCEPT !.operators = @ + q.operators], kind[s]), q)
            I == Inside(C)
            W == Walk!Within(c)
            F == {d \in C : kind[d] = "function"}
<1>1. /\ s \in Walk!Nodes /\ c \in Walk!Nodes /\ kind[s] \in Walk!SpaceKinds /\ kind[s] # "unknown" /\ C \subseteq Walk!Nodes
  BY DEF Walk!Spaces, Walk!SpaceKinds
<1>2. I \cap W = {} /\ Inside(C \cup {c}) = I \cup W /\ I \subseteq Walk!Nodes /\ W \subseteq Walk!Nodes
  <2>1. I \cap W = {} /\ Inside(C \cup {c}) = I \cup W
    BY InsideIs
  <2>. QED  BY <2>1 DEF Inside, Walk!Within, Walk!Spaces
<1>3. /\ m \in Accounts
      /\ m.cyclomatic = r.cyclomatic /\ m.functions = r.functions
      /\ m.sum = r.sum + q.sum /\ m.max = Walk!Larger(r.max, q.max) /\ m.n = r.n + q.n
      /\ m.functionsSum = r.functionsSum + q.functionsSum
      /\ m.operators = r.operators + q.operators
      /\ m.wmcKind = IF r.wmcKind = "unknown" THEN kind[s] ELSE r.wmcKind
      /\ m.wmc = IF q.wmcKind = "function" /\ m.wmcKind = "class" THEN r.wmc + q.method ELSE r.wmc
      /\ m.wmcSum = r.wmcSum + q.wmcSum
  BY <1>1, MergedFields
<1>. HIDE DEF m, I, W
<1>4. ASSUME NEW f \in [Walk!Nodes -> Nat]
      PROVE  /\ Total(f, I) \in Nat /\ Total(f, W) \in Nat
             /\ Total(f, Inside(C \cup {c})) = Total(f, I) + Total(f, W)
  BY <1>2, TotalJoins
<1>5. m.sum = Total(Complexities, Inside(C \cup {c}))
  BY <1>1, <1>3, <1>4, CountsAreNat DEF OpenAccount, ClosedAccount, Totals, I, W
<1>6. Highest(m.max, Inside(C \cup {c}))
  <2>1. Highest(r.max, I) /\ Highest(q.max, W) /\ r.max \in Nat /\ q.max \in Nat
    BY DEF OpenAccount, ClosedAccount, I, W, Accounts
  <2>2. I \in SUBSET Walk!Nodes /\ W \in SUBSET Walk!Nodes
    BY <1>2
  <2>3. Highest(Walk!Larger(r.max, q.max), I \cup W)
    BY <2>1, <2>2, HighestJoins
  <2>. QED  BY <1>2, <1>3, <2>3
<1>7. m.n = 1 + Total(Ones, Inside(C \cup {c}))
  <2>1. r.n = 1 + Total(Ones, I) /\ q.n = Total(Ones, W)
    BY DEF OpenAccount, ClosedAccount, I, W
  <2>2. /\ Total(Ones, I) \in Nat /\ Total(Ones, W) \in Nat
        /\ Total(Ones, Inside(C \cup {c})) = Total(Ones, I) + Total(Ones, W)
    BY <1>4, CountsAreNat
  <2>. QED  BY <1>3, <2>1, <2>2
<1>8. m.functionsSum = Total(IsFunction, Inside(C \cup {c}))
  BY <1>3, <1>4, CountsAreNat DEF OpenAccount, ClosedAccount, I, W
<1>9. m.operators = Total(Ones, Counted(s, v)) + Total(Branches, Inside(C \cup {c}))
  <2>1. /\ r.operators = Total(Ones, Counted(s, v)) + Total(Branches, I)
        /\ q.operators = Total(Branches, W)
    BY DEF OpenAccount, ClosedAccount, I, W
  <2>2. /\ Total(Branches, I) \in Nat /\ Total(Branches, W) \in Nat
        /\ Total(Branches, Inside(C \cup {c})) = Total(Branches, I) + Total(Branches, W)
    BY <1>4, CountsAreNat
  <2>3. Total(Ones, Counted(s, v)) \in Nat
    BY TotalIsNat, CountsAreNat
  <2>. QED  BY <1>3, <2>1, <2>2, <2>3
<1>10. m.wmcKind = kind[s]
  BY <1>3 DEF OpenAccount
<1>11. m.wmc = IF kind[s] = "class" THEN Total(Totals, {d \in C \cup {c} : kind[d] = "function"}) ELSE 0
  <2>1. q.wmcKind = kind[c] /\ (kind[c] = "function" => q.method = Totals[c])
    BY DEF ClosedAccount
  <2>2. r.wmc = IF kind[s] = "class" THEN Total(Totals, F) ELSE 0
    BY DEF OpenAccount
  <2>3. CASE kind[c] = "function"
    <3>1. {d \in C \cup {c} : kind[d] = "function"} = F \cup {c} /\ c \notin F
      BY <2>3
    <3>. HIDE DEF F
    <3>2. Total(Totals, F \cup {c}) = Total(Totals, F) + Totals[c]
      BY <1>1, <3>1, TotalWith, CountsAreNat
    <3>. QED  BY <1>3, <1>10, <2>1, <2>2, <2>3, <3>1, <3>2
  <2>4. CASE kind[c] # "function"
    <3>1. {d \in C \cup {c} : kind[d] = "function"} = F
      BY <2>4
    <3>. QED  BY <1>3, <1>10, <2>1, <2>2, <2>4, <3>1
  <2>. QED  BY <2>3, <2>4
<1>12. m.wmcSum = Total(Weights, Inside(C \cup {c}))
  BY <1>3, <1>4, CountsAreNat DEF OpenAccount, ClosedAccount, I, W
<1>13. m.cyclomatic = 1 + Total(Ones, Counted(s, v)) /\ m.functions = IsFunction[s]
  BY <1>3 DEF OpenAccount
<1>. QED  BY <1>3, <1>5, <1>6, <1>7, <1>8, <1>9, <1>10, <1>11, <1>12, <1>13 DEF OpenAccount, m

(* A space that opens.                                                      *)
LEMMA AccountOpens ==
    ASSUME TreeOk, Preorder, NEW x \in Walk!Spaces
    PROVE  /\ Walk!Measured(Walk!DefaultStats, x) \in Accounts
           /\ OpenAccount(Walk!Measured(Walk!DefaultStats, x), x, {}, x)
<1>1. x \in Walk!Nodes /\ x \in Nat /\ kind[x] # "keyword"
  BY DEF Walk!Spaces, Walk!SpaceKinds, Walk!Nodes
<1>2. Counted(x, x) = {} /\ Inside({}) = {} /\ {c \in {} : kind[c] = "function"} = {}
  <2>1. \A y \in Walk!Nodes : Directly(y, x) => y \in Nat /\ x < y
    BY WhatIsAround DEF Directly
  <2>2. \A y \in Nat : ~(x < y /\ y <= x)
    BY <1>1
  <2>. QED  BY <2>1, <2>2 DEF Counted, Inside
<1>3. /\ Total(Ones, {}) = 0 /\ Total(Complexities, {}) = 0 /\ Total(IsFunction, {}) = 0
      /\ Total(Branches, {}) = 0 /\ Total(Totals, {}) = 0 /\ Total(Weights, {}) = 0
  BY TotalOfNone, CountsAreNat
<1>4. IsFunction[x] = IF kind[x] = "function" THEN 1 ELSE 0
  BY <1>1 DEF IsFunction
<1>5. Highest(0, {})
  BY DEF Highest
<1>6. CASE kind[x] = "function"
  <2>1. Walk!Measured(Walk!DefaultStats, x) = [Walk!DefaultStats EXCEPT !.functions = Walk!DefaultStats.functions + 1]
    BY <1>6 DEF Walk!Measured
  <2>2. /\ Walk!Measured(Walk!DefaultStats, x) \in Accounts
    BY <2>1 DEF Accounts, Walk!DefaultStats
  <2>. QED  BY <1>2, <1>3, <1>4, <1>5, <1>6, <2>1, <2>2 DEF OpenAccount, Walk!DefaultStats
<1>7. CASE kind[x] # "function"
  <2>1. Walk!Measured(Walk!DefaultStats, x) = Walk!DefaultStats
    BY <1>1, <1>7 DEF Walk!Measured
  <2>2. Walk!DefaultStats \in Accounts
    BY DEF Accounts, Walk!DefaultStats
  <2>. QED  BY <1>2, <1>3, <1>4, <1>5, <1>7, <2>1, <2>2 DEF OpenAccount, Walk!DefaultStats
<1>. QED  BY <1>6, <1>7

(* A node that opens none is measured into the space it is directly in.     *)
LEMMA AccountGrows ==
    ASSUME NEW s, NEW C, NEW v \in Nat, NEW x \in Walk!Nodes, x = v + 1, x \notin Walk!Spaces, Directly(x, s),
           NEW r \in Accounts, OpenAccount(r, s, C, v)
    PROVE  Walk!Measured(r, x) \in Accounts /\ OpenAccount(Walk!Measured(r, x), s, C, x)
<1>1. kind[x] # "function"
  BY DEF Walk!Spaces, Walk!SpaceKinds
<1>2. \A y \in Walk!Nodes : y <= x <=> y <= v \/ y = x
  BY DEF Walk!Nodes
<1>3. CASE kind[x] = "keyword"
  <2>1. Counted(s, x) = Counted(s, v) \cup {x} /\ x \notin Counted(s, v)
    <3>1. ~(x <= v)
      OBVIOUS
    <3>. QED  BY <1>2, <1>3, <3>1 DEF Counted
  <2>2. Ones \in [Walk!Nodes -> Nat] /\ Ones[x] = 1
    BY CountsAreNat DEF Ones
  <2>3. /\ Total(Ones, Counted(s, v)) \in Nat
        /\ Total(Ones, Counted(s, x)) = Total(Ones, Counted(s, v)) + 1
    BY <2>1, <2>2, TotalWith
  <2>4. Walk!Measured(r, x) = [r EXCEPT !.cyclomatic = r.cyclomatic + 1, !.operators = r.operators + 1]
    BY <1>3 DEF Walk!Measured
  <2>. DEFINE m == Walk!Measured(r, x)
  <2>5. /\ m \in Accounts /\ m.cyclomatic = r.cyclomatic + 1 /\ m.operators = r.operators + 1
        /\ m.sum = r.sum /\ m.max = r.max /\ m.n = r.n /\ m.functions = r.functions
        /\ m.functionsSum = r.functionsSum /\ m.wmcKind = r.wmcKind /\ m.wmc = r.wmc /\ m.wmcSum = r.wmcSum
    <3>1. r.cyclomatic + 1 \in Nat /\ r.operators + 1 \in Nat
      BY DEF Accounts
    <3>2. \A i, j \in Nat : [r EXCEPT !.cyclomatic = i, !.operators = j] \in Accounts
      BY DEF Accounts
    <3>3. m \in Accounts
      BY <2>4, <3>1, <3>2
    <3>4. /\ m.cyclomatic = r.cyclomatic + 1 /\ m.operators = r.operators + 1
          /\ m.sum = r.sum /\ m.max = r.max /\ m.n = r.n /\ m.functions = r.functions
      BY <2>4 DEF Accounts
    <3>5. /\ m.functionsSum = r.functionsSum /\ m.wmcKind = r.wmcKind /\ m.wmc = r.wmc
          /\ m.wmcSum = r.wmcSum
      BY <2>4 DEF Accounts
    <3>. QED  BY <3>3, <3>4, <3>5
  <2>. HIDE DEF m
  <2>6. Total(Branches, Inside(C)) \in Nat
    BY TotalIsNat, CountsAreNat
  <2>7. m.operators = Total(Ones, Counted(s, x)) + Total(Branches, Inside(C))
    BY <2>3, <2>5, <2>6 DEF OpenAccount
  <2>8. m.cyclomatic = 1 + Total(Ones, Counted(s, x))
    BY <2>3, <2>5 DEF OpenAccount
  <2>9. OpenAccount(m, s, C, x)
    BY <2>5, <2>7, <2>8 DEF OpenAccount
  <2>. QED  BY <2>5, <2>9 DEF m
<1>4. CASE kind[x] # "keyword"
  <2>1. Counted(s, x) = Counted(s, v)
    BY <1>2, <1>4 DEF Counted
  <2>2. Walk!Measured(r, x) = r
    BY <1>1, <1>4 DEF Walk!Measured
  <2>. QED  BY <2>1, <2>2 DEF OpenAccount
<1>. QED  BY <1>3, <1>4

LEMMA AccountStays ==
    ASSUME NEW s, NEW C, NEW v \in Nat, NEW x \in Walk!Nodes, x = v + 1,
           ~(kind[x] = "keyword" /\ Directly(x, s)),
           NEW r, OpenAccount(r, s, C, v)
    PROVE  OpenAccount(r, s, C, x)
<1>1. \A y \in Walk!Nodes : y <= x <=> y <= v \/ y = x
  BY DEF Walk!Nodes
<1>2. Counted(s, x) = Counted(s, v)
  BY <1>1 DEF Counted
<1>. QED  BY <1>2 DEF OpenAccount

-----------------------------------------------------------------------------
(* The accounts along the walk.                                             *)

LEMMA SameAccounts ==
    ASSUME UNCHANGED <<parent, kind>>
    PROVE  /\ Walk!Spaces' = Walk!Spaces
           /\ \A r, s, C, v : OpenAccount(r, s, C, v)' <=> OpenAccount(r, s, C, v)
           /\ \A r, s : ClosedAccount(r, s)' <=> ClosedAccount(r, s)
<1>1. /\ Walk!Spaces' = Walk!Spaces /\ \A t : Walk!Within(t)' = Walk!Within(t) /\ \A C : Inside(C)' = Inside(C)
      /\ \A t, s : Directly(t, s)' <=> Directly(t, s)
  BY DEF Walk!Spaces, Walk!Within, Inside, Directly, Around
<1>2. \A s, v : Counted(s, v)' = Counted(s, v)
  BY <1>1 DEF Counted
<1>3. Branches' = Branches /\ IsFunction' = IsFunction /\ \A s : OwnMethods(s)' = OwnMethods(s)
  BY <1>1, <1>2 DEF Branches, IsFunction, OwnMethods
<1>4. Complexities' = Complexities
  BY <1>3 DEF Complexities
<1>5. Totals' = Totals
  BY <1>1, <1>4 DEF Totals
<1>6. Weights' = Weights
  BY <1>3, <1>5 DEF Weights
<1>7. \A m, W : Highest(m, W)' <=> Highest(m, W)
  BY <1>4 DEF Highest
<1>8. ASSUME NEW CONSTANT r, NEW CONSTANT s, NEW CONSTANT C, NEW CONSTANT v
      PROVE  OpenAccount(r, s, C, v)' <=> OpenAccount(r, s, C, v)
  BY <1>1, <1>2, <1>3, <1>4, <1>5, <1>6, <1>7 DEF OpenAccount
<1>9. ASSUME NEW CONSTANT r, NEW CONSTANT s
      PROVE  ClosedAccount(r, s)' <=> ClosedAccount(r, s)
  BY <1>1, <1>3, <1>4, <1>5, <1>6, <1>7 DEF ClosedAccount
<1>. QED  BY <1>1, <1>8, <1>9

(* Steps that write no account and settle none.                             *)
LEMMA StatsQuiet ==
    ASSUME StatsInv, UNCHANGED <<parent, kind, stats>>, Met' = Met,
           \A s \in Walk!Spaces : Settled(s) => Settled(s)',
           \A s \in Walk!Spaces : ~Settled(s) => ~Settled(s)' /\ Left(s, Met)' = Left(s, Met)
    PROVE  StatsInv'
<1>1. stats' \in [Walk!Nodes -> Accounts]
  BY DEF StatsInv
<1>2. ASSUME NEW CONSTANT s \in Walk!Spaces
      PROVE  /\ s > Met' => stats'[s] = Walk!DefaultStats
             /\ s <= Met' /\ ~Settled(s)' => OpenAccount(stats[s], s, Left(s, Met), Met)'
             /\ s <= Met' /\ Settled(s)' => ClosedAccount(stats[s], s)'
  <2>1. CASE Settled(s)
    <3>1. Settled(s)' /\ (s <= Met => ClosedAccount(stats[s], s)) /\ (s > Met => stats[s] = Walk!DefaultStats)
      BY <2>1 DEF StatsInv
    <3>2. ClosedAccount(stats[s], s)' <=> ClosedAccount(stats[s], s)
      BY SameAccounts
    <3>. QED  BY <3>1, <3>2
  <2>2. CASE ~Settled(s)
    <3>1. /\ ~Settled(s)' /\ (s <= Met => OpenAccount(stats[s], s, Left(s, Met), Met))
          /\ (s > Met => stats[s] = Walk!DefaultStats)
      BY <2>2 DEF StatsInv
    <3>2. OpenAccount(stats[s], s, Left(s, Met), Met)' <=> OpenAccount(stats[s], s, Left(s, Met), Met)
      <4>1. Left(s, Met)' = Left(s, Met)
        BY <2>2
      <4>. QED  BY <4>1, SameAccounts
    <3>. QED  BY <3>1, <3>2
  <2>. QED  BY <2>1, <2>2
<1>. QED  BY <1>1, <1>2, SameAccounts DEF StatsInv

LEMMA StatsInit ==
    ASSUME Walk!Init, RootKinds \subseteq Walk!SpaceKinds
    PROVE  StatsInv
<1>1. stats = [x \in Walk!Nodes |-> Walk!DefaultStats] /\ stack = <<RootEntry>> /\ pc = "loop"
  BY DEF Walk!Init, Walk!Start, RootEntry
<1>2. Walk!DefaultStats \in Accounts
  BY DEF Walk!DefaultStats, Accounts
<1>3. Met = 0
  <2>1. Walk!Last(<<RootEntry>>) = RootEntry
    BY DEF Walk!Last
  <2>. QED  BY <1>1, <2>1 DEF Todo, Met, RootEntry
<1>4. \A s \in Walk!Spaces : s \in Walk!Nodes /\ s > 0 /\ ~(s <= 0)
  BY DEF Walk!Spaces, Walk!Nodes
<1>. QED  BY <1>1, <1>2, <1>3, <1>4 DEF StatsInv

LEMMA StatsPop ==
    ASSUME ReportInv, StatsInv, Walk!Pop \/ Walk!Drained \/ Walk!Finalized
    PROVE  StatsInv'
<1>1. /\ UNCHANGED <<parent, kind, stats, open>> /\ Todo' = Todo /\ Met' = Met
      /\ SpaceNodes + 1 # 0
  <2>1. WalkInv /\ SpaceNodes \in Nat
    BY MetIsNat DEF ReportInv
  <2>. QED  BY <2>1, StepsKeepTodo DEF Walk!Pop, Walk!Drained, Walk!Finalized, Walk!tree, Walk!walk
<1>2. \A t : IsOpen(t)' <=> IsOpen(t)
  BY <1>1 DEF IsOpen
<1>3. \A s, v : Left(s, v)' = Left(s, v)
  BY <1>1, SameChain
<1>4. ~(pc = "finalize" /\ current = Walk!Nothing /\ diff = 0)
  BY DEF Walk!Pop, Walk!Drained, Walk!Finalized
<1>5. ~(pc' = "finalize" /\ current' = Walk!Nothing /\ diff' = 0)
  <2>1. CASE Walk!Pop
    <3>1. stack \in Seq(Entries) /\ stack # <<>> /\ current' = Walk!Last(stack) /\ StackFits
      BY <2>1 DEF Walk!Pop, ReportInv, WalkInv, WalkTyped
    <3>2. Fits(Walk!Last(stack))
      BY <3>1, LastAndFront DEF StackFits
    <3>. QED  BY <3>1, <3>2 DEF Fits, Walk!Nothing, Walk!Nodes
  <2>2. CASE Walk!Drained
    BY <1>1, <2>2 DEF Walk!Drained
  <2>3. CASE Walk!Finalized
    BY <2>3 DEF Walk!Finalized
  <2>. QED  BY <2>1, <2>2, <2>3
<1>6. \A s \in Walk!Spaces : Settled(s)' <=> Settled(s)
  BY <1>2, <1>4, <1>5 DEF Settled
<1>7. \A s \in Walk!Spaces : Left(s, Met)' = Left(s, Met)
  BY <1>1, <1>3
<1>. QED  BY <1>1, <1>6, <1>7, StatsQuiet

LEMMA StatsReturn ==
    ASSUME ReportInv, StatsInv, Walk!Return
    PROVE  StatsInv'
<1>1. WalkInv /\ UNCHANGED <<parent, kind, stats>> /\ Todo' = Todo /\ Met' = Met
  BY StepsKeepTodo DEF ReportInv, Walk!Return, Walk!tree
<1>2. ReportInv' /\ pc' = "returned"
  BY ReportReturn DEF Walk!Return
<1>3. \A s \in Walk!Spaces : Settled(s)'
  <2>1. open' = <<>>
    BY <1>2 DEF ReportInv, Closing
  <2>. QED  BY <2>1 DEF Settled, IsOpen
<1>4. pc = "finalize" /\ current = Walk!Nothing /\ (diff = 0 \/ open = <<>>)
  BY DEF Walk!Return
<1>5. \A s \in Walk!Spaces : Settled(s)
  BY <1>4 DEF Settled, IsOpen
<1>. QED  BY <1>1, <1>3, <1>5, StatsQuiet

(* The file closes when all of it has been met.                             *)
LEMMA StatsFinalizeLast ==
    ASSUME ReportInv, StatsInv, Walk!FinalizeLast
    PROVE  StatsInv'
<1>1. /\ WalkInv /\ TreeOk /\ Preorder /\ SpaceNodes \in Nat /\ SpaceNodes >= 1
      /\ Todo' = Todo /\ Met' = Met /\ current = Walk!Nothing
  BY MetIsNat, StepsKeepTodo, LastStaysOpen DEF ReportInv
<1>2. /\ UNCHANGED <<parent, kind, open, current, pc>> /\ pc = "finalize" /\ diff > 0 /\ diff' = 0 /\ Len(open) = 1
      /\ stats' = [stats EXCEPT ![open[1]] = Walk!Computed(Walk!Summed(stats[open[1]]), kind[open[1]])]
  BY DEF Walk!FinalizeLast, Walk!tree, Walk!walk
<1>3. Met = SpaceNodes
  BY <1>1, <1>2, MetIsNat DEF Todo
<1>4. /\ open[1] = 1 /\ \A t : IsOpen(t) <=> t = 1
  <2>1. DOMAIN open = {1}
    BY <1>2, MetIsNat
  <2>2. open[1] \in Walk!Spaces /\ Around(open[1]) = {open[j] : j \in 1..(1 - 1)}
    BY <2>1 DEF ReportInv, Chain
  <2>3. Around(open[1]) = {} /\ open[1] \in Walk!Nodes
    BY <2>2 DEF Walk!Spaces
  <2>4. open[1] = 1
    BY <1>1, <2>3, WhatIsAround
  <2>. QED  BY <2>1, <2>4 DEF IsOpen
<1>5. 1 \in Walk!Spaces /\ 1 \in Walk!Nodes /\ \A s \in Walk!Spaces : s \in Walk!Nodes /\ s \in Nat /\ s <= Met /\ ~(s > Met)
  BY <1>1, <1>3 DEF TreeOk, Walk!Spaces, Walk!Nodes
<1>6. ~Settled(1)
  <2>1. diff \in Nat /\ diff # 0
    BY <1>1, <1>2 DEF WalkInv, WalkTyped
  <2>. QED  BY <1>4, <2>1 DEF Settled
<1>7. OpenAccount(stats[1], 1, Left(1, Met), Met) /\ stats \in [Walk!Nodes -> Accounts]
  BY <1>5, <1>6 DEF StatsInv
<1>8. Left(1, Met) = {c \in Walk!Spaces : Directly(c, 1)}
  <2>1. ~Directly(1, 1)
    BY <1>1, <1>5, WhatIsAround DEF Directly
  <2>. QED  BY <1>4, <1>5, <2>1 DEF Left
<1>9. /\ Walk!Computed(Walk!Summed(stats[1]), kind[1]) \in Accounts
      /\ ClosedAccount(Walk!Computed(Walk!Summed(stats[1]), kind[1]), 1)
  <2>1. stats[1] \in Accounts
    BY <1>5, <1>7
  <2>. QED  BY <1>1, <1>3, <1>5, <1>7, <1>8, <2>1, AccountCloses
<1>10. \A s \in Walk!Spaces : s # 1 => ClosedAccount(stats[s], s)
  BY <1>4, <1>5 DEF StatsInv, Settled
<1>11. \A s \in Walk!Spaces : ClosedAccount(stats'[s], s)
  BY <1>2, <1>4, <1>5, <1>7, <1>9, <1>10
<1>12. \A s \in Walk!Spaces : Settled(s)'
  BY <1>1, <1>2 DEF Settled
<1>13. stats' \in [Walk!Nodes -> Accounts]
  BY <1>2, <1>4, <1>7, <1>9
<1>14. ASSUME NEW CONSTANT s \in Walk!Spaces PROVE ClosedAccount(stats[s], s)' /\ Settled(s)' /\ ~(s > Met')
  BY <1>1, <1>2, <1>5, <1>11, <1>12, SameAccounts
<1>. QED  BY <1>2, <1>13, <1>14, SameAccounts DEF StatsInv

(* A space that closes has been left: nothing of it is still to be met.     *)
LEMMA NothingIsToCome ==
    ASSUME ReportInv, Walk!FinalizeInner
    PROVE  LET inner == Walk!Last(open)
           IN  /\ Counted(inner, Met) = Counted(inner, SpaceNodes)
               /\ Left(inner, Met) = {c \in Walk!Spaces : Directly(c, inner)}
<1>. DEFINE inner == Walk!Last(open)
            m == Len(open)
            x == current.node
<1>1. /\ TreeOk /\ Preorder /\ Met \in Nat /\ Met <= SpaceNodes /\ SpaceNodes \in Nat
      /\ open \in Seq(Nat) /\ m \in Nat /\ DOMAIN open = 1..m /\ Increasing(open) /\ m > 1
      /\ pc = "finalize" /\ diff > 0 /\ diff \in Nat /\ current \in Entries /\ Frontier(Todo, Met)
  BY MetIsNat DEF Walk!FinalizeInner, ReportInv, WalkInv, WalkTyped
<1>2. inner = open[m] /\ inner \in Walk!Spaces /\ inner \in Walk!Nodes /\ inner \in Nat /\ inner <= Met
  BY <1>1, InnermostOpen
<1>. HIDE DEF inner
<1>3. ASSUME NEW y \in Walk!Nodes, y > Met, inner \in Around(y) PROVE FALSE
  <2>1. Met # SpaceNodes /\ y \in Nat /\ y \in 0..SpaceNodes
    BY <1>1, <1>3 DEF Walk!Nodes
  <2>2. current # Walk!Nothing
    BY <1>1, <2>1, MetIsNat DEF Todo
  <2>3. Arrived
    BY <1>1, <2>2 DEF ReportInv, WalkInv
  <2>4. x \in Walk!Nodes /\ x = Met + 1
    <3>1. Todo = Append(stack, current) /\ stack \in Seq(Entries)
      BY <1>1, <2>2 DEF Todo, ReportInv, WalkInv, WalkTyped
    <3>2. Todo # <<>> /\ Walk!Last(Todo) = current
      <4>1. Append(stack, current) # <<>> /\ Len(Append(stack, current)) = Len(stack) + 1
            /\ Append(stack, current)[Len(stack) + 1] = current
        BY <1>1, <3>1, AppendProperties
      <4>. QED  BY <3>1, <4>1 DEF Walk!Last
    <3>. QED  BY <1>1, <3>2, FrontierMeets
  <2>5. inner \notin Around(x)
    <3>1. /\ Around(x) = {open[i] : i \in 1..current.level} /\ current.level \in Nat
          /\ m = current.level + diff
      BY <1>1, <2>3 DEF Arrived, Fits
    <3>2. ASSUME NEW i \in 1..current.level PROVE open[i] # open[m]
      <4>1. i \in 1..m /\ m \in 1..m /\ i < m
        BY <1>1, <3>1
      <4>2. open[i] < open[m] /\ open[m] \in Nat /\ open[i] \in Nat
        BY <1>1, <4>1 DEF Increasing
      <4>. QED  BY <4>2
    <3>. QED  BY <1>2, <3>1, <3>2
  <2>6. inner \in Walk!PathTo(parent, y)
    BY <1>1, <1>3, WhatIsAround
  <2>7. x \in inner..y
    BY <1>1, <1>2, <1>3, <2>1, <2>4
  <2>8. inner \in Walk!PathTo(parent, x) /\ inner # x
    BY <1>1, <1>2, <2>1, <2>4, <2>6, <2>7, OnePiece
  <2>. QED  BY <1>1, <1>2, <2>4, <2>5, <2>8, WhatIsAround
<1>4. \A y \in Walk!Nodes : Directly(y, inner) => y \in Nat /\ y <= Met /\ y <= SpaceNodes
  BY <1>1, <1>3 DEF Directly, Walk!Nodes
<1>5. Counted(inner, Met) = Counted(inner, SpaceNodes)
  BY <1>4 DEF Counted
<1>6. ASSUME NEW c \in Walk!Spaces, Directly(c, inner) PROVE ~IsOpen(c)
  <2>1. c \in Walk!Nodes /\ inner \in Around(c)
    BY <1>6 DEF Walk!Spaces, Directly
  <2>2. c \in Nat /\ inner < c
    BY <1>1, <2>1, WhatIsAround
  <2>3. ASSUME NEW i \in 1..m PROVE open[i] # c
    <3>0. m \in Nat /\ m > 1 /\ open[i] \in Nat
      BY <1>1
    <3>1. (i = m \/ i < m) /\ m \in 1..m
      <4>. HIDE DEF m
      <4>. QED  BY <3>0
    <3>2. i < m => open[i] < open[m]
      BY <1>1, <3>1 DEF Increasing
    <3>. QED  BY <1>2, <2>2, <3>0, <3>1, <3>2
  <2>. QED  BY <1>1, <2>3 DEF IsOpen
<1>7. Left(inner, Met) = {c \in Walk!Spaces : Directly(c, inner)}
  <2>1. \A c \in Walk!Spaces : Directly(c, inner) => c <= Met
    BY <1>4 DEF Walk!Spaces
  <2>. QED  BY <1>6, <2>1 DEF Left
<1>. QED  BY <1>5, <1>7 DEF inner

LEMMA StatsFinalizeInner ==
    ASSUME ReportInv, StatsInv, Walk!FinalizeInner
    PROVE  StatsInv'
<1>. DEFINE inner == Walk!Last(open)
            outer == Walk!Last(Walk!Front(open))
            closed == Walk!Computed(Walk!Summed(stats[inner]), kind[inner])
            merged == Walk!Merged(Walk!Computed([stats[outer] EXCEPT !.operators = @ + closed.operators], kind[outer]),
                             closed)
            C == Left(outer, Met)
<1>1. /\ WalkInv /\ TreeOk /\ Preorder /\ Met \in Nat /\ Todo' = Todo /\ Met' = Met
  BY MetIsNat, StepsKeepTodo DEF ReportInv
<1>2. /\ UNCHANGED <<parent, kind, current, pc>> /\ pc = "finalize" /\ diff > 0 /\ diff \in Nat /\ Len(open) > 1
      /\ stats' = [stats EXCEPT ![inner] = closed, ![outer] = merged]
  BY <1>1 DEF Walk!FinalizeInner, Walk!tree, WalkInv, WalkTyped
<1>3. /\ inner \in Walk!Spaces /\ outer \in Walk!Spaces /\ inner \in Walk!Nodes /\ outer \in Walk!Nodes
      /\ inner \in Nat /\ outer \in Nat /\ outer < inner /\ inner <= Met /\ Directly(inner, outer)
      /\ IsOpen(inner) /\ IsOpen(outer)
  <2>1. /\ inner = open[Len(open)] /\ outer = open[Len(open) - 1]
        /\ inner \in Walk!Spaces /\ outer \in Walk!Spaces /\ inner \in Walk!Nodes /\ outer \in Walk!Nodes
        /\ inner \in Nat /\ outer \in Nat /\ outer < inner /\ inner <= Met /\ Directly(inner, outer)
    BY <1>2, InnermostOpen
  <2>2. Len(open) \in DOMAIN open /\ Len(open) - 1 \in DOMAIN open
    BY <1>2, MetIsNat
  <2>. QED  BY <2>1, <2>2 DEF IsOpen
<1>4. ReportInv'
  BY ReportFinalizeInner
<1>5. ~(pc = "finalize" /\ current = Walk!Nothing /\ diff = 0)
  BY <1>2
<1>6. ~(pc' = "finalize" /\ current' = Walk!Nothing /\ diff' = 0)
  <2>1. current = Walk!Nothing => diff > Len(open) /\ Len(open) \in Nat
    BY <1>2, MetIsNat DEF ReportInv, Closing
  <2>2. diff' = diff - 1
    BY DEF Walk!FinalizeInner
  <2>. QED  BY <1>2, <2>1, <2>2
<1>7. /\ \A t : IsOpen(t) <=> IsOpen(t)' \/ t = inner
      /\ \A t : t = inner => ~IsOpen(t)'
      /\ \A s \in Walk!Nodes : Left(s, Met)' = IF s = outer THEN C \cup {inner} ELSE Left(s, Met)
  BY InnerIsLeft
<1>8. /\ stats \in [Walk!Nodes -> Accounts] /\ stats[inner] \in Accounts /\ stats[outer] \in Accounts
      /\ OpenAccount(stats[inner], inner, Left(inner, Met), Met)
      /\ OpenAccount(stats[outer], outer, C, Met)
  <2>1. ~Settled(inner) /\ ~Settled(outer) /\ outer <= Met
    BY <1>1, <1>3, <1>5 DEF Settled
  <2>. QED  BY <1>3, <2>1 DEF StatsInv
<1>. HIDE DEF inner, outer
<1>9. closed \in Accounts /\ ClosedAccount(closed, inner)
  <2>1. Counted(inner, Met) = Counted(inner, SpaceNodes) /\ Left(inner, Met) = {c \in Walk!Spaces : Directly(c, inner)}
    BY NothingIsToCome DEF inner
  <2>. QED  BY <1>1, <1>3, <1>8, <2>1, AccountCloses
<1>. HIDE DEF closed
<1>10. merged \in Accounts /\ OpenAccount(merged, outer, C \cup {inner}, Met)
  <2>1. C \in SUBSET {c \in Walk!Spaces : Directly(c, outer)} /\ inner \notin C
    BY <1>3 DEF Left
  <2>. QED  BY <1>1, <1>3, <1>8, <1>9, <2>1, AccountMerges
<1>. HIDE DEF merged, C
<1>11. /\ stats' \in [Walk!Nodes -> Accounts] /\ stats'[inner] = closed /\ stats'[outer] = merged
       /\ \A s \in Walk!Nodes : s # inner /\ s # outer => stats'[s] = stats[s]
  BY <1>2, <1>3, <1>8, <1>9, <1>10
<1>12. \A s \in Walk!Spaces : s # inner => (Settled(s)' <=> Settled(s))
  BY <1>5, <1>6, <1>7 DEF Settled
<1>13. \A s : s = inner => Settled(s)'
  BY <1>7 DEF Settled
<1>14. ~Settled(outer)
  BY <1>3, <1>5 DEF Settled
<1>15. ASSUME NEW CONSTANT s \in Walk!Spaces
       PROVE  /\ s > Met => stats'[s] = Walk!DefaultStats
              /\ s <= Met /\ ~Settled(s)' => OpenAccount(stats'[s], s, Left(s, Met)', Met)
              /\ s <= Met /\ Settled(s)' => ClosedAccount(stats'[s], s)
  <2>0. s \in Walk!Nodes /\ s \in Nat
    BY DEF Walk!Spaces, Walk!Nodes
  <2>1. CASE s = inner
    BY <1>1, <1>3, <1>9, <1>11, <1>13, <2>1
  <2>2. CASE s = outer
    <3>1. ~Settled(s)' /\ s <= Met /\ ~(s > Met)
      BY <1>1, <1>3, <1>12, <1>14, <2>2
    <3>2. Left(s, Met)' = C \cup {inner}
      BY <1>3, <1>7, <2>2
    <3>. QED  BY <1>10, <1>11, <2>2, <3>1, <3>2
  <2>3. CASE s # inner /\ s # outer
    <3>1. stats'[s] = stats[s] /\ Left(s, Met)' = Left(s, Met)
      BY <1>7, <1>11, <2>0, <2>3
    <3>. QED  BY <1>12, <2>3, <3>1 DEF StatsInv
  <2>. QED  BY <2>1, <2>2, <2>3
<1>16. ASSUME NEW CONSTANT s \in Walk!Spaces
       PROVE  /\ s <= Met' /\ ~Settled(s)' => OpenAccount(stats[s], s, Left(s, Met), Met)'
              /\ s <= Met' /\ Settled(s)' => ClosedAccount(stats[s], s)'
  <2>1. OpenAccount(stats[s], s, Left(s, Met), Met)' <=> OpenAccount(stats'[s], s, Left(s, Met)', Met)
    BY <1>1, <1>2, SameAccounts
  <2>2. ClosedAccount(stats[s], s)' <=> ClosedAccount(stats'[s], s)
    BY <1>2, SameAccounts
  <2>. QED  BY <1>1, <1>15, <2>1, <2>2
<1>17. Walk!Spaces' = Walk!Spaces
  BY <1>2, SameAccounts
<1>. QED  BY <1>1, <1>11, <1>15, <1>16, <1>17 DEF StatsInv

(* A node is measured into the space it opens, or is directly in.           *)
LEMMA StatsVisit ==
    ASSUME ReportInv, StatsInv, Walk!Visit
    PROVE  StatsInv'
<1>. DEFINE x == current.node
<1>1. /\ WalkInv /\ TreeOk /\ Preorder /\ pc = "visit" /\ pc' = "loop" /\ UNCHANGED <<parent, kind>>
      /\ stats' = LET opened == IF x \in Walk!Spaces THEN Append(open, x) ELSE open
                  IN  IF opened = <<>> THEN stats
                      ELSE [stats EXCEPT ![Walk!Last(opened)] = Walk!Measured(stats[Walk!Last(opened)], x)]
  BY MetIsNat DEF ReportInv, Walk!Visit, Walk!tree
<1>2. /\ Met + 1 = x /\ Met' = x
      /\ Met \in Nat /\ x \in Walk!Nodes /\ x \in Nat /\ x >= 1 /\ x <= SpaceNodes
      /\ Walk!Spaces' = Walk!Spaces
      /\ \A t : IsOpen(t)' <=> IsOpen(t) \/ (x \in Walk!Spaces /\ t = x)
      /\ \A s \in Walk!Nodes : Left(s, Met)' = Left(s, Met)
  BY VisitMeets
<1>3. \A s : (Settled(s) <=> ~IsOpen(s)) /\ (Settled(s)' <=> ~IsOpen(s)')
  BY <1>1 DEF Settled
<1>4. \A s \in Walk!Spaces : s \in Walk!Nodes /\ s \in Nat /\ (s <= x <=> s <= Met \/ s = x) /\ (s > x => s > Met)
  BY <1>2 DEF Walk!Spaces, Walk!Nodes
<1>5. stats \in [Walk!Nodes -> Accounts]
  BY DEF StatsInv
<1>6. open \in Seq(Nat) /\ Lists(open, Around(x))
  BY <1>1, MetIsNat, OpenIsAround
<1>. HIDE DEF x
<1>7. /\ stats' \in [Walk!Nodes -> Accounts]
      /\ \A s \in Walk!Spaces :
           /\ s > x => stats'[s] = Walk!DefaultStats
           /\ s <= x /\ ~Settled(s)' => OpenAccount(stats'[s], s, Left(s, Met), x)
           /\ s <= x /\ Settled(s)' => ClosedAccount(stats'[s], s)
  <2>1. CASE x \in Walk!Spaces
    <3>1. Append(open, x) # <<>> /\ Walk!Last(Append(open, x)) = x
      <4>1. /\ Append(open, x) # <<>> /\ Len(Append(open, x)) = Len(open) + 1
            /\ Append(open, x)[Len(open) + 1] = x
        BY <1>2, <1>6, AppendProperties
      <4>. QED  BY <4>1 DEF Walk!Last
    <3>2. stats' = [stats EXCEPT ![x] = Walk!Measured(stats[x], x)]
      BY <1>1, <2>1, <3>1
    <3>3. stats[x] = Walk!DefaultStats
      BY <1>2, <2>1 DEF StatsInv
    <3>4. /\ Walk!Measured(Walk!DefaultStats, x) \in Accounts
          /\ OpenAccount(Walk!Measured(Walk!DefaultStats, x), x, {}, x)
      BY <1>1, <2>1, AccountOpens
    <3>5. Left(x, Met) = {}
      <4>1. \A t \in Walk!Spaces : Directly(t, x) => x < t
        BY <1>1, <1>4, WhatIsAround DEF Directly
      <4>2. \A t \in Walk!Spaces : ~(x < t /\ t <= Met)
        BY <1>2, <1>4
      <4>. QED  BY <4>1, <4>2 DEF Left
    <3>6. stats' \in [Walk!Nodes -> Accounts] /\ stats'[x] = Walk!Measured(Walk!DefaultStats, x)
      BY <1>2, <1>5, <3>2, <3>3, <3>4
    <3>7. ASSUME NEW CONSTANT s \in Walk!Spaces, s # x
          PROVE  /\ s > x => stats'[s] = Walk!DefaultStats
                 /\ s <= x /\ ~Settled(s)' => OpenAccount(stats'[s], s, Left(s, Met), x)
                 /\ s <= x /\ Settled(s)' => ClosedAccount(stats'[s], s)
      <4>1. stats'[s] = stats[s] /\ (Settled(s)' <=> Settled(s))
        BY <1>2, <1>3, <1>4, <1>5, <3>2, <3>7
      <4>2. kind[x] # "keyword"
        BY <2>1 DEF Walk!Spaces, Walk!SpaceKinds
      <4>3. OpenAccount(stats[s], s, Left(s, Met), Met) => OpenAccount(stats[s], s, Left(s, Met), x)
        BY <1>2, <4>2, AccountStays
      <4>. QED  BY <1>4, <3>7, <4>1, <4>3 DEF StatsInv
    <3>8. (\A t : t = x => ~Settled(t)') /\ ~(x > x)
      BY <1>2, <1>3, <2>1
    <3>. QED  BY <3>4, <3>5, <3>6, <3>7, <3>8
  <2>2. CASE x \notin Walk!Spaces
    <3>. DEFINE o == Walk!Last(open)
    <3>1. open # <<>> /\ x # 1
      <4>1. x # 1
        BY <1>1, <2>2 DEF TreeOk
      <4>. QED  BY <1>1, <1>2, <4>1 DEF ReportInv, Closing
    <3>2. o \in Walk!Spaces /\ o \in Walk!Nodes /\ o \in Nat /\ IsOpen(o) /\ Directly(x, o)
      <4>1. Len(open) \in DOMAIN open /\ o = open[Len(open)] /\ Len(open) \in Nat /\ DOMAIN open = 1..Len(open)
        <5>1. Len(open) \in DOMAIN open /\ o = open[Len(open)]
          BY <1>6, <3>1, LastAndFront
        <5>2. Len(open) \in Nat /\ DOMAIN open = 1..Len(open)
          BY <1>6
        <5>. QED  BY <5>1, <5>2
      <4>2. o \in Around(x)
        BY <1>6, <4>1 DEF Lists
      <4>3. o \in Walk!Spaces
        BY <1>1, <1>2, <4>2, WhatIsAround
      <4>4. ASSUME NEW i \in DOMAIN open PROVE open[i] <= open[Len(open)]
        <5>1. open[i] \in Nat /\ open[Len(open)] \in Nat /\ (i < Len(open) \/ i = Len(open))
          BY <1>6, <4>1
        <5>2. i < Len(open) => open[i] < open[Len(open)]
          BY <1>6, <4>1 DEF Lists, Increasing
        <5>. QED  BY <5>1, <5>2
      <4>5. \A y \in Around(x) : y <= o
        BY <1>6, <4>1, <4>4 DEF Lists
      <4>. QED  BY <1>4, <4>1, <4>2, <4>3, <4>5 DEF IsOpen, Directly
    <3>3. stats' = [stats EXCEPT ![o] = Walk!Measured(stats[o], x)]
      BY <1>1, <2>2, <3>1
    <3>. HIDE DEF o
    <3>4. o <= Met /\ o <= x /\ ~(o > x) /\ ~Settled(o) /\ \A t : t = o => ~Settled(t)'
      <4>1. o < x
        BY <1>1, <1>2, <3>2, WhatIsAround DEF Directly
      <4>2. o <= Met /\ o <= x /\ ~(o > x)
        BY <1>2, <3>2, <4>1
      <4>. QED  BY <1>2, <1>3, <3>2, <4>2
    <3>5. stats[o] \in Accounts /\ OpenAccount(stats[o], o, Left(o, Met), Met)
      BY <1>5, <3>2, <3>4 DEF StatsInv
    <3>6. /\ Walk!Measured(stats[o], x) \in Accounts
          /\ OpenAccount(Walk!Measured(stats[o], x), o, Left(o, Met), x)
      BY <1>2, <2>2, <3>2, <3>5, AccountGrows
    <3>7. stats' \in [Walk!Nodes -> Accounts] /\ stats'[o] = Walk!Measured(stats[o], x)
      BY <1>5, <3>2, <3>3, <3>6
    <3>8. ASSUME NEW CONSTANT s \in Walk!Spaces, s # o
          PROVE  /\ s > x => stats'[s] = Walk!DefaultStats
                 /\ s <= x /\ ~Settled(s)' => OpenAccount(stats'[s], s, Left(s, Met), x)
                 /\ s <= x /\ Settled(s)' => ClosedAccount(stats'[s], s)
      <4>1. stats'[s] = stats[s]
        BY <1>4, <1>5, <3>3, <3>8
      <4>2. Settled(s)' <=> Settled(s)
        BY <1>2, <1>3, <2>2
      <4>3. ~Directly(x, s)
        <5>1. Directly(x, s) => s <= o /\ o <= s
          BY <3>2 DEF Directly
        <5>. QED  BY <1>4, <3>2, <3>8, <5>1
      <4>4. OpenAccount(stats[s], s, Left(s, Met), Met) => OpenAccount(stats[s], s, Left(s, Met), x)
        BY <1>2, <4>3, AccountStays
      <4>5. s # x
        BY <2>2
      <4>. QED  BY <1>4, <4>1, <4>2, <4>4, <4>5 DEF StatsInv
    <3>. QED  BY <3>4, <3>6, <3>7, <3>8
  <2>. QED  BY <2>1, <2>2
<1>8. ASSUME NEW CONSTANT s \in Walk!Spaces
      PROVE  /\ s <= Met' /\ ~Settled(s)' => OpenAccount(stats[s], s, Left(s, Met), Met)'
             /\ s <= Met' /\ Settled(s)' => ClosedAccount(stats[s], s)'
  <2>1. OpenAccount(stats[s], s, Left(s, Met), Met)' <=> OpenAccount(stats'[s], s, Left(s, Met), x)
    BY <1>1, <1>2, <1>4, SameAccounts
  <2>2. ClosedAccount(stats[s], s)' <=> ClosedAccount(stats'[s], s)
    BY <1>1, SameAccounts
  <2>. QED  BY <1>2, <1>7, <2>1, <2>2
<1>. QED  BY <1>2, <1>7, <1>8 DEF StatsInv

LEMMA StatsNext ==
    ASSUME ReportInv, StatsInv, Walk!Next
    PROVE  StatsInv'
BY StatsPop, StatsFinalizeLast, StatsFinalizeInner, StatsReturn, StatsVisit DEF Walk!Next

LEMMA StatsStutters ==
    ASSUME StatsInv, UNCHANGED Walk!vars
    PROVE  StatsInv'
<1>1. UNCHANGED <<parent, kind, stack, open, current, diff, stats, pc>>
  BY DEF Walk!vars, Walk!tree, Walk!walk
<1>2. Todo' = Todo /\ Met' = Met
  BY <1>1 DEF Todo, Met
<1>3. \A s : Settled(s)' <=> Settled(s)
  BY <1>1 DEF Settled, IsOpen
<1>4. \A s : Left(s, Met)' = Left(s, Met)
  BY <1>1, <1>2, SameChain
<1>. QED  BY <1>1, <1>2, <1>3, <1>4, StatsQuiet

-----------------------------------------------------------------------------
(* The metrics of a file that has been walked.                              *)

LEMMA SameSize == \A S : Walk!Cardinality(S) = Cardinality(S)
BY DEF Walk!Cardinality, Cardinality

LEMMA TotalAgrees ==
    ASSUME NEW f \in [Walk!Nodes -> Nat], NEW g \in [Walk!Nodes -> Nat], NEW A, NEW B,
           \A n \in Walk!Nodes : n \in B => n \in A /\ f[n] = g[n],
           \A n \in Walk!Nodes : n \in A /\ n \notin B => f[n] = 0
    PROVE  Total(f, A) = Total(g, B)
<1>1. PICK a \in [0..SpaceNodes -> Nat] : SumsUp(a, f, A)
  BY TotalUnfolds
<1>2. PICK b \in [0..SpaceNodes -> Nat] : SumsUp(b, g, B)
  BY TotalUnfolds
<1>0. SpaceNodes \in Nat /\ SpaceNodes \in 0..SpaceNodes
  BY SizeAssumption
<1>. DEFINE T == {k \in 0..SpaceNodes : a[k] = b[k]}
<1>3. 0 \in T
  BY <1>0, <1>1, <1>2 DEF SumsUp
<1>4. ASSUME NEW k \in 0..(SpaceNodes - 1), k \in T PROVE k + 1 \in T
  <2>1. k + 1 \in Walk!Nodes /\ (k + 1) - 1 = k /\ k + 1 \in 0..SpaceNodes /\ k \in 0..SpaceNodes
    BY <1>0 DEF Walk!Nodes
  <2>2. a[k] \in Nat /\ f[k + 1] \in Nat /\ g[k + 1] \in Nat /\ a[k] = b[k]
    BY <1>4, <2>1
  <2>3. /\ a[k + 1] = IF k + 1 \in A THEN a[k] + f[k + 1] ELSE a[k]
        /\ b[k + 1] = IF k + 1 \in B THEN b[k] + g[k + 1] ELSE b[k]
    BY <1>1, <1>2, <2>1 DEF SumsUp
  <2>4. a[k + 1] = b[k + 1]
    <3>1. k + 1 \in B => k + 1 \in A /\ f[k + 1] = g[k + 1]
      BY <2>1
    <3>2. k + 1 \in A /\ k + 1 \notin B => f[k + 1] = 0
      BY <2>1
    <3>. QED  BY <2>2, <2>3, <3>1, <3>2
  <2>. QED  BY <2>1, <2>4
<1>. HIDE DEF T
<1>5. SpaceNodes \in T
  BY <1>0, <1>3, <1>4, CountingUp
<1>. QED  BY <1>1, <1>2, <1>5 DEF T, SumsUp

LEMMA GreatestExists ==
    ASSUME NEW S \in SUBSET Nat, S # {}, NEW n \in Nat, \A y \in S : y <= n
    PROVE  \E m \in S : \A y \in S : y <= m
<1>. DEFINE Bounds == {k \in Nat : \A y \in S : y <= k}
<1>1. PICK m \in Bounds : \A k \in Bounds : m <= k
  <2>1. n \in Bounds /\ Bounds \in SUBSET Nat
    OBVIOUS
  <2>. HIDE DEF Bounds
  <2>. QED  BY <2>1, LeastExists
<1>2. ASSUME m \notin S PROVE FALSE
  <2>1. \A y \in S : y \in Nat /\ y < m
    BY <1>2
  <2>2. m \in Nat /\ m > 0
    <3>1. PICK y \in S : TRUE
      OBVIOUS
    <3>2. m \in Nat /\ y \in Nat /\ y < m
      BY <2>1
    <3>. QED  BY <3>2
  <2>3. m - 1 \in Nat /\ \A y \in S : y <= m - 1
    BY <2>1, <2>2
  <2>4. m - 1 \in Bounds
    BY <2>3
  <2>. QED  BY <1>1, <2>2, <2>4
<1>. QED  BY <1>2

(* The innermost space around a node is the one it is directly in.          *)
LEMMA InnermostIs ==
    ASSUME TreeOk, Preorder, NEW x \in Walk!Nodes, x # 1
    PROVE  \A s : Walk!Innermost(x) = s <=> Directly(x, s)
<1>1. /\ x \in Nat /\ Around(x) \subseteq Nat /\ Around(x) # {} /\ \A y \in Around(x) : y <= x
  BY WhatIsAround
<1>2. Walk!Ancestors(x) \cap Walk!Spaces = Around(x)
  <2>1. Walk!PathTo(parent, x) = {x} \cup Walk!PathTo(parent, parent[x]) /\ Walk!PathTo(parent, parent[x]) \subseteq 1..parent[x]
    BY PathHasNodes
  <2>2. x \notin 1..parent[x]
    BY ParentIsNode
  <2>. QED  BY <2>1, <2>2 DEF Walk!Ancestors, Around
<1>3. PICK m \in Around(x) : \A y \in Around(x) : y <= m
  BY <1>1, GreatestExists
<1>4. Walk!Innermost(x) = m
  BY <1>1, <1>2, <1>3, MaxIs DEF Walk!Innermost
<1>5. ASSUME NEW s, Directly(x, s) PROVE s = m
  <2>1. s <= m /\ m <= s /\ s \in Nat /\ m \in Nat
    BY <1>1, <1>3, <1>5 DEF Directly
  <2>. QED  BY <2>1
<1>6. Directly(x, m)
  BY <1>3 DEF Directly
<1>. QED  BY <1>4, <1>5, <1>6

LEMMA ReferenceIs ==
    ASSUME TreeOk, Preorder, kind[1] = "unit"
    PROVE  /\ \A s \in Walk!Nodes : Walk!Complexity(s) = Complexities[s] /\ Walk!Complexity(s) - 1 = Branches[s]
           /\ \A s \in Walk!Nodes : Walk!Methods(s) = OwnMethods(s)
<1>1. ASSUME NEW s \in Walk!Nodes
      PROVE  {x \in Walk!Nodes : kind[x] = "keyword" /\ Walk!Innermost(x) = s} = Counted(s, SpaceNodes)
  <2>1. \A x \in Walk!Nodes : kind[x] = "keyword" => x # 1 /\ x <= SpaceNodes
    BY ParentIsNode
  <2>2. \A x \in Walk!Nodes : kind[x] = "keyword" => (Walk!Innermost(x) = s <=> Directly(x, s))
    BY <2>1, InnermostIs
  <2>. QED  BY <2>1, <2>2 DEF Counted
<1>2. ASSUME NEW s \in Walk!Nodes PROVE Walk!Complexity(s) = Complexities[s] /\ Walk!Complexity(s) - 1 = Branches[s]
  <2>1. Counted(s, SpaceNodes) \in SUBSET Walk!Nodes
    BY DEF Counted
  <2>2. Cardinality(Counted(s, SpaceNodes)) = Branches[s]
    BY <2>1, CountIsTotal DEF Branches
  <2>3. Walk!Complexity(s) = 1 + Branches[s] /\ Complexities[s] = 1 + Branches[s]
    BY <1>1, <2>2, SameSize DEF Walk!Complexity, Complexities
  <2>4. Branches[s] \in Nat
    BY CountsAreNat
  <2>. QED  BY <2>3, <2>4
<1>3. ASSUME NEW s \in Walk!Nodes PROVE Walk!Methods(s) = OwnMethods(s)
  <2>1. \A x \in Walk!Nodes : kind[x] = "function" => (Walk!Innermost(x) = s <=> Directly(x, s))
    BY InnermostIs
  <2>. QED  BY <2>1 DEF Walk!Methods, OwnMethods
<1>. QED  BY <1>2, <1>3

(* The sums of the reference, each a fold over a set.                       *)
LEMMA SumOfComplexities ==
    ASSUME NEW S \in SUBSET Walk!Nodes, \A t \in S : Walk!Complexity(t) = Complexities[t]
    PROVE  Walk!MapThenSumSet(Walk!Complexity, S) = Total(Complexities, S)
<1>. DEFINE Def(it) == it = [T \in SUBSET S |->
                              IF T = {} THEN 0 ELSE Walk!Complexity(Some(T)) + it[T \ {Some(T)}]]
            sum == CHOOSE it : Def(it)
            totals == [T \in SUBSET S |-> Total(Complexities, T)]
<1>1. Walk!MapThenSumSet(Walk!Complexity, S) = sum[S]
  BY DEF Walk!MapThenSumSet, Walk!MapThenFoldSet, Some
<1>2. \A T \in SUBSET S : T # {} => Walk!Complexity(Some(T)) = Complexities[Some(T)]
  BY DEF Some
<1>3. \A it : Def(it) <=> it = [T \in SUBSET S |-> SumStep(Complexities, it, T)]
  BY <1>2 DEF SumStep
<1>4. Complexities \in [Walk!Nodes -> Nat]
  BY CountsAreNat
<1>. HIDE DEF Def
<1>5. Def(totals)
  <2>1. \A T \in SUBSET S : Total(Complexities, T) = SumStep(Complexities, totals, T)
    BY <1>4, SumRuns
  <2>2. totals = [T \in SUBSET S |-> SumStep(Complexities, totals, T)]
    BY <2>1
  <2>. HIDE DEF totals
  <2>. QED  BY <1>3, <2>2
<1>6. Def(sum)
  BY <1>5
<1>. HIDE DEF sum
<1>7. sum = [T \in SUBSET S |-> SumStep(Complexities, sum, T)]
  BY <1>3, <1>6
<1>. QED  BY <1>1, <1>4, <1>7, SumRuns

LEMMA SumOfBranches ==
    ASSUME NEW S \in SUBSET Walk!Nodes, \A t \in S : Walk!Complexity(t) - 1 = Branches[t]
    PROVE  Walk!MapThenSumSet(LAMBDA t : Walk!Complexity(t) - 1, S) = Total(Branches, S)
<1>. DEFINE Def(it) == it = [T \in SUBSET S |->
                              IF T = {} THEN 0 ELSE (Walk!Complexity(Some(T)) - 1) + it[T \ {Some(T)}]]
            sum == CHOOSE it : Def(it)
            totals == [T \in SUBSET S |-> Total(Branches, T)]
<1>1. Walk!MapThenSumSet(LAMBDA t : Walk!Complexity(t) - 1, S) = sum[S]
  BY DEF Walk!MapThenSumSet, Walk!MapThenFoldSet, Some
<1>2. \A T \in SUBSET S : T # {} => Walk!Complexity(Some(T)) - 1 = Branches[Some(T)]
  BY DEF Some
<1>3. \A it : Def(it) <=> it = [T \in SUBSET S |-> SumStep(Branches, it, T)]
  BY <1>2 DEF SumStep
<1>4. Branches \in [Walk!Nodes -> Nat]
  BY CountsAreNat
<1>. HIDE DEF Def
<1>5. Def(totals)
  <2>1. \A T \in SUBSET S : Total(Branches, T) = SumStep(Branches, totals, T)
    BY <1>4, SumRuns
  <2>2. totals = [T \in SUBSET S |-> SumStep(Branches, totals, T)]
    BY <2>1
  <2>. HIDE DEF totals
  <2>. QED  BY <1>3, <2>2
<1>6. Def(sum)
  BY <1>5
<1>. HIDE DEF sum
<1>7. sum = [T \in SUBSET S |-> SumStep(Branches, sum, T)]
  BY <1>3, <1>6
<1>. QED  BY <1>1, <1>4, <1>7, SumRuns

LEMMA SumOfTotals ==
    ASSUME NEW S \in SUBSET Walk!Nodes, \A t \in S : Walk!TotalComplexity(t) = Totals[t]
    PROVE  Walk!MapThenSumSet(Walk!TotalComplexity, S) = Total(Totals, S)
<1>. DEFINE Def(it) == it = [T \in SUBSET S |->
                              IF T = {} THEN 0 ELSE Walk!TotalComplexity(Some(T)) + it[T \ {Some(T)}]]
            sum == CHOOSE it : Def(it)
            totals == [T \in SUBSET S |-> Total(Totals, T)]
<1>1. Walk!MapThenSumSet(Walk!TotalComplexity, S) = sum[S]
  BY DEF Walk!MapThenSumSet, Walk!MapThenFoldSet, Some
<1>2. \A T \in SUBSET S : T # {} => Walk!TotalComplexity(Some(T)) = Totals[Some(T)]
  BY DEF Some
<1>3. \A it : Def(it) <=> it = [T \in SUBSET S |-> SumStep(Totals, it, T)]
  BY <1>2 DEF SumStep
<1>4. Totals \in [Walk!Nodes -> Nat]
  BY CountsAreNat
<1>. HIDE DEF Def
<1>5. Def(totals)
  <2>1. \A T \in SUBSET S : Total(Totals, T) = SumStep(Totals, totals, T)
    BY <1>4, SumRuns
  <2>2. totals = [T \in SUBSET S |-> SumStep(Totals, totals, T)]
    BY <2>1
  <2>. HIDE DEF totals
  <2>. QED  BY <1>3, <2>2
<1>6. Def(sum)
  BY <1>5
<1>. HIDE DEF sum
<1>7. sum = [T \in SUBSET S |-> SumStep(Totals, sum, T)]
  BY <1>3, <1>6
<1>. QED  BY <1>1, <1>4, <1>7, SumRuns

LEMMA SumOfWeights ==
    ASSUME NEW S \in SUBSET Walk!Nodes, \A t \in S : Walk!ClassComplexity(t) = Weights[t]
    PROVE  Walk!MapThenSumSet(Walk!ClassComplexity, S) = Total(Weights, S)
<1>. DEFINE Def(it) == it = [T \in SUBSET S |->
                              IF T = {} THEN 0 ELSE Walk!ClassComplexity(Some(T)) + it[T \ {Some(T)}]]
            sum == CHOOSE it : Def(it)
            totals == [T \in SUBSET S |-> Total(Weights, T)]
<1>1. Walk!MapThenSumSet(Walk!ClassComplexity, S) = sum[S]
  BY DEF Walk!MapThenSumSet, Walk!MapThenFoldSet, Some
<1>2. \A T \in SUBSET S : T # {} => Walk!ClassComplexity(Some(T)) = Weights[Some(T)]
  BY DEF Some
<1>3. \A it : Def(it) <=> it = [T \in SUBSET S |-> SumStep(Weights, it, T)]
  BY <1>2 DEF SumStep
<1>4. Weights \in [Walk!Nodes -> Nat]
  BY CountsAreNat
<1>. HIDE DEF Def
<1>5. Def(totals)
  <2>1. \A T \in SUBSET S : Total(Weights, T) = SumStep(Weights, totals, T)
    BY <1>4, SumRuns
  <2>2. totals = [T \in SUBSET S |-> SumStep(Weights, totals, T)]
    BY <2>1
  <2>. HIDE DEF totals
  <2>. QED  BY <1>3, <2>2
<1>6. Def(sum)
  BY <1>5
<1>. HIDE DEF sum
<1>7. sum = [T \in SUBSET S |-> SumStep(Weights, sum, T)]
  BY <1>3, <1>6
<1>. QED  BY <1>1, <1>4, <1>7, SumRuns

(* What metrics() has written when it returns.                              *)
LEMMA MetricsTell ==
    ASSUME ReportInv, StatsInv, kind[1] = "unit"
    PROVE  Walk!MetricsAddUp
<1>. SUFFICES ASSUME pc = "returned", NEW s \in Walk!Spaces
              PROVE  /\ stats[s].sum = Walk!TotalComplexity(s)
                     /\ stats[s].max = Walk!Max({Walk!Complexity(t) : t \in Walk!Within(s)})
                     /\ stats[s].n = Walk!Cardinality(Walk!Within(s))
                     /\ stats[s].functionsSum = Walk!Cardinality({t \in Walk!Within(s) : kind[t] = "function"})
                     /\ stats[s].halstead = Walk!MapThenSumSet(LAMBDA t : Walk!Complexity(t) - 1, Walk!Within(s))
                     /\ stats[s].wmc = Walk!ClassComplexity(s)
                     /\ stats[s].wmcSum = Walk!MapThenSumSet(Walk!ClassComplexity, Walk!Within(s))
  BY DEF Walk!MetricsAddUp
<1>. DEFINE r == stats[s]
            W == Walk!Within(s)
<1>1. /\ TreeOk /\ Preorder /\ SpaceNodes \in Nat /\ open = <<>> /\ current = Walk!Nothing /\ Met = SpaceNodes
  BY MetIsNat DEF ReportInv, Closing, Todo
<1>2. \A t \in Walk!Spaces : t \in Walk!Nodes /\ t <= Met
  BY <1>1 DEF Walk!Spaces, Walk!Nodes
<1>3. r \in Accounts /\ ClosedAccount(r, s)
  <2>1. Settled(s)
    BY <1>1 DEF Settled, IsOpen
  <2>. QED  BY <1>2, <2>1 DEF StatsInv
<1>4. W \in SUBSET Walk!Nodes /\ W # {}
  BY <1>1, <1>2, PathHasNodes DEF Walk!Within
<1>5. /\ \A t \in Walk!Nodes : Walk!Complexity(t) = Complexities[t] /\ Walk!Complexity(t) - 1 = Branches[t]
      /\ \A t \in Walk!Nodes : Walk!Methods(t) = OwnMethods(t)
  BY <1>1, ReferenceIs
<1>6. \A t \in Walk!Nodes : Walk!TotalComplexity(t) = Totals[t]
  <2>1. ASSUME NEW t \in Walk!Nodes PROVE Walk!TotalComplexity(t) = Totals[t]
    <3>1. Walk!Within(t) \in SUBSET Walk!Nodes
      BY <1>2 DEF Walk!Within
    <3>2. Walk!MapThenSumSet(Walk!Complexity, Walk!Within(t)) = Total(Complexities, Walk!Within(t))
      BY <1>5, <3>1, SumOfComplexities
    <3>. QED  BY <3>2 DEF Walk!TotalComplexity, Totals
  <2>. QED  BY <2>1
<1>7. \A t \in Walk!Nodes : Walk!ClassComplexity(t) = Weights[t]
  <2>1. ASSUME NEW t \in Walk!Nodes PROVE Walk!ClassComplexity(t) = Weights[t]
    <3>1. Walk!Methods(t) \in SUBSET Walk!Nodes
      BY DEF Walk!Methods
    <3>2. Walk!MapThenSumSet(Walk!TotalComplexity, Walk!Methods(t)) = Total(Totals, Walk!Methods(t))
      BY <1>6, <3>1, SumOfTotals
    <3>. QED  BY <1>5, <3>2 DEF Walk!ClassComplexity, Weights
  <2>. QED  BY <2>1
<1>. HIDE DEF r, W
<1>8. r.sum = Walk!TotalComplexity(s)
  BY <1>2, <1>3, <1>6 DEF ClosedAccount
<1>9. r.max = Walk!Max({Walk!Complexity(t) : t \in W})
  <2>. DEFINE S == {Walk!Complexity(t) : t \in W}
  <2>1. Highest(r.max, W) /\ r.max \in Nat
    BY <1>3 DEF ClosedAccount, Accounts, W
  <2>2. \A t \in W : Walk!Complexity(t) = Complexities[t] /\ Complexities[t] \in Nat
    BY <1>4, <1>5, CountsAreNat
  <2>3. S \in SUBSET Nat /\ r.max \in S /\ \A y \in S : y <= r.max
    BY <1>4, <2>1, <2>2 DEF Highest
  <2>. HIDE DEF S
  <2>4. Walk!Max(S) = r.max
    BY <2>3, MaxIs
  <2>. QED  BY <2>4 DEF S
<1>10. r.n = Walk!Cardinality(W)
  BY <1>3, <1>4, CountIsTotal, SameSize DEF ClosedAccount, W
<1>11. r.functionsSum = Walk!Cardinality({t \in W : kind[t] = "function"})
  <2>. DEFINE F == {t \in W : kind[t] = "function"}
  <2>1. F \in SUBSET Walk!Nodes
    BY <1>4
  <2>2. Cardinality(F) = Total(Ones, F)
    BY <2>1, CountIsTotal
  <2>3. /\ \A n \in Walk!Nodes : n \in F => n \in W /\ IsFunction[n] = Ones[n]
        /\ \A n \in Walk!Nodes : n \in W /\ n \notin F => IsFunction[n] = 0
    BY DEF IsFunction, Ones
  <2>. HIDE DEF F
  <2>4. Total(IsFunction, W) = Total(Ones, F)
    BY <2>3, TotalAgrees, CountsAreNat
  <2>5. r.functionsSum = Total(IsFunction, W)
    BY <1>3 DEF ClosedAccount, W
  <2>. QED  BY <2>2, <2>4, <2>5, SameSize DEF F
<1>12. r.halstead = Walk!MapThenSumSet(LAMBDA t : Walk!Complexity(t) - 1, W)
  <2>1. Walk!MapThenSumSet(LAMBDA t : Walk!Complexity(t) - 1, W) = Total(Branches, W)
    BY <1>4, <1>5, SumOfBranches
  <2>. QED  BY <1>3, <2>1 DEF ClosedAccount, W
<1>13. r.wmc = Walk!ClassComplexity(s)
  BY <1>2, <1>3, <1>7 DEF ClosedAccount
<1>14. r.wmcSum = Walk!MapThenSumSet(Walk!ClassComplexity, W)
  <2>1. Walk!MapThenSumSet(Walk!ClassComplexity, W) = Total(Weights, W)
    BY <1>4, <1>7, SumOfWeights
  <2>. QED  BY <1>3, <2>1 DEF ClosedAccount, W
<1>. QED  BY <1>8, <1>9, <1>10, <1>11, <1>12, <1>13, <1>14 DEF r, W

-----------------------------------------------------------------------------
(* The report of what the walk returns.                                     *)
SpacesReportInv == subject = "spaces" => ReportInv /\ kind[1] = "unit"

(* Whatever the shape of the file, the functions and the classes that       *)
(* file_health collects from the spaces metrics() returned are those of the *)
(* tree, none missed and none repeated, in source order.  The root is a     *)
(* file here: below tree-sitter's ERROR root metrics() returns another.     *)
THEOREM ReportIsCompleteHolds ==
    ASSUME RootKinds = {"unit"}
    PROVE  MetricsSpec => []ReportIsComplete
<1>1. MetricsInit => SpacesReportInv
  <2>1. RootKinds \subseteq Walk!SpaceKinds
    BY DEF Walk!SpaceKinds
  <2>2. Walk!Init => kind[1] = "unit"
    BY DEF Walk!Init, Walk!WellKinded
  <2>. QED  BY <2>1, <2>2, ReportInit DEF MetricsInit, SpacesReportInv
<1>2. SpacesReportInv /\ [MetricsNext]_allVars => SpacesReportInv'
  <2>. SUFFICES ASSUME SpacesReportInv, [MetricsNext]_allVars, subject' = "spaces"
                PROVE  ReportInv' /\ kind'[1] = "unit"
    BY DEF SpacesReportInv
  <2>1. CASE UNCHANGED allVars
    <3>1. UNCHANGED Walk!vars /\ UNCHANGED kind /\ subject = "spaces"
      BY <2>1 DEF allVars, walkOnly, Walk!vars, Walk!tree, Walk!walk
    <3>. QED  BY <3>1, ReportStutters DEF SpacesReportInv
  <2>2. CASE Spaces(Walk!Next)
    <3>1. ReportInv /\ kind[1] = "unit" /\ Walk!Next
      BY <2>2 DEF Spaces, Step, SpacesReportInv
    <3>2. UNCHANGED kind
      BY <3>1 DEF Walk!Next, Walk!tree, Walk!Pop, Walk!Drained, Walk!FinalizeLast,
                  Walk!FinalizeInner, Walk!Finalized, Walk!Return, Walk!Visit
    <3>. QED  BY <3>1, <3>2, ReportNext
  <2>3. CASE \/ Runner(Next) \/ Calls(Cycles!Next) \/ Rows(Lines!Next) \/ Charges(Cognitive!Next)
             \/ Held(Memory!Next) \/ Tests(Conditions!Next) \/ Inventories(Classes!Next)
    <3>1. subject # "spaces" /\ subject' = subject
      BY <2>3 DEF Runner, Calls, Rows, Charges, Held, Tests, Inventories, Step
    <3>. QED  BY <3>1
  <2>. QED  BY <2>1, <2>2, <2>3 DEF MetricsNext
<1>3. SpacesReportInv => ReportIsComplete
  BY ReportTells DEF SpacesReportInv, ReportIsComplete
<1>. QED  BY <1>1, <1>2, <1>3, PTL DEF MetricsSpec

(* The metrics of what the walk returns.                                    *)
SpacesStatsInv == subject = "spaces" => ReportInv /\ StatsInv /\ kind[1] = "unit"

(* Whatever the shape of the file, the metrics that metrics() returns for a *)
(* space are those of the space and of all the spaces inside it, each once: *)
(* the sum and the maximum of their cyclomatic complexities, their number,  *)
(* the functions and the operators among them, and for a class the weight   *)
(* of its own methods.  The root is a file here, as above.                  *)
THEOREM MetricsAddUpHolds ==
    ASSUME RootKinds = {"unit"}
    PROVE  MetricsSpec => []MetricsAddUp
<1>1. MetricsInit => SpacesStatsInv
  <2>1. RootKinds \subseteq Walk!SpaceKinds
    BY DEF Walk!SpaceKinds
  <2>2. Walk!Init => kind[1] = "unit"
    BY DEF Walk!Init, Walk!WellKinded
  <2>. QED  BY <2>1, <2>2, ReportInit, StatsInit DEF MetricsInit, SpacesStatsInv
<1>2. SpacesStatsInv /\ [MetricsNext]_allVars => SpacesStatsInv'
  <2>. SUFFICES ASSUME SpacesStatsInv, [MetricsNext]_allVars, subject' = "spaces"
                PROVE  ReportInv' /\ StatsInv' /\ kind'[1] = "unit"
    BY DEF SpacesStatsInv
  <2>1. CASE UNCHANGED allVars
    <3>1. UNCHANGED Walk!vars /\ UNCHANGED kind /\ subject = "spaces"
      BY <2>1 DEF allVars, walkOnly, Walk!vars, Walk!tree, Walk!walk
    <3>. QED  BY <3>1, ReportStutters, StatsStutters DEF SpacesStatsInv
  <2>2. CASE Spaces(Walk!Next)
    <3>1. ReportInv /\ StatsInv /\ kind[1] = "unit" /\ Walk!Next
      BY <2>2 DEF Spaces, Step, SpacesStatsInv
    <3>2. UNCHANGED kind
      BY <3>1 DEF Walk!Next, Walk!tree, Walk!Pop, Walk!Drained, Walk!FinalizeLast,
                  Walk!FinalizeInner, Walk!Finalized, Walk!Return, Walk!Visit
    <3>. QED  BY <3>1, <3>2, ReportNext, StatsNext
  <2>3. CASE \/ Runner(Next) \/ Calls(Cycles!Next) \/ Rows(Lines!Next) \/ Charges(Cognitive!Next)
             \/ Held(Memory!Next) \/ Tests(Conditions!Next) \/ Inventories(Classes!Next)
    <3>1. subject # "spaces" /\ subject' = subject
      BY <2>3 DEF Runner, Calls, Rows, Charges, Held, Tests, Inventories, Step
    <3>. QED  BY <3>1
  <2>. QED  BY <2>1, <2>2, <2>3 DEF MetricsNext
<1>3. SpacesStatsInv => MetricsAddUp
  BY MetricsTell DEF SpacesStatsInv, MetricsAddUp
<1>. QED  BY <1>1, <1>2, <1>3, PTL DEF MetricsSpec

=============================================================================
