------------------------------ MODULE SpacesWalk ------------------------------
(***************************************************************************)
(* metrics() of crates/lspf-analysis-core/src/spaces.rs: one walk over a   *)
(* syntax tree with an explicit stack, which opens a space at every        *)
(* function, class and file, measures every node into the innermost open   *)
(* space, and closes the spaces a node is no longer below by comparing     *)
(* levels.  file_health of health/score.rs collects the functions and      *)
(* classes of the spaces it returns.                                       *)
(*                                                                         *)
(* A tree is numbered in source order (preorder), so a node is a number    *)
(* and a space is the node it was opened for.  Of the metrics, those whose *)
(* sums could go wrong are kept, as Java computes them: cyclomatic         *)
(* complexity (its sum, maximum and number of spaces), the number of       *)
(* methods, Halstead operators, and WMC, which a class takes from the      *)
(* methods merged into it.  A "keyword" stands for a leaf that is both a   *)
(* branch and an operator (if, for, catch), a "block" for any other node   *)
(* with children; interfaces are classes.                                  *)
(***************************************************************************)
EXTENDS Naturals, FiniteSets, FiniteSetsExt, SequencesExt

CONSTANTS NumNodes,   \* bound: nodes of the tree
          RootKinds   \* what the root of the tree may be

VARIABLES parent,     \* the tree: each node's parent, 0 above the root
          kind,       \* and what each node is
          stack,      \* nodes to visit, with the level they are at
          open,       \* state_stack: the open spaces, innermost last
          lastLevel,  \* last_level
          current,    \* the node taken from the stack
          diff,       \* diff_level: spaces finalize() still has to close
          spaces,     \* the subspaces of each space, in order
          stats,      \* the metrics of each space
          root,       \* the space metrics() returned, 0 for None
          pc

tree == <<parent, kind>>
walk == <<stack, open, lastLevel, current>>
vars == <<tree, walk, diff, spaces, stats, root, pc>>

Nodes == 1..NumNodes
Nothing == [node |-> 0, level |-> 0]

(* is_func(node) || is_func_space(node).  tree-sitter's ERROR root is       *)
(* neither.                                                                 *)
SpaceKinds == {"unit", "function", "class"}
Spaces == {x \in Nodes : kind[x] \in SpaceKinds}

-----------------------------------------------------------------------------
(* The tree                                                                 *)

(* The node and everything above it.                                        *)
PathTo(p, x) ==
    LET path[y \in 0..NumNodes] == IF y = 0 THEN {} ELSE {y} \cup path[p[y]]
    IN  path[x]

Ancestors(x) == PathTo(parent, x) \ {x}

Kinds == RootKinds \cup {"function", "class", "block", "keyword"}

(* Preorder: a node hangs below a node of the path to the one before it.    *)
Parents ==
    {p \in [Nodes -> 0..(NumNodes - 1)] :
        /\ p[1] = 0
        /\ \A x \in Nodes \ {1} : p[x] < x /\ p[x] \in PathTo(p, x - 1)}

(* Only the root is a file or an ERROR root, and keywords are leaves.       *)
WellKinded(p, k) ==
    /\ k[1] \in RootKinds
    /\ \A x \in Nodes \ {1} : k[x] \notin RootKinds /\ k[p[x]] # "keyword"

InSourceOrder(S) ==
    LET upTo[n \in 0..NumNodes] ==
            IF n = 0 THEN <<>>
            ELSE IF n \in S THEN Append(upTo[n - 1], n) ELSE upTo[n - 1]
    IN  upTo[NumNodes]

Children(x) == InSourceOrder({c \in Nodes : parent[c] = x})

-----------------------------------------------------------------------------
(* The metrics of a space                                                   *)

DefaultStats ==
    [cyclomatic |-> 1, sum |-> 0, max |-> 0, n |-> 1,
     functions |-> 0, functionsSum |-> 0,
     operators |-> 0, halstead |-> 0,
     wmcKind |-> "unknown", method |-> 0, wmc |-> 0, wmcSum |-> 0]

Larger(a, b) == IF a >= b THEN a ELSE b

(* What a node adds to the innermost open space.                            *)
Measured(s, x) ==
    CASE kind[x] = "keyword" ->
             [s EXCEPT !.cyclomatic = @ + 1, !.operators = @ + 1]
      [] kind[x] = "function" -> [s EXCEPT !.functions = @ + 1]
      [] OTHER -> s

(* compute_minmax and compute_sum.                                          *)
Summed(s) ==
    [s EXCEPT !.sum = @ + s.cyclomatic,
              !.max = Larger(@, s.cyclomatic),
              !.functionsSum = @ + s.functions,
              !.wmcSum = @ + s.wmc]

(* compute_halstead_mi_and_wmc: reads the operators counted so far, tells   *)
(* WMC what the space is and remembers a method's complexity.               *)
Computed(s, k) ==
    [s EXCEPT !.halstead = s.operators,
              !.wmcKind = IF @ = "unknown" THEN k ELSE @,
              !.method = IF k = "function" THEN s.sum ELSE @]

(* CodeMetrics::merge, of a closed space into the one around it.            *)
Merged(s, child) ==
    [s EXCEPT !.sum = @ + child.sum,
              !.max = Larger(@, child.max),
              !.n = @ + child.n,
              !.functionsSum = @ + child.functionsSum,
              !.wmc = IF child.wmcKind = "function" /\ s.wmcKind = "class"
                      THEN @ + child.method
                      ELSE @,
              !.wmcSum = @ + child.wmcSum]

-----------------------------------------------------------------------------
Start ==
    /\ stack = <<[node |-> 1, level |-> 0]>>
    /\ open = <<>>
    /\ lastLevel = 0
    /\ current = Nothing
    /\ diff = 0
    /\ spaces = [x \in Nodes |-> <<>>]
    /\ stats = [x \in Nodes |-> DefaultStats]
    /\ root = 0
    /\ pc = "loop"

Init ==
    /\ parent \in Parents
    /\ kind \in {k \in [Nodes -> Kinds] : WellKinded(parent, k)}
    /\ Start

(* Mutant of Pop: the level of the node is not remembered.                  *)
PopForgetful ==
    /\ pc = "loop"
    /\ stack # <<>>
    /\ current' = Last(stack)
    /\ stack' = Front(stack)
    /\ IF Last(stack).level < lastLevel
       THEN diff' = lastLevel - Last(stack).level /\ pc' = "finalize"
       ELSE diff' = 0 /\ pc' = "visit"
    /\ UNCHANGED <<tree, open, lastLevel, spaces, stats, root>>

(* The next node: spaces it is not below are to be closed first.            *)
Pop ==
    /\ pc = "loop"
    /\ stack # <<>>
    /\ current' = Last(stack)
    /\ stack' = Front(stack)
    /\ IF Last(stack).level < lastLevel
       THEN /\ diff' = lastLevel - Last(stack).level
            /\ lastLevel' = Last(stack).level
            /\ pc' = "finalize"
       ELSE diff' = 0 /\ pc' = "visit" /\ UNCHANGED lastLevel
    /\ UNCHANGED <<tree, open, spaces, stats, root>>

(* The walk is over: every space is to be closed (usize::MAX).              *)
Drained ==
    /\ pc = "loop"
    /\ stack = <<>>
    /\ current' = Nothing
    /\ diff' = NumNodes + 1
    /\ pc' = "finalize"
    /\ UNCHANGED <<tree, stack, open, lastLevel, spaces, stats, root>>

(* One round of finalize(): the last open space is computed and stays.      *)
FinalizeLast ==
    /\ pc = "finalize"
    /\ diff > 0
    /\ Len(open) = 1
    /\ stats' = [stats EXCEPT ![open[1]] = Computed(Summed(@), kind[open[1]])]
    /\ diff' = 0
    /\ UNCHANGED <<tree, walk, spaces, root, pc>>

(* Mutant of FinalizeInner: the space around is not computed before the     *)
(* merge, so WMC does not know yet that it is a class.                      *)
FinalizeUnprepared ==
    /\ pc = "finalize"
    /\ diff > 0
    /\ Len(open) > 1
    /\ LET inner == Last(open)
           outer == Last(Front(open))
           closed == Computed(Summed(stats[inner]), kind[inner])
           around == [stats[outer] EXCEPT !.operators = @ + closed.operators]
       IN  /\ stats' = [stats EXCEPT ![inner] = closed, ![outer] = Merged(around, closed)]
           /\ spaces' = [spaces EXCEPT ![outer] = Append(@, inner)]
    /\ open' = Front(open)
    /\ diff' = diff - 1
    /\ UNCHANGED <<tree, stack, lastLevel, current, root, pc>>

(* One round of finalize(): the innermost space is computed, and merged     *)
(* into the one around it.                                                  *)
FinalizeInner ==
    /\ pc = "finalize"
    /\ diff > 0
    /\ Len(open) > 1
    /\ LET inner == Last(open)
           outer == Last(Front(open))
           closed == Computed(Summed(stats[inner]), kind[inner])
           around == Computed([stats[outer] EXCEPT !.operators = @ + closed.operators],
                              kind[outer])
       IN  /\ stats' = [stats EXCEPT ![inner] = closed, ![outer] = Merged(around, closed)]
           /\ spaces' = [spaces EXCEPT ![outer] = Append(@, inner)]
    /\ open' = Front(open)
    /\ diff' = diff - 1
    /\ UNCHANGED <<tree, stack, lastLevel, current, root, pc>>

(* finalize() returns to the walk,                                          *)
Finalized ==
    /\ pc = "finalize"
    /\ diff = 0 \/ open = <<>>
    /\ current # Nothing
    /\ diff' = 0
    /\ pc' = "visit"
    /\ UNCHANGED <<tree, walk, spaces, stats, root>>

(* or the walk is over, and metrics() returns what is left.                 *)
Return ==
    /\ pc = "finalize"
    /\ diff = 0 \/ open = <<>>
    /\ current = Nothing
    /\ IF open = <<>>
       THEN root' = 0 /\ UNCHANGED open
       ELSE root' = Last(open) /\ open' = Front(open)
    /\ diff' = 0
    /\ pc' = "returned"
    /\ UNCHANGED <<tree, stack, lastLevel, current, spaces, stats>>

(* Mutant of Visit: the children are pushed in the order they come in.      *)
VisitBackwards ==
    /\ pc = "visit"
    /\ LET x == current.node
           opened == IF x \in Spaces THEN Append(open, x) ELSE open
           below == IF x \in Spaces THEN current.level + 1 ELSE current.level
           entry(c) == [node |-> c, level |-> below]
       IN  /\ open' = opened
           /\ lastLevel' = IF x \in Spaces THEN below ELSE lastLevel
           /\ stats' = IF opened = <<>>
                       THEN stats
                       ELSE [stats EXCEPT ![Last(opened)] = Measured(@, x)]
           /\ stack' = stack \o [i \in DOMAIN Children(x) |-> entry(Children(x)[i])]
    /\ pc' = "loop"
    /\ UNCHANGED <<tree, current, diff, spaces, root>>

(* The body of the loop: open a space, measure, push the children reversed. *)
Visit ==
    /\ pc = "visit"
    /\ LET x == current.node
           opened == IF x \in Spaces THEN Append(open, x) ELSE open
           below == IF x \in Spaces THEN current.level + 1 ELSE current.level
           entry(c) == [node |-> c, level |-> below]
           children == Reverse(Children(x))
       IN  /\ open' = opened
           /\ lastLevel' = IF x \in Spaces THEN below ELSE lastLevel
           /\ stats' = IF opened = <<>>
                       THEN stats
                       ELSE [stats EXCEPT ![Last(opened)] = Measured(@, x)]
           /\ stack' = stack \o [i \in DOMAIN children |-> entry(children[i])]
    /\ pc' = "loop"
    /\ UNCHANGED <<tree, current, diff, spaces, root>>

Next ==
    \/ Pop
    \/ Drained
    \/ FinalizeLast
    \/ FinalizeInner
    \/ Finalized
    \/ Return
    \/ Visit

Spec == Init /\ [][Next]_vars

-----------------------------------------------------------------------------
(* collect_functions and collect_classes: the spaces of a kind below a      *)
(* space.  The sort by start line that follows is stable, so functions of   *)
(* one line are reported in this order.                                     *)
Collected(s, k) ==
    LET collect[x \in Nodes] ==
            FoldLeft(LAMBDA out, c :
                         out \o (IF kind[c] = k THEN <<c>> ELSE <<>>) \o collect[c],
                     <<>>, spaces[x])
    IN  IF s = 0 THEN <<>> ELSE collect[s]

-----------------------------------------------------------------------------
(* Correctness                                                              *)

(* A node is measured into the space it belongs to: when the walk comes to  *)
(* it, the open states are the spaces around it, outermost first, and       *)
(* last_level counts them (metrics() and finalize() only compare levels).   *)
OpenEnclosesCurrent ==
    pc = "visit" =>
        /\ open = InSourceOrder(Ancestors(current.node) \cap Spaces)
        /\ lastLevel = Len(open)
        /\ current.level = lastLevel

(* The spaces at or below a space, and the one a node is measured into.     *)
Within(s) == {t \in Spaces : s \in PathTo(parent, t)}
Innermost(x) == Max(Ancestors(x) \cap Spaces)

(* The reference: what a space and those below it add up to.                *)
Complexity(s) ==
    1 + Cardinality({x \in Nodes : kind[x] = "keyword" /\ Innermost(x) = s})

TotalComplexity(s) == MapThenSumSet(Complexity, Within(s))

Methods(c) == {f \in Nodes : kind[f] = "function" /\ Innermost(f) = c}

ClassComplexity(c) ==
    IF kind[c] = "class" THEN MapThenSumSet(TotalComplexity, Methods(c)) ELSE 0

(* Whatever the shape of the file, the metrics it is returned with are      *)
(* those of its tree, each node counted once at every space around it: the  *)
(* sums, the maximum and the number of spaces of cyclomatic complexity, the *)
(* number of functions, the Halstead operators, and for a class the         *)
(* complexity of its own methods (compute_* and merge).                     *)
MetricsAddUp ==
    pc = "returned" =>
        \A s \in Spaces :
            /\ stats[s].sum = TotalComplexity(s)
            /\ stats[s].max = Max({Complexity(t) : t \in Within(s)})
            /\ stats[s].n = Cardinality(Within(s))
            /\ stats[s].functionsSum = Cardinality({t \in Within(s) : kind[t] = "function"})
            /\ stats[s].halstead = MapThenSumSet(LAMBDA t : Complexity(t) - 1, Within(s))
            /\ stats[s].wmc = ClassComplexity(s)
            /\ stats[s].wmcSum = MapThenSumSet(ClassComplexity, Within(s))

(* "Every function in the file, in source order" and "every scored class in *)
(* the file, in source order" (FileHealth in health/score.rs): the report   *)
(* made of what metrics() returned misses none and repeats none.            *)
ReportIsComplete ==
    pc = "returned" =>
        \A k \in {"function", "class"} :
            Collected(root, k) = InSourceOrder({x \in Nodes : kind[x] = k})

=============================================================================
