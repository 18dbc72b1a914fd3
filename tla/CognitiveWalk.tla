---------------------------- MODULE CognitiveWalk ----------------------------
(***************************************************************************)
(* Cognitive complexity (metrics/cognitive.rs), as metrics() of spaces.rs  *)
(* computes it: nodes are met in source order, each charges the space it   *)
(* belongs to, and leaves in nesting_map what the nodes below it inherit.  *)
(*                                                                         *)
(* A file is the sequence of its nodes with their levels, below its root.  *)
(* Of the syntax, what a node means here is kept:                          *)
(*   branch      if, loop, switch, catch or conditional expression         *)
(*   elseif      an if in the else of another                              *)
(*   onlyif      an if that is all another one guards, without braces      *)
(*   flat        an else, a labelled jump, a goto                          *)
(*   elif, except   of Python                                              *)
(*   function    a named function; recursive: one that calls itself        *)
(*   lambda      a closure                                                 *)
(*   macro       a Rust call whose arguments are parsed and measured, a    *)
(*               C++ replacement list: no spaces are opened below it       *)
(*   and, or, not   the operators of a condition                           *)
(*   statement   an expression statement                                   *)
(* "javascript" is TSX, too.  How C++ counts its operators (cpp_booleans)  *)
(* and the least and largest complexity of a space are left out.           *)
(***************************************************************************)
EXTENDS Naturals, FiniteSets, FiniteSetsExt, SequencesExt

CONSTANTS Langs,
          MaxNodes  \* bound: nodes below the root

VARIABLES lang,
          file,     \* the nodes met so far
          path,     \* the last node and those above it, with nesting_map's entries
          spaces,   \* the open spaces, the file first
          charged,  \* what the spaces that are left were charged
          returned

vars == <<lang, file, path, spaces, charged, returned>>

Functions == {"function", "recursive"}
Operators == {"and", "or"}
Logical == Operators \cup {"not"}
Ifs == {"branch", "elseif", "onlyif"}
None == "none"

(* Languages that start anew in a function, and whose functions add to the  *)
(* depth of those inside them.                                              *)
Scripts == {"javascript", "typescript"}
Resetting == {"rust", "cpp"} \cup Scripts
Deepening == {"python", "rust"} \cup Scripts

(* A language's nodes: those of statements, and those of expressions.       *)
Statements(lng) ==
    Functions \cup {"branch", "flat"}
        \cup (IF lng = "python" THEN {"elif", "except"} ELSE {"elseif"})
        \cup (IF lng \in {"python", "rust"} THEN {} ELSE {"onlyif"})
        \cup (IF lng \in Scripts \cup {"python"} THEN {"statement"} ELSE {})
        \cup (IF lng \in {"rust", "cpp"} THEN {"macro"} ELSE {})
Expressions(lng) ==
    {"lambda"} \cup (IF lng = "cpp" THEN {} ELSE Logical)
        \cup (IF lng \in {"rust", "java"} THEN {} ELSE {"branch"})

Entry(k, n, d, l) == [kind |-> k, nesting |-> n, depth |-> d, lambda |-> l]
NewSpace(i, level) == [node |-> i, level |-> level, structural |-> 0, nesting |-> 0, op |-> None]

Init ==
    /\ lang \in Langs
    /\ file = <<>>
    /\ path = <<Entry("file", 0, 0, 0)>>
    /\ spaces = <<NewSpace(0, 0)>>
    /\ charged = {}
    /\ returned = FALSE

-----------------------------------------------------------------------------
(* What may come next.                                                      *)

HoldsStatements(k) ==
    \/ lang = "rust" /\ k # "flat"
    \/ k \in {"file", "macro", "elif", "except"} \cup Ifs \cup Functions
    \/ k = "lambda" /\ lang # "python"
    \/ k = "flat" /\ lang = "python"

Follows(k, level) ==
    LET up == path[level].kind
    IN  /\ Len(file) < MaxNodes
        /\ \/ k \in Statements(lang) /\ HoldsStatements(up)
           \/ k \in Expressions(lang) /\ (up # "flat" \/ lang = "python")
        /\ k = "elseif" => Len(path) = level + 1 /\ Last(path).kind = "flat"
        /\ k \in {"elseif", "onlyif"} => up \in Ifs
        /\ k \in Functions /\ lang = "cpp" => \A i \in DOMAIN path : path[i].kind # "macro"

-----------------------------------------------------------------------------
(* The entry of a node in nesting_map.                                      *)

(* Checker::is_else_if: it looks for the if right above the node in         *)
(* JavaScript, for the else in other languages, and for nothing in Java.    *)
IsElseIf(k) ==
    CASE lang = "java" -> FALSE
      [] lang = "javascript" -> k = "onlyif"
      [] OTHER -> k = "elseif"

Nests(k) == k \in Ifs /\ ~IsElseIf(k)

(* Mutant of Left: a function inside another is not told from the first.    *)
LeftAlwaysDeeper(k, above) ==
    LET up == Last(above)
        function == k \in Functions
    IN  Entry(k,
              IF Nests(k) \/ k = "except" THEN up.nesting + 1
              ELSE IF function /\ lang \in Resetting THEN 0 ELSE up.nesting,
              up.depth + IF function /\ lang \in Deepening THEN 1 ELSE 0,
              IF k = "lambda" THEN up.lambda + 1
              ELSE IF function /\ lang \in Scripts \cup {"cpp"} THEN 0 ELSE up.lambda)

(* What a node leaves, below the nodes above it (increment_function_depth   *)
(* looks for a function among them).                                        *)
Left(k, above) ==
    LET up == Last(above)
        function == k \in Functions
        inner == \E i \in DOMAIN above : above[i].kind \in Functions
    IN  Entry(k,
              IF Nests(k) \/ k = "except" THEN up.nesting + 1
              ELSE IF function /\ lang \in Resetting THEN 0 ELSE up.nesting,
              up.depth + IF function /\ inner /\ lang \in Deepening THEN 1 ELSE 0,
              IF k = "lambda" THEN up.lambda + 1
              ELSE IF function /\ lang \in Scripts \cup {"cpp"} THEN 0 ELSE up.lambda)

-----------------------------------------------------------------------------
(* What a node charges.                                                     *)

(* increase_nesting()                                                       *)
IncreaseNesting(s, up) ==
    LET nesting == up.nesting + up.depth + up.lambda
    IN  [s EXCEPT !.nesting = nesting, !.structural = @ + nesting + 1, !.op = None]

(* BoolSequence::eval_based_on_prev                                         *)
EvalBasedOnPrev(s, op) ==
    IF s.op = None THEN [s EXCEPT !.op = op, !.structural = @ + 1]
    ELSE IF s.op # op THEN [s EXCEPT !.structural = @ + 1]
    ELSE s

(* In Python the first operator of a lambda is charged for the lambdas      *)
(* around it.                                                               *)
LambdasAround(above) ==
    LET lambdas == {i \in DOMAIN above : above[i].kind = "lambda"}
        operators == {i \in DOMAIN above : above[i].kind \in Operators}
    IN  IF lang = "python" /\ \A i \in operators : \E j \in lambdas : i < j
        THEN Cardinality(lambdas) ELSE 0

Compute(s, k, above) ==
    CASE Nests(k) -> IncreaseNesting(s, Last(above))
      [] k \in {"flat", "recursive"} -> [s EXCEPT !.structural = @ + 1]
      [] k = "elif" -> [s EXCEPT !.structural = @ + 1, !.op = None]
      [] k = "except" -> [s EXCEPT !.structural = @ + s.nesting + 1]
      [] k = "not" -> [s EXCEPT !.op = "not"]
      [] k \in Operators ->
             EvalBasedOnPrev([s EXCEPT !.structural = @ + LambdasAround(above)], k)
      [] k = "statement" -> [s EXCEPT !.op = None]
      [] OTHER -> s

(* No space is opened in a macro, and a function in a Rust macro left out.  *)
InMacro(above) == \E i \in DOMAIN above : above[i].kind = "macro"
LeftOut(k, above) ==
    /\ lang = "rust"
    /\ InMacro(above)
    /\ \/ k \in Functions
       \/ \E i, j \in DOMAIN above :
            i < j /\ above[i].kind = "macro" /\ above[j].kind \in Functions

OpensSpace(k, above) ==
    /\ k \in Functions \/ (k = "lambda" /\ lang \notin {"python", "java"})
    /\ ~InMacro(above)

(* Each argument of a Rust macro is a sequence of its own, and so is what   *)
(* follows the macro in its space.                                          *)
Fresh(stay, level) ==
    LET left == {i \in (level + 1)..Len(path) : path[i].kind = "macro"}
    IN  IF /\ lang = "rust"
           /\ path[level].kind = "macro" \/ (left # {} /\ Len(stay) = Len(spaces))
        THEN [stay EXCEPT ![Len(stay)].op = None] ELSE stay

(* finalize() of the spaces the next node is not below.                     *)
Leave(level) == {s \in Range(spaces) : s.level >= level}
Charges(left) == {[node |-> s.node, structural |-> s.structural] : s \in left}

(* One round of metrics()'s walk.                                           *)
Visit(k, level) ==
    LET above == SubSeq(path, 1, level)
        stay == Fresh(SelectSeq(spaces, LAMBDA s : s.level < level), level)
        inside == IF OpensSpace(k, above)
                  THEN Append(stay, NewSpace(Len(file) + 1, level)) ELSE stay
        here == Compute(Last(inside), k, above)
    IN  /\ ~returned
        /\ Follows(k, level)
        /\ file' = Append(file, [kind |-> k, level |-> level])
        /\ path' = Append(above, Left(k, above))
        /\ spaces' = IF LeftOut(k, above) THEN stay ELSE Append(Front(inside), here)
        /\ charged' = charged \cup Charges(Leave(level))
        /\ UNCHANGED <<lang, returned>>

Return ==
    /\ ~returned
    /\ charged' = charged \cup Charges(Range(spaces))
    /\ returned' = TRUE
    /\ UNCHANGED <<lang, file, path, spaces>>

Next ==
    \/ \E k \in Statements(lang) \cup Expressions(lang), level \in DOMAIN path : Visit(k, level)
    \/ Return

Spec == Init /\ [][Next]_vars

-----------------------------------------------------------------------------
(* The reference: what a reader of the file would charge.                   *)

Nodes == DOMAIN file
Kind(i) == file[i].kind
Above(i) == {j \in 1..(i - 1) : \A m \in (j + 1)..i : file[m].level > file[j].level}
Of(S, K) == {j \in S : Kind(j) \in K}
Latest(S) == Max(S \cup {0})

UnderMacro(i) == Of(Above(i), {"macro"}) # {}
Skipped(i) ==
    lang = "rust" /\ \E f \in Of(Above(i) \cup {i}, Functions) : UnderMacro(f)

(* The space a node is in.                                                  *)
HasSpace(i) ==
    /\ Kind(i) \in Functions \cup (IF lang \in {"python", "java"} THEN {} ELSE {"lambda"})
    /\ ~UnderMacro(i)
SpaceOf(i) == Latest({j \in Above(i) \cup {i} : HasSpace(j)})

(* How deep a node is nested: the structures since the function, the        *)
(* functions the function is in, and the closures.                          *)
Around(i) ==
    LET function == Latest(Of(Above(i), Functions))
        from(L) == IF lang \in L THEN function ELSE 0
    IN  Cardinality({j \in Of(Above(i), Ifs \cup {"except"}) :
                       j > from(Resetting) /\ Kind(j) # "elseif"})
        + (IF lang \in Deepening /\ function # 0
           THEN Cardinality(Of(Above(function), Functions)) ELSE 0)
        + Cardinality({j \in Of(Above(i), {"lambda"}) : j > from(Scripts \cup {"cpp"})})

(* The operators of one expression.                                         *)
Root(i) == Min({j \in Above(i) \cup {i} :
                  \A m \in Above(i) \cup {i} : m >= j => Kind(m) \in Logical})
Expression(r) == {i \in Of(Nodes, Logical) : Root(i) = r}

(* A run of like operators is charged once; in Python, also for the         *)
(* lambdas.                                                                 *)
OperatorCost(i) ==
    LET before == Latest({j \in Expression(Root(i)) : j < i})
        lambdas == Of(Above(i), {"lambda"})
        first == Of({j \in Above(i) : j > Latest(lambdas)}, Operators) = {}
    IN  (IF before # 0 /\ Kind(before) = Kind(i) THEN 0 ELSE 1)
        + (IF lang = "python" /\ first THEN Cardinality(lambdas) ELSE 0)

Cost(i) ==
    CASE Skipped(i) -> 0
      [] Kind(i) \in {"branch", "onlyif", "except"} -> 1 + Around(i)
      [] Kind(i) \in {"flat", "elif", "recursive"} -> 1
      [] Kind(i) \in Operators -> OperatorCost(i)
      [] OTHER -> 0

Expected(s) == MapThenSumSet(Cost, {i \in Nodes : SpaceOf(i) = s})
AsExpected(c) == c.structural = Expected(c.node)

(* Where the code charges something else: else-ifs in Java and JavaScript   *)
(* and an if alone below another in JavaScript (IsElseIf); an except that   *)
(* is not as deep as the branch before it; an expression that mixes more    *)
(* than two operators, or that nothing separates from the one before it.    *)
Resets(i) == Kind(i) \in {"branch", "onlyif", "elif", "statement"}
Argument(i) == {j \in Above(i) \cup {i} : Above(j) # {} /\ Kind(Max(Above(j))) = "macro"}
Separated(r) ==
    LET peers == {j \in Nodes : SpaceOf(j) = SpaceOf(r)}
        reset == {j \in peers : Resets(j)}
    IN  /\ \A j \in Of(peers, Logical) :
             j < r => Argument(j) # Argument(r) \/ \E m \in reset : j < m /\ m < r
        /\ \A j \in Expression(r), m \in reset \cup Of(peers, {"macro"}) : ~(r < m /\ m < j)

Ordinary ==
    /\ \A i \in Nodes :
         /\ Kind(i) = "elseif" => lang \notin {"java", "javascript"}
         /\ Kind(i) = "onlyif" => lang # "javascript"
         /\ Kind(i) = "except" =>
              LET before == Latest({j \in Of(1..(i - 1), {"branch"}) : SpaceOf(j) = SpaceOf(i)})
              IN  Around(i) = IF before = 0 THEN 0 ELSE Around(before)
    /\ \A r \in {Root(i) : i \in Of(Nodes, Logical)} :
         /\ Cardinality(Expression(r)) <= 2 \/ \A i \in Expression(r) : Kind(i) = Kind(r)
         /\ Separated(r)

(* Each space is charged for the structures in it, and for nothing else:    *)
(* one for each, and one for each of the structures, functions and closures *)
(* it is nested in, whatever came before it in the file (nesting_map is     *)
(* keyed by node and never cleared; a space begins with new Stats).         *)
EachStructureCharged == returned /\ Ordinary => \A c \in charged : AsExpected(c)

=============================================================================
