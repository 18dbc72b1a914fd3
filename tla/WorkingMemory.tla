---------------------------- MODULE WorkingMemory ----------------------------
(***************************************************************************)
(* compute_space() of metrics/working_memory.rs: how many names a reader   *)
(* has to hold at the busiest statement of a function.  One walk finds the *)
(* statement lists of the function; each statement is scanned for what it  *)
(* mentions and binds; and then every statement is charged for the names   *)
(* it mentions, those that control it, and those carried across it.        *)
(*                                                                         *)
(* A function is a tree numbered in source order, 1 being the function and *)
(* 2 its body.  Of the syntax, what a node means here is kept (LangSpec),  *)
(* with the one name in its own tokens:                                    *)
(*   body      a list of statements                                        *)
(*   plain     an expression that mentions a name                          *)
(*   let       a declaration; its initialiser is below it                  *)
(*   branch    an if, loop or switch, with the name of its condition       *)
(*   foreach   a loop over a literal, with the variable it binds           *)
(*   closure   a function inside, with its parameter                       *)
(*   comment                                                               *)
(* In Java (and Python), a closure is no space: its body belongs to the    *)
(* function around it.  "rust" stands for JavaScript and TypeScript, too.  *)
(***************************************************************************)
EXTENDS Naturals, FiniteSets, FiniteSetsExt, SequencesExt

CONSTANTS NumNodes,  \* bound: nodes of the function, itself included
          Names

VARIABLES lang, parent, form,  \* the input
          pending,             \* nodes to visit
          parameters,          \* names bound before the first statement
          bodies,              \* the statement lists, as they were met
          statements,          \* in source order
          wm, phase

input == <<lang, parent, form>>
vars == <<input, pending, parameters, bodies, statements, wm, phase>>

Nodes == 1..NumNodes
NoName == 0
Node(k, n) == [kind |-> k, name |-> n]

Above(p, x) ==
    LET path[y \in 0..NumNodes] == IF y = 0 THEN {} ELSE {y} \cup path[p[y]]
    IN  path[x] \ {x}

Parents ==
    LET upTo[x \in 2..NumNodes] ==
            IF x = 2 THEN {<<0, 1>>}
            ELSE UNION {{Append(p, y) : y \in (Above(p, x - 1) \cup {x - 1}) \ {1}} :
                          p \in upTo[x - 1]}
    IN  upTo[NumNodes]

(* What a node may be: where its parent has room for it, and with or        *)
(* without children.                                                        *)
Below(k) ==
    CASE k = "body" -> {"body", "plain", "let", "branch", "foreach", "closure", "comment"}
      [] k = "branch" -> {"body", "branch"}
      [] k = "foreach" -> {"body"}
      [] k = "let" -> {"plain", "closure"}
      [] k = "closure" -> {"plain", "body"}
      [] k = "plain" -> {"closure"}
Inner == {"body", "plain", "let", "branch", "foreach", "closure"}
Leaf == {"plain", "let", "comment"}

Options(p, f, x) ==
    LET kinds == Below(f[p[x]].kind) \cap (IF \E y \in Nodes : p[y] = x THEN Inner ELSE Leaf)
    IN  {Node(k, NoName) : k \in kinds \cap {"body", "comment", "closure"}}
          \cup {Node(k, n) : k \in kinds \ {"body", "comment"}, n \in Names}

Forms(p) ==
    LET upTo[x \in 2..NumNodes] ==
            IF x = 2 THEN {<<Node("function", n), Node("body", NoName)>> :
                             n \in Names \cup {NoName}}
            ELSE UNION {{Append(f, k) : k \in Options(p, f, x)} : f \in upTo[x - 1]}
    IN  upTo[NumNodes]

Init ==
    /\ lang \in {"cpp", "java", "rust"}
    /\ parent \in Parents
    /\ form \in Forms(parent)
    /\ pending = <<1>>
    /\ parameters = {}
    /\ bodies = <<>> /\ statements = <<>>
    /\ wm = 0
    /\ phase = "walk"

-----------------------------------------------------------------------------

Kind(x) == form[x].kind
Name(x) == {form[x].name} \ {NoName}
Children(x) == SelectSeq([y \in Nodes |-> y], LAMBDA y : parent[y] = x)

(* is_func() or is_func_space()                                             *)
OwnSpace(x) == Kind(x) = "closure" /\ lang # "java"

(* One round of the walk, the last child first.                             *)
Visit ==
    LET x == Last(pending)
    IN  /\ phase = "walk"
        /\ pending # <<>>
        /\ IF OwnSpace(x)
           THEN pending' = Front(pending) /\ UNCHANGED <<parameters, bodies>>
           ELSE /\ pending' = Front(pending) \o Children(x)
                /\ parameters' = parameters
                                   \cup IF Kind(x) \in {"function", "closure"} THEN Name(x) ELSE {}
                /\ bodies' = IF Kind(x) = "body" THEN Append(bodies, x) ELSE bodies
        /\ UNCHANGED <<input, statements, wm, phase>>

(* The nodes that are scanned with x: not those in a list of statements     *)
(* below it.                                                                *)
Scanned(x) ==
    {y \in Nodes : /\ x \in Above(parent, y) \cup {y}
                   /\ \A z \in (Above(parent, y) \cup {y}) \ {x} :
                        x \in Above(parent, z) => Kind(z) # "body"}

(* collect_names()                                                          *)
Refs(x) == UNION {Name(y) : y \in Scanned(x)}

(* collect_declared(): in C++ the declarator of a declaration is all of it, *)
(* its initialiser included; a loop's variable is listed in Java and C++.   *)
Declared(y) ==
    CASE Kind(y) = "let" -> IF lang = "cpp" THEN Refs(y) ELSE Name(y)
      [] Kind(y) = "closure" -> Name(y)
      [] Kind(y) = "foreach" /\ lang # "rust" -> Name(y)
      [] OTHER -> {}

(* scan_statement() and enclosing_conditions()                              *)
Statement(x) ==
    [start |-> x,
     refs |-> Refs(x),
     decls |-> UNION {Declared(y) : y \in Scanned(x)},
     conditions |-> UNION {Name(y) : y \in {z \in Above(parent, x) : Kind(z) = "branch"}}]

Listed ==
    FoldLeft(LAMBDA found, b :
               found \o SelectSeq(Children(b), LAMBDA x : Kind(x) # "comment"), <<>>, bodies)

(* Mutant of Ordered: the statements stay in the order of the walk.         *)
AsMet(found) == found

Ordered(found) == SortSeq(found, <)

Split ==
    LET found == Ordered(Listed)
    IN  /\ phase = "walk"
        /\ pending = <<>>
        /\ statements' = [i \in DOMAIN found |-> Statement(found[i])]
        /\ phase' = "split"
        /\ UNCHANGED <<input, pending, parameters, bodies, wm>>

(* What is held at the i-th statement.                                      *)
Held(i) ==
    LET bound == parameters \cup UNION {statements[j].decls : j \in 1..(i - 1)}
        later == UNION {statements[j].refs : j \in (i + 1)..Len(statements)}
    IN  statements[i].refs \cup statements[i].conditions \cup (bound \cap later)

Charge ==
    /\ phase = "split"
    /\ wm' = Max({Cardinality(Held(i)) : i \in DOMAIN statements} \cup {0})
    /\ phase' = "returned"
    /\ UNCHANGED <<input, pending, parameters, bodies, statements>>

Next == Visit \/ Split \/ Charge
Spec == Init /\ [][Next]_vars

-----------------------------------------------------------------------------
(* The reference: every name belongs to the innermost statement around it.  *)

IsStatement(x) == x > 2 /\ Kind(parent[x]) = "body" /\ Kind(x) # "comment"
Owner(y) == Max({x \in Above(parent, y) \cup {y} : IsStatement(x)} \cup {NoName})
Here == {x \in Nodes : IsStatement(x) /\ ~\E z \in Above(parent, x) : OwnSpace(z)}

Mentions(x) == UNION {Name(y) : y \in {z \in Nodes : Owner(z) = x}}
Binds(x) ==
    UNION {Name(y) : y \in {z \in Nodes : Owner(z) = x
                                            /\ Kind(z) \in {"let", "foreach", "closure"}}}
Controls(x) == UNION {Name(y) : y \in {z \in Above(parent, x) : Kind(z) = "branch"}}
Carried(x) ==
    {n \in Names :
        /\ n \in Name(1) \/ \E y \in Here : y < x /\ n \in Binds(y)
        /\ \E y \in Here : x < y /\ n \in Mentions(y)}

Busiest == Max({Cardinality(Mentions(x) \cup Controls(x) \cup Carried(x)) : x \in Here} \cup {0})

(* Where the code counts something else: a block that is itself a statement *)
(* is charged for all that is directly in it; the parameter of a Java       *)
(* lambda counts as bound before the first statement; in C++ the names of   *)
(* an initialiser count as bound; and except in Java and C++ the variable   *)
(* of a for-each loop does not.                                             *)
Ordinary ==
    \A x \in 3..NumNodes :
        /\ Kind(x) = "body" => Kind(parent[x]) # "body"
        /\ Kind(x) = "closure" /\ lang = "java" => Name(x) = {}
        /\ Kind(x) = "let" /\ lang = "cpp" => Children(x) = <<>>
        /\ Kind(x) = "foreach" => lang # "rust"

(* "the variables a reader has to keep in their working memory at the       *)
(* busiest statement of a function" (working_memory.rs:9): each statement   *)
(* costs the names it mentions itself, those that control it, and those     *)
(* bound before it and used after it, in whatever order its lists of        *)
(* statements were found.                                                   *)
BusiestStatement == phase = "returned" /\ Ordinary => wm = Busiest

=============================================================================
