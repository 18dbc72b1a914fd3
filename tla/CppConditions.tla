---------------------------- MODULE CppConditions ----------------------------
(***************************************************************************)
(* The conditions of the ABC metric in C++ (metrics/abc/cpp.rs).  A        *)
(* comparison counts where it stands; the other operands of a test are     *)
(* counted from above, by the statement or the operator that makes them a  *)
(* test.  compute() meets the nodes one by one, in source order, and tells *)
(* from the nodes around each whether another has counted it.              *)
(*                                                                         *)
(* Node 1 is an if (or a loop), a switch (or a static_assert or an #if:    *)
(* what else has a condition, of which compute() knows nothing) or an      *)
(* expression statement, the other nodes are the expression in it:         *)
(*   paren; not, minus: unary operators; and: a boolean operator;          *)
(*   compare: a relational one; plus: any other binary operator;           *)
(*   choose: a conditional expression, its condition first; call; name     *)
(* Assignments, branches, and the else, case and catch that each count one *)
(* are left out, and so are macros' replacement lists.                     *)
(***************************************************************************)
EXTENDS Naturals, FiniteSets, FiniteSetsExt, SequencesExt

CONSTANT NumNodes  \* bound: nodes of the statement, itself included

VARIABLES parent, form,  \* the input
          met,           \* nodes met so far
          conditions

vars == <<parent, form, met, conditions>>

Nodes == 1..NumNodes
NoNode == 0

Above(p, x) ==
    LET path[y \in 0..NumNodes] == IF y = 0 THEN {} ELSE {y} \cup path[p[y]]
    IN  path[x] \ {x}

Parents ==
    {p \in [Nodes -> 0..(NumNodes - 1)] :
        /\ p[1] = 0
        /\ \A x \in Nodes \ {1} :
             p[x] \in 1..(x - 1) /\ p[x] \in Above(p, x - 1) \cup {x - 1}}

Operands(k) ==
    CASE k = "name" -> {0}
      [] k \in {"if", "switch", "statement", "paren", "not", "minus"} -> {1}
      [] k \in {"and", "compare", "plus"} -> {2}
      [] k = "choose" -> {3}
      [] k = "call" -> {0, 1}
Expressions == {"name", "paren", "not", "minus", "and", "compare", "plus", "choose", "call"}

Forms(p) ==
    LET below(x) == Cardinality({y \in Nodes : p[y] = x})
        kinds(x) == {k \in IF x = 1 THEN {"if", "switch", "statement"} ELSE Expressions :
                       below(x) \in Operands(k)}
        upTo[x \in 0..NumNodes] ==
            IF x = 0 THEN {<<>>} ELSE {Append(f, k) : f \in upTo[x - 1], k \in kinds(x)}
    IN  upTo[NumNodes]

Init ==
    /\ parent \in Parents
    /\ form \in Forms(parent)
    /\ met = 0
    /\ conditions = 0

-----------------------------------------------------------------------------

Kind(x) == form[x]
Below(x) == {y \in Nodes : parent[y] = x}

(* The field `condition' of a node, and the one that compute() counts.      *)
Condition(x) == IF Kind(x) \in {"if", "switch", "choose"} THEN Min(Below(x)) ELSE NoNode
Charged(x) == IF Kind(x) = "switch" THEN NoNode ELSE Condition(x)

Logical(x) == Kind(x) \in {"and", "not"}

(* unary_conditions()                                                       *)
UnaryConditions(x) ==
    LET count[y \in Nodes] ==
            IF Kind(y) = "compare" THEN 0
            ELSE IF Kind(y) \in {"paren", "not", "minus", "and"}
            THEN MapThenSumSet(LAMBDA z : count[z], Below(y))
            ELSE 1
    IN  count[x]

(* enclosing_boolean_test(), of the parent of the node and its parentheses  *)
Unwrapped(x) ==
    LET out[y \in Nodes] ==
            IF parent[y] # NoNode /\ Kind(parent[y]) = "paren" THEN out[parent[y]] ELSE y
    IN  out[x]

(* Mutant of EnclosingBooleanTest: parentheses are not looked through.      *)
EnclosingNoParens(x) == Logical(parent[x]) \/ Condition(parent[x]) = x

EnclosingBooleanTest(x) ==
    LET y == Unwrapped(x) IN Logical(parent[y]) \/ Condition(parent[y]) = y

(* compute()                                                                *)
Compute(x) ==
    (IF Kind(x) \in {"compare", "choose"} THEN 1 ELSE 0)
    + (IF Charged(x) # NoNode THEN UnaryConditions(Charged(x)) ELSE 0)
    + (IF Logical(x) /\ ~EnclosingBooleanTest(x) THEN UnaryConditions(x) ELSE 0)

Visit ==
    /\ met < NumNodes
    /\ met' = met + 1
    /\ conditions' = conditions + Compute(met')
    /\ UNCHANGED <<parent, form>>

Next == Visit
Spec == Init /\ [][Next]_vars

-----------------------------------------------------------------------------
(* The reference: what each operand stands in.                              *)

Connectives == {"paren", "not", "minus", "and"}
Test(x) == {y \in Above(parent, x) \cup {x} :
              \A z \in Above(parent, x) : z >= y => Kind(z) \in Connectives}
Tested(x) ==
    LET outermost == Min(Test(x))
        above == parent[outermost]
    IN  \/ Charged(above) = outermost
        \/ Condition(above) # outermost /\ \E y \in Test(x) : Logical(y)

Counted == {x \in Nodes : Kind(x) \in {"compare", "choose"}}
Operand(x) == Kind(x) \notin Connectives \cup {"compare"} /\ Tested(x)

(* An operator of arithmetic applied to a boolean one has it counted twice. *)
Ordinary == \A x \in Nodes \ {1} : Logical(x) => Kind(parent[Unwrapped(x)]) # "minus"

(* "Relational expressions count once; boolean contexts additionally count  *)
(* their unary operands, including operands of && and ||" (abc/cpp.rs:1):   *)
(* whatever encloses it, an operand of a test is counted once, and one that *)
(* is not in a test not at all; except that the operands of a test that is  *)
(* the condition of a switch, a static_assert or an #if are not counted     *)
(* either, against that sentence: enclosing_boolean_test leaves them to a   *)
(* parent with any condition, compute() has only some parents count theirs. *)
EachConditionOnce ==
    met = NumNodes /\ Ordinary =>
        conditions = Cardinality(Counted) + Cardinality({x \in Nodes \ {1} : Operand(x)})

=============================================================================
