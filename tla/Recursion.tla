------------------------------ MODULE Recursion ------------------------------
(***************************************************************************)
(* functions() of metrics/cognitive/recursion.rs: which functions of a     *)
(* file call themselves, directly or through others.  One walk collects    *)
(* lexical scopes, what each binds, and the calls; the calls are resolved  *)
(* after it, and the functions in a cycle of the resulting graph returned. *)
(*                                                                         *)
(* A tree is numbered in source order below its root, 1.  Of the syntax,   *)
(* what a node means here is kept (node_kind.rs and the kinds each case of *)
(* functions() names):                                                     *)
(*   function    a function whose calls can be resolved (callable())       *)
(*   expression  one whose name is only bound within it                    *)
(*   method      a named function that is not callable: virtual, decorated *)
(*   lambda      a function without a name, not callable                   *)
(*   class, block    scopes (in Python, a block is none)                   *)
(*   let         binds a name in its scope: a declaration, an import       *)
(*   assign      binds it in every scope around                            *)
(*   param       a parameter of the function it hangs below                *)
(*   wild        makes its scope opaque: a wildcard import, eval           *)
(*   macro       is not looked into                                        *)
(*   call        a call by an unqualified name, with `args' arguments      *)
(* Default values, which are not looked into either, are left out.  C++    *)
(* and TypeScript resolve names as JavaScript does; in Java, the root is   *)
(* the body of a class.                                                    *)
(***************************************************************************)
EXTENDS Naturals, FiniteSets, SequencesExt

CONSTANTS NumNodes,  \* bound: nodes of the tree, its root included
          Names

VARIABLES lang, parent, form,  \* the input
          pending,             \* nodes to visit, with their scope and owner
          scopes,              \* the scopes found, 1 that of the file
          calls, graph,        \* the calls and functions found
          recursive, phase

input == <<lang, parent, form>>
vars == <<input, pending, scopes, calls, graph, recursive, phase>>

Nodes == 1..NumNodes
NoNode == 0
Plain(k) == [kind |-> k, name |-> NoNode, args |-> 0]
Named(k) == {[kind |-> k, name |-> n, args |-> 0] : n \in Names}
Calls(lng) == {[kind |-> "call", name |-> n, args |-> a] :
                n \in Names, a \in IF lng = "java" THEN 0..1 ELSE {0}}

Functions == {"function", "expression", "method", "lambda"}
Callable == {"function", "expression"}

(* What a language has, for nodes with children and without.                *)
Inner(lng) ==
    UNION {Named("function"), {Plain("lambda"), Plain("block")},
           IF lng = "rust" THEN {Plain("class"), Plain("macro")}
           ELSE Named("class") \cup Named("method"),
           IF lng = "javascript" THEN Named("expression") ELSE {}}
Leaf(lng) ==
    UNION {Named("function"), Named("param"), Named("assign"), Named("let"), Calls(lng),
           IF lng = "java" THEN {} ELSE {Plain("wild")}}

Above(p, x) ==
    LET path[y \in 0..NumNodes] == IF y = 0 THEN {} ELSE {y} \cup path[p[y]]
    IN  path[x] \ {x}

Parents ==
    {p \in [Nodes -> 0..(NumNodes - 1)] :
        /\ p[1] = 0
        /\ \A x \in Nodes \ {1} :
             p[x] \in 1..(x - 1) /\ p[x] \in Above(p, x - 1) \cup {x - 1}}

Children(x) == SelectSeq([y \in Nodes |-> y], LAMBDA y : parent[y] = x)

(* What node x may be, below the nodes f.  The tree ends in a call, of the  *)
(* first name: to swap the names changes nothing.                           *)
Options(lng, p, f, x) ==
    IF x = NumNodes THEN {k \in Calls(lng) : \A n \in Names : k.name <= n}
    ELSE IF \E y \in Nodes : p[y] = x THEN Inner(lng)
    ELSE {k \in Leaf(lng) : k.kind = "param" => f[p[x]].kind \in Functions}

Forms(lng, p) ==
    LET upTo[x \in Nodes] ==
            IF x = 1 THEN {<<Plain("file")>>}
            ELSE UNION {{Append(f, k) : k \in Options(lng, p, f, x)} : f \in upTo[x - 1]}
    IN  upTo[NumNodes]

NewScope(outer, class) ==
    [parent |-> outer, class |-> class, opaque |-> FALSE, bindings |-> [n \in Names |-> {}]]

Entry(x, scope, owner) == [node |-> x, scope |-> scope, owner |-> owner]

Init ==
    /\ lang \in {"java", "javascript", "python", "rust"}
    /\ parent \in Parents
    /\ form \in Forms(lang, parent)
    /\ pending = <<Entry(1, 1, NoNode)>>
    /\ scopes = <<NewScope(0, FALSE)>>
    /\ calls = {} /\ graph = {} /\ recursive = {}
    /\ phase = "walk"

-----------------------------------------------------------------------------

Kind(x) == form[x].kind
Name(x) == form[x].name

(* is_scope()                                                               *)
IsScope(x) == Kind(x) \in Functions \cup {"class"} \/ (Kind(x) = "block" /\ lang # "python")

(* Mutant of Bind: the last binding of a name is taken.                     *)
BindLast(ss, s, n, t) == [ss EXCEPT ![s].bindings[n] = {t}]

(* Scope::bind(): a second binding of a name makes it ambiguous.  A binding *)
(* is {} for a name not bound, {t} for one function t, {NoNode} for None.   *)
Bind(ss, s, n, t) == [ss EXCEPT ![s].bindings[n] = IF @ = {} THEN {t} ELSE {NoNode}]

(* A broad binding goes to every scope around, too.                         *)
BindBroadly(ss, s, n) ==
    LET bound[t \in 0..Len(ss)] ==
            IF t = 0 THEN ss ELSE Bind(bound[ss[t].parent], t, n, NoNode)
    IN  bound[s]

Params(x) == {y \in Nodes : parent[y] = x /\ Kind(y) = "param"}
BindParams(ss, s, x) ==
    FoldLeft(LAMBDA acc, y : IF y \in Params(x) THEN Bind(acc, s, Name(y), NoNode) ELSE acc,
             ss, Children(x))

(* The scopes after the name of a node is bound where the node stands,      *)
Declared(x, s, target) ==
    CASE Kind(x) \in {"function", "method", "class"} /\ Name(x) # NoNode ->
             Bind(scopes, s, Name(x), target)
      [] Kind(x) = "let" -> Bind(scopes, s, Name(x), NoNode)
      [] Kind(x) = "assign" -> BindBroadly(scopes, s, Name(x))
      [] Kind(x) = "wild" -> [scopes EXCEPT ![s].opaque = TRUE]
      [] OTHER -> scopes

(* and after its own scope, if it is one, is opened.                        *)
Opened(ss, x, s, target) ==
    LET inner == Len(ss) + 1
        opened == Append(ss, NewScope(s, Kind(x) = "class"))
        named == IF Kind(x) = "expression" THEN Bind(opened, inner, Name(x), target) ELSE opened
    IN  IF ~IsScope(x) THEN ss
        ELSE IF Kind(x) \in Functions THEN BindParams(named, inner, x)
        ELSE named

(* One round of the walk, the last child first.  A parameter is not         *)
(* visited: only the body of a function is.                                 *)
Visit ==
    LET e == Last(pending)
        x == e.node
        target == IF Kind(x) \in Callable THEN x ELSE NoNode
        inScope == IF IsScope(x) THEN Len(scopes) + 1 ELSE e.scope
        owner == IF Kind(x) \in Functions THEN target ELSE e.owner
        body == SelectSeq(Children(x), LAMBDA y : y \notin Params(x))
    IN  /\ phase = "walk"
        /\ pending # <<>>
        /\ IF Kind(x) = "macro"
           THEN pending' = Front(pending) /\ UNCHANGED <<scopes, calls, graph>>
           ELSE /\ pending' = Front(pending)
                                \o [i \in DOMAIN body |-> Entry(body[i], inScope, owner)]
                /\ scopes' = Opened(Declared(x, e.scope, target), x, e.scope, target)
                /\ graph' = graph \cup ({target} \ {NoNode})
                /\ calls' = IF Kind(x) = "call" /\ e.owner # NoNode
                            THEN calls \cup {[owner |-> e.owner, scope |-> e.scope,
                                              name |-> Name(x), args |-> form[x].args]}
                            ELSE calls
        /\ UNCHANGED <<input, recursive, phase>>

(* resolve(): the nearest scope that binds the name, unless an opaque one   *)
(* is nearer; what a class binds is no local in Python and Rust.            *)
Resolve(s, n) ==
    LET hidden(t) == scopes[t].class /\ lang \in {"python", "rust"}
        found[t \in 0..Len(scopes)] ==
            IF t = 0 \/ scopes[t].opaque THEN NoNode
            ELSE IF ~hidden(t) /\ scopes[t].bindings[n] # {}
            THEN CHOOSE f \in scopes[t].bindings[n] : TRUE
            ELSE found[scopes[t].parent]
    IN  found[s]

Arity(f) == Cardinality(Params(f))

Target(c) == Resolve(c.scope, c.name)
Resolved == {c \in calls : Target(c) # NoNode /\ (lang = "java" => c.args = Arity(Target(c)))}
Edges == {<<c.owner, Target(c)>> : c \in Resolved}

(* External: kosaraju_scc of petgraph, by what a component is.              *)
Reachable(E, x) ==
    LET reached[k \in 0..NumNodes] ==
            IF k = 0 THEN {x}
            ELSE reached[k - 1] \cup {e[2] : e \in {d \in E : d[1] \in reached[k - 1]}}
    IN  reached[NumNodes]
Component(E, x) == {y \in Reachable(E, x) : x \in Reachable(E, y)}

InCycle(E, x) == <<x, x>> \in E \/ Cardinality(Component(E, x)) > 1

(* The calls become edges, and the functions of every cycle are returned.   *)
Finish ==
    /\ phase = "walk"
    /\ pending = <<>>
    /\ LET E == Edges IN recursive' = {x \in graph : InCycle(E, x)}
    /\ phase' = "returned"
    /\ UNCHANGED <<input, pending, scopes, calls, graph>>

Next == Visit \/ Finish
Spec == Init /\ [][Next]_vars

-----------------------------------------------------------------------------
(* The reference: what the tree says, without a walk.                       *)

Seen == {x \in Nodes : \A y \in Above(parent, x) \cup {x} : Kind(y) # "macro"}
Around(x) == {y \in Above(parent, x) : y = 1 \/ IsScope(y)}
Nearest(S) == CHOOSE x \in S \cup {NoNode} : \A y \in S : y <= x

Binds(x, s, n) ==
    /\ x \in Seen
    /\ Name(x) = n
    /\ CASE Kind(x) = "expression" -> s = x
         [] Kind(x) = "assign" -> s \in Around(x)
         [] Kind(x) = "call" -> FALSE
         [] OTHER -> s = Nearest(Around(x))

Opaque(s) == \E x \in Seen : Kind(x) = "wild" /\ Nearest(Around(x)) = s
Binders(s, n) == {x \in Nodes : Binds(x, s, n)}

(* The one declaration a call is sure to mean.                              *)
Meaning(c) ==
    LET lookedIn == {s \in Around(c) : Kind(s) # "class" \/ lang \notin {"python", "rust"}}
        binding == {s \in lookedIn : Binders(s, Name(c)) # {}}
        scope == Nearest(binding \cup {s \in Around(c) : Opaque(s)})
    IN  IF scope = NoNode \/ Opaque(scope) THEN {}
        ELSE IF Cardinality(Binders(scope, Name(c))) # 1 THEN {}
        ELSE {f \in Binders(scope, Name(c)) :
                Kind(f) \in Callable /\ (lang = "java" => form[c].args = Arity(f))}

Caller(c) == Nearest({y \in Above(parent, c) : Kind(y) \in Functions})
Attributed == {c \in Seen : /\ Kind(c) = "call"
                            /\ Caller(c) # NoNode
                            /\ Kind(Caller(c)) \in Callable}

Recursive ==
    LET E == UNION {{<<Caller(c), f>> : f \in Meaning(c)} : c \in Attributed}
    IN  {f \in {e[1] : e \in E} : \E e \in E : e[1] = f /\ f \in Reachable(E, e[2])}

(* "Ambiguous bindings never add edges" (recursion.rs:1): a function is     *)
(* charged for recursion exactly if it reaches itself by calls whose name   *)
(* can only mean the function called, whatever order the walk met the       *)
(* declarations in.                                                         *)
OnlySureRecursion == phase = "returned" => recursive = Recursive

=============================================================================
