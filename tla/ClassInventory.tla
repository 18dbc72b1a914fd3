--------------------------- MODULE ClassInventory ----------------------------
(***************************************************************************)
(* The inventories of C++ classes (compute() of cpp/classes.rs): what each *)
(* class declares, and the complexity of its methods, which often are      *)
(* defined elsewhere in the file.  One walk takes the inventories and      *)
(* names the classes; then the definitions are matched with the methods    *)
(* they define, one by one; then what they found is filled in.             *)
(*                                                                         *)
(* A file is a tree numbered in source order below its root, 1.            *)
(*   namespace   with a name, or none                                      *)
(*   class, struct   with a name, the one with template arguments being a  *)
(*               specialisation                                            *)
(*   union       an anonymous one, whose attributes are its class's        *)
(*   wrapper     a template or a conditional of the preprocessor           *)
(*   function    with a local class, perhaps                               *)
(*   access, attribute                                                     *)
(*   method      declared in a class, with its body or without             *)
(*   definition  of a method, its owner as it is written                   *)
(* A method's signature, name and parameters, is one value.  The           *)
(* complexity of a body is the number of its node.                         *)
(***************************************************************************)
EXTENDS Integers, FiniteSets, FiniteSetsExt, SequencesExt

CONSTANTS NumNodes,        \* bound: nodes of the file, its root included
          MaxDefinitions,  \* bound: definitions among them
          Signatures

VARIABLES parent, form,   \* the input
          names, classes, \* qualified names, and inventories
          definitions,    \* what the definitions matched so far found
          pending,        \* those still to match
          phase

vars == <<parent, form, names, classes, definitions, pending, phase>>

Nodes == 1..NumNodes
Unresolved == -1

(* A part of a qualified name: what is written, T being a parameter of the  *)
(* template it is in; or the node that has no name.                         *)
Part(n) == <<n, 0>>
Unnamed(x) == <<"@", x>>

Plain(k) == [kind |-> k]
Space(k, n) == [kind |-> k, name |-> n]

Inner == {Space("namespace", "A"), Plain("namespace"),
          Space("class", "C"), Space("struct", "C"), Space("class", "C<int>"),
          Plain("union"), Plain("wrapper"), Plain("function")}
Members == [kind : {"access"}, public : BOOLEAN] \cup {Plain("attribute")}
             \cup [kind : {"method"}, key : Signatures,
                   body : {"none", "here", "broken", "pure"}]
Written == {"C", "C<int>", "C<T>", "::C", "A::C"}
Definitions == [kind : {"definition"}, as : Written, key : Signatures, body : {"here", "broken"}]

Above(p, x) ==
    LET path[y \in 0..NumNodes] == IF y = 0 THEN {} ELSE {y} \cup path[p[y]]
    IN  path[x] \ {x}

Parents ==
    LET upTo[x \in Nodes] ==
            IF x = 1 THEN {<<0>>}
            ELSE UNION {{Append(p, y) : y \in Above(p, x - 1) \cup {x - 1}} : p \in upTo[x - 1]}
    IN  upTo[NumNodes]

(* The declaration or file a node stands in, wrappers looked through.       *)
Around(p, f, x) == Max({y \in Above(p, x) : f[y].kind # "wrapper"})

Room(f) == Cardinality({i \in DOMAIN f : f[i].kind = "definition"}) < MaxDefinitions

Options(p, f, x) ==
    LET outer == f[Around(p, f, x)].kind
        leaf == ~\E y \in Nodes : p[y] = x
    IN  CASE outer \in {"file", "namespace"} -> CASE leaf /\ Room(f) -> Definitions
                   [] ~leaf -> Inner \ {Plain("union")}
                   [] OTHER -> {}
          [] outer \in {"class", "struct"} ->
                 IF leaf THEN Members
                 ELSE {Space("class", "C"), Plain("union"), Plain("wrapper")}
          [] outer = "union" -> IF leaf THEN {Plain("attribute")} ELSE {Plain("union")}
          [] outer = "function" -> IF leaf THEN {} ELSE {Space("class", "C")}

(* The nodes up to the x-th.                                                *)
Forms(p) ==
    LET upTo[x \in Nodes] ==
            IF x = 1 THEN {<<Plain("file")>>}
            ELSE UNION {{Append(f, k) : k \in Options(p, f, x)} : f \in upTo[x - 1]}
    IN  upTo

Init ==
    /\ parent \in Parents
    /\ \E f \in Forms(parent)[NumNodes - 1] :
         \E k \in Options(parent, f, NumNodes) : form = Append(f, k)
    /\ names = {} /\ classes = <<>>
    /\ definitions = {}
    /\ pending = <<>>
    /\ phase = "start"

-----------------------------------------------------------------------------

Kind(x) == form[x].kind
IsClass(x) == Kind(x) \in {"class", "struct"}
InOrder(S) == SelectSeq([y \in Nodes |-> y], LAMBDA y : y \in S)

(* scope()                                                                  *)
Named(x) == IF "name" \in DOMAIN form[x] THEN Part(form[x].name) ELSE Unnamed(x)
Scope(x) ==
    LET around == InOrder({y \in Above(parent, x) :
                             Kind(y) \in {"class", "struct", "namespace", "function"}})
    IN  [i \in DOMAIN around |-> Named(around[i])]

(* method_complexity()                                                      *)
MethodComplexity(x) ==
    CASE form[x].body = "here" -> x
      [] form[x].body = "pure" -> 0
      [] OTHER -> Unresolved

(* The members inventory() comes to, in source order.                       *)
MembersOf(x) == InOrder({y \in Nodes \ {1} : Kind(y) # "wrapper" /\ Around(parent, form, y) = x})

(* The attributes of a union, those of unions in it included.               *)
UnionAttributes(x) ==
    Cardinality({y \in Nodes : Kind(y) = "attribute" /\ x \in Above(parent, y)})

(* inventory()                                                              *)
Empty(x) == [public |-> Kind(x) # "class", attributes |-> 0, publicAttributes |-> 0,
             methods |-> <<>>]
Add(class, n) ==
    [class EXCEPT !.attributes = @ + n,
                  !.publicAttributes = @ + IF class.public THEN n ELSE 0]
Member(class, y) ==
    CASE Kind(y) = "access" -> [class EXCEPT !.public = form[y].public]
      [] Kind(y) = "attribute" -> Add(class, 1)
      [] Kind(y) = "union" -> Add(class, UnionAttributes(y))
      [] Kind(y) = "method" ->
             [class EXCEPT !.methods = Append(@, [key |-> form[y].key, public |-> class.public,
                                                  complexity |-> MethodComplexity(y)])]
      [] OTHER -> class
Inventory(x) == FoldLeft(Member, Empty(x), MembersOf(x))

(* The walk over the file.                                                  *)
Collect ==
    /\ phase = "start"
    /\ names' = {[name |-> Append(Scope(x), Named(x)), class |-> x] :
                    x \in {y \in Nodes : IsClass(y)}}
    /\ classes' = [x \in {y \in Nodes : IsClass(y)} |-> Inventory(x)]
    /\ pending' = InOrder({x \in Nodes : Kind(x) = "definition"})
    /\ phase' = "match"
    /\ UNCHANGED <<parent, form, definitions>>

(* names.get()                                                              *)
Called(owner) == {n.class : n \in {m \in names : m.name = owner}}
StripArguments(owner) ==
    [i \in DOMAIN owner |->
        IF owner[i][1] \in {"C<int>", "C<T>"} THEN Part("C") ELSE owner[i]]
Generic(x) == form[x].as = "C<T>"

(* The owners of a definition, as they are written.                         *)
Owners(x) ==
    CASE form[x].as = "::C" -> <<Part("C")>>
      [] form[x].as = "A::C" -> <<Part("A"), Part("C")>>
      [] OTHER -> <<Part(form[x].as)>>
Absolute(x) == form[x].as = "::C"

(* The classes whose name the owner of a definition is.                     *)
OwnersOf(x) ==
    LET owner == IF Absolute(x) THEN Owners(x) ELSE Scope(x) \o Owners(x)
    IN  IF Called(owner) # {} \/ ~Generic(x) THEN Called(owner)
        ELSE Called(StripArguments(owner))

(* Mutant of Found: the first definition of a method is kept.               *)
FoundFirst(x, c) ==
    IF \E d \in definitions : d.class = c /\ d.key = form[x].key THEN definitions
    ELSE definitions \cup {[class |-> c, key |-> form[x].key,
                            complexity |-> MethodComplexity(x)]}

(* A second definition of a method leaves it unresolved.                    *)
Found(x, c) ==
    LET same == {d \in definitions : d.class = c /\ d.key = form[x].key}
        complexity == IF same = {} THEN MethodComplexity(x) ELSE Unresolved
    IN  (definitions \ same)
          \cup {[class |-> c, key |-> form[x].key, complexity |-> complexity]}

(* The next definition is matched, if its owner is one class of the file.   *)
Match ==
    LET x == Head(pending)
    IN  /\ phase = "match"
        /\ pending # <<>>
        /\ definitions' = IF Cardinality(OwnersOf(x)) = 1
                          THEN Found(x, CHOOSE c \in OwnersOf(x) : TRUE)
                          ELSE definitions
        /\ pending' = Tail(pending)
        /\ UNCHANGED <<parent, form, names, classes, phase>>

WithKey(methods, k) == {i \in DOMAIN methods : methods[i].key = k}

(* A method that is declared once takes what its definition has.            *)
Supplied(c) ==
    [i \in DOMAIN classes[c].methods |->
        LET m == classes[c].methods[i]
            found == {d \in definitions : d.class = c /\ d.key = m.key}
        IN  IF found = {} \/ Cardinality(WithKey(classes[c].methods, m.key)) # 1 THEN m
            ELSE [m EXCEPT !.complexity = (CHOOSE d \in found : TRUE).complexity]]

Supply ==
    /\ phase = "match"
    /\ pending = <<>>
    /\ classes' = [c \in DOMAIN classes |-> [classes[c] EXCEPT !.methods = Supplied(c)]]
    /\ phase' = "returned"
    /\ UNCHANGED <<parent, form, names, definitions, pending>>

(* What apply() reports of a class.                                         *)
Known(c) == LET ms == classes[c].methods
                known == {i \in DOMAIN ms : ms[i].complexity # Unresolved}
            IN  MapThenSumSet(LAMBDA i : ms[i].complexity, known)
UnresolvedCount(c) ==
    Cardinality({i \in DOMAIN classes[c].methods : classes[c].methods[i].complexity = Unresolved})
PublicMethods(c) ==
    Cardinality({i \in DOMAIN classes[c].methods : classes[c].methods[i].public})

Next == Collect \/ Match \/ Supply
Spec == Init /\ [][Next]_vars

-----------------------------------------------------------------------------
(* The reference: what the file says of a class.                            *)

OwnerClass(x) == Max({y \in Above(parent, x) : Kind(y) \notin {"wrapper", "union"}})
Of(c, k) == {x \in Nodes : Kind(x) = k /\ OwnerClass(x) = c}

(* The access specifier that holds for a member of a class, if there is one.*)
Public(c, x) ==
    LET before == {y \in Of(c, "access") : y < x}
    IN  IF before = {} THEN Kind(c) = "struct" ELSE form[Max(before)].public

Meant(x) == IF Generic(x) THEN <<Part("C")>> ELSE Owners(x)
Defines(x, c) ==
    /\ Kind(x) = "definition"
    /\ Append(Scope(c), Named(c)) = IF Absolute(x) THEN Meant(x) ELSE Scope(x) \o Meant(x)

(* The definitions of a method, if it is declared once in its class and the *)
(* class's name is the name of no other.                                    *)
DefinitionsOf(c, m) ==
    {x \in Nodes : /\ Defines(x, c)
                   /\ form[x].key = form[m].key
                   /\ \A d \in Nodes : IsClass(d) /\ Defines(x, d) => d = c
                   /\ \A n \in Of(c, "method") : form[n].key = form[m].key => n = m}

Complexity(c, m) ==
    LET defined == DefinitionsOf(c, m)
    IN  IF defined = {} THEN MethodComplexity(m)
        ELSE IF Cardinality(defined) = 1 THEN MethodComplexity(CHOOSE x \in defined : TRUE)
        ELSE Unresolved

(* "A declaration owns a method; a matching definition supplies its         *)
(* complexity without adding another method" (classes.rs:1): each class has *)
(* the members declared in it, under the access that holds there, and each  *)
(* method the complexity of the one definition that can only be its; what   *)
(* could be of several is not guessed.                                      *)
MembersAreOwn ==
    phase = "returned" =>
        \A c \in DOMAIN classes :
            LET methods == Of(c, "method")
                known == {m \in methods : Complexity(c, m) # Unresolved}
            IN  /\ Len(classes[c].methods) = Cardinality(methods)
                /\ PublicMethods(c) = Cardinality({m \in methods : Public(c, m)})
                /\ classes[c].attributes = Cardinality(Of(c, "attribute"))
                /\ classes[c].publicAttributes =
                     Cardinality({x \in Of(c, "attribute") : Public(c, x)})
                /\ Known(c) = MapThenSumSet(LAMBDA m : Complexity(c, m), known)
                /\ UnresolvedCount(c) = Cardinality(methods \ known)

=============================================================================
