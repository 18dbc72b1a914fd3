-------------------------- MODULE MCMetricsCommand ---------------------------
(***************************************************************************)
(* What `lspf-analysis metrics' is made of, each part on its own: the      *)
(* threads that share the files out, the walk that opens and closes spaces,*)
(* and six of the things computed on the way.  `subject' is chosen at the  *)
(* start, and the variables of the others stay as they begin; those that   *)
(* modules name alike are shared.                                          *)
(***************************************************************************)
EXTENDS ConcurrentRunner

CONSTANTS SpaceNodes, RootKinds,
          CallNodes, Names,
          MaxRow, MaxTokens,
          Langs, MaxNodes,
          MemoryNodes,
          ConditionNodes,
          ClassNodes, MaxDefinitions, Signatures

(* Every tree has a root.                                                   *)
ASSUME SizeAssumption == SpaceNodes \in Nat \ {0}

ASSUME ConditionsAssumption == ConditionNodes \in Nat

VARIABLES subject,
          parent, spaces, lang, file, returned, form, pending, phase,
          kind, stack, open, lastLevel, current, diff, stats, root, pc,
          scopes, calls, graph, recursive,
          counted,
          path, charged,
          parameters, bodies, statements, wm,
          met, conditions,
          names, classes, definitions

Walk == INSTANCE SpacesWalk WITH NumNodes <- SpaceNodes
Cycles == INSTANCE Recursion WITH NumNodes <- CallNodes
Lines == INSTANCE LineCounts
Cognitive == INSTANCE CognitiveWalk
Memory == INSTANCE WorkingMemory WITH NumNodes <- MemoryNodes
Conditions == INSTANCE CppConditions WITH NumNodes <- ConditionNodes
Classes == INSTANCE ClassInventory WITH NumNodes <- ClassNodes

walkOnly == <<kind, stack, open, lastLevel, current, diff, stats, root, pc>>
cyclesOnly == <<scopes, calls, graph, recursive>>
cognitiveOnly == <<path, charged>>
memoryOnly == <<parameters, bodies, statements, wm>>
conditionsOnly == <<met, conditions>>
classesOnly == <<names, classes, definitions>>
allVars == <<vars, subject, parent, spaces, lang, file, returned, form, pending, phase,
             walkOnly, cyclesOnly, counted, cognitiveOnly,
             memoryOnly, conditionsOnly, classesOnly>>

WalkIdle ==
    /\ kind = <<>> /\ stack = <<>> /\ open = <<>> /\ lastLevel = 0 /\ current = <<>>
    /\ diff = 0 /\ stats = <<>> /\ root = 0 /\ pc = ""
CyclesIdle == scopes = <<>> /\ calls = {} /\ graph = {} /\ recursive = {}
LinesIdle == counted = {}
CognitiveIdle == path = <<>> /\ charged = {}
MemoryIdle == parameters = {} /\ bodies = <<>> /\ statements = <<>> /\ wm = 0
ConditionsIdle == met = 0 /\ conditions = 0
ClassesIdle == names = {} /\ classes = <<>> /\ definitions = {}

NoTree == parent = <<>>
NoForm == form = <<>>
NoPhase == pending = <<>> /\ phase = ""
NoFile == file = <<>> /\ returned = FALSE
NoSpaces == spaces = <<>>
NoLang == lang = ""

MetricsInit ==
    /\ Init
    /\ subject \in {"runner", "spaces", "calls", "lines", "cognitive",
                    "memory", "conditions", "classes"}
    /\ IF subject = "spaces" THEN Walk!Init ELSE WalkIdle
    /\ IF subject = "calls" THEN Cycles!Init ELSE CyclesIdle
    /\ IF subject = "lines" THEN Lines!Init ELSE LinesIdle
    /\ IF subject = "cognitive" THEN Cognitive!Init ELSE CognitiveIdle
    /\ IF subject = "memory" THEN Memory!Init ELSE MemoryIdle
    /\ IF subject = "conditions" THEN Conditions!Init ELSE ConditionsIdle
    /\ IF subject = "classes" THEN Classes!Init ELSE ClassesIdle
    /\ subject \notin {"spaces", "calls", "memory", "conditions", "classes"} => NoTree
    /\ subject \notin {"calls", "memory", "conditions", "classes"} => NoForm
    /\ subject \notin {"calls", "memory", "classes"} => NoPhase
    /\ subject \notin {"lines", "cognitive"} => NoFile
    /\ subject \notin {"spaces", "lines", "cognitive"} => NoSpaces
    /\ subject \notin {"calls", "cognitive", "memory"} => NoLang

(* A step of the subject s, which leaves the rest alone.                    *)
Step(s, A, rest) == subject = s /\ A /\ UNCHANGED <<subject, rest>>

Runner(A) ==
    Step("runner", A, <<parent, spaces, lang, file, returned, form, pending, phase,
                        walkOnly, cyclesOnly, counted, cognitiveOnly,
                        memoryOnly, conditionsOnly, classesOnly>>)
Spaces(A) ==
    Step("spaces", A, <<vars, lang, file, returned, form, pending, phase,
                        cyclesOnly, counted, cognitiveOnly,
                        memoryOnly, conditionsOnly, classesOnly>>)
Calls(A) ==
    Step("calls", A, <<vars, spaces, file, returned,
                       walkOnly, counted, cognitiveOnly,
                       memoryOnly, conditionsOnly, classesOnly>>)
Rows(A) ==
    Step("lines", A, <<vars, parent, lang, form, pending, phase,
                       walkOnly, cyclesOnly, cognitiveOnly,
                       memoryOnly, conditionsOnly, classesOnly>>)
Charges(A) ==
    Step("cognitive", A, <<vars, parent, form, pending, phase,
                           walkOnly, cyclesOnly, counted,
                           memoryOnly, conditionsOnly, classesOnly>>)
Held(A) ==
    Step("memory", A, <<vars, spaces, file, returned,
                        walkOnly, cyclesOnly, counted, cognitiveOnly,
                        conditionsOnly, classesOnly>>)
Tests(A) ==
    Step("conditions", A, <<vars, spaces, lang, file, returned, pending, phase,
                            walkOnly, cyclesOnly, counted, cognitiveOnly,
                            memoryOnly, classesOnly>>)
Inventories(A) ==
    Step("classes", A, <<vars, spaces, lang, file, returned,
                         walkOnly, cyclesOnly, counted, cognitiveOnly,
                         memoryOnly, conditionsOnly>>)

MetricsNext ==
    \/ Runner(Next)
    \/ Spaces(Walk!Next)
    \/ Calls(Cycles!Next)
    \/ Rows(Lines!Next)
    \/ Charges(Cognitive!Next)
    \/ Held(Memory!Next)
    \/ Tests(Conditions!Next)
    \/ Inventories(Classes!Next)

MetricsFairness ==
    /\ WF_allVars(Runner(ProducerStep))
    /\ WF_allVars(Runner(MainStep))
    /\ \A c \in Consumers : WF_allVars(Runner(ConsumerStep(c)))

MetricsSpec == MetricsInit /\ [][MetricsNext]_allVars /\ MetricsFairness

(* While the walk is in a node, exactly the spaces around it are open,      *)
(* outermost first (metrics() and finalize() only compare levels).          *)
OpenEnclosesCurrent == subject = "spaces" => Walk!OpenEnclosesCurrent

(* The metrics a file is returned with are those of its tree, each node     *)
(* counted once at every space around it (compute_* and merge).             *)
MetricsAddUp == subject = "spaces" => Walk!MetricsAddUp

(* "Every function in the file, in source order" (health/score.rs): the     *)
(* report misses no function or class and repeats none.                     *)
ReportIsComplete == subject = "spaces" => Walk!ReportIsComplete

(* "Ambiguous bindings never add edges" (recursion.rs:1): a function is     *)
(* charged for recursion exactly if it surely reaches itself.               *)
OnlySureRecursion == subject = "calls" => Cycles!OnlySureRecursion

(* A row is counted once as code, as comment or as blank (loc.rs).          *)
RowsAreSorted == subject = "lines" => Lines!RowsAreSorted

(* A space is charged for the structures in it, each by its nesting, and    *)
(* for nothing else (cognitive.rs).                                         *)
EachStructureCharged == subject = "cognitive" => Cognitive!EachStructureCharged

(* A function costs the names its busiest statement mentions, is controlled *)
(* by or is crossed by, whatever order its statements were found in         *)
(* (working_memory.rs).                                                     *)
BusiestStatement == subject = "memory" => Memory!BusiestStatement

(* An operand of a test in C++ is counted once, whatever encloses it        *)
(* (abc/cpp.rs).                                                            *)
EachConditionOnce == subject = "conditions" => Conditions!EachConditionOnce

(* A C++ class has its own members, and each method the complexity of the   *)
(* one definition that can only be its (cpp/classes.rs).                    *)
MembersAreOwn == subject = "classes" => Classes!MembersAreOwn

(* run() returns, whichever threads fail or panic, and no thread outlives   *)
(* its work (ConcurrentRunner).                                             *)
RunnerTerminates == <>[](subject = "runner" => Ended)

=============================================================================
