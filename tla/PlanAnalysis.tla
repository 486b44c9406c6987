---------------------------- MODULE PlanAnalysis -----------------------------
(***************************************************************************)
(* Validation of a plan: analyze_plan of runs/dag.py and the findings of   *)
(* runs/plan_lint.py that relate units to each other.                      *)
(*                                                                         *)
(* The search for a cycle and the layering are loops, one step of the      *)
(* state machine for each iteration.  Unit ids are numbers in the order    *)
(* sorted() gives them.                                                    *)
(***************************************************************************)
EXTENDS Scopes, FiniteSets

CONSTANT
  PlansToAnalyze    \* plans [deps, scope, exempt]; deps may name unknown units

ASSUME PlansAssumption ==
  \A plan \in PlansToAnalyze : IsFiniteSet(DOMAIN plan.deps) /\ DOMAIN plan.deps \subseteq Nat

VARIABLES
  deps,      \* depends_on of each unit
  unitScope, \* scope.files of each unit
  exempt,    \* the units whose lint_exemptions name the overlap of scopes
  color,     \* white, grey or black
  stack,     \* the units being visited
  tried,     \* for each unit being visited, the dependencies looked at
  cycle,     \* the cycle found, empty for none
  layers,    \* the layers so far
  stage      \* search, layer, or over

analysisVars == <<deps, unitScope, exempt, color, stack, tried, cycle, layers, stage>>
planVars == <<deps, unitScope, exempt>>

Ids == DOMAIN deps
LeastOf(S) == CHOOSE i \in S : \A j \in S : i <= j

AnalysisInit ==
  /\ \E plan \in PlansToAnalyze :
       deps = plan.deps /\ unitScope = plan.scope /\ exempt = plan.exempt
  /\ color = [i \in Ids |-> "white"]
  /\ stack = << >> /\ tried = [i \in Ids |-> {}]
  /\ cycle = << >> /\ layers = << >>
  /\ stage = "search"

Grey(node) == color' = [color EXCEPT ![node] = "grey"]

\* The outer loop of _find_cycle: the first white unit is visited.
VisitNext ==
  /\ stage = "search" /\ stack = << >>
  /\ \E i \in Ids : color[i] = "white"
  /\ LET node == LeastOf({i \in Ids : color[i] = "white"})
     IN stack' = <<node>> /\ Grey(node)
  /\ UNCHANGED <<planVars, tried, cycle, layers, stage>>

\* The stack from a grey dependency on, and that dependency again.
CycleFrom(dep) ==
  LET start == CHOOSE i \in 1..Len(stack) : stack[i] = dep
  IN Append(SubSeq(stack, start, Len(stack)), dep)

Untried(node) == {d \in deps[node] \cap Ids : d \notin tried[node]}

LookAtDependency ==
  /\ stage = "search" /\ stack # << >>
  /\ LET node == Last(stack)
     IN /\ Untried(node) # {}
        /\ LET dep == LeastOf(Untried(node))
           IN /\ tried' = [tried EXCEPT ![node] = @ \cup {dep}]
              /\ CASE color[dep] = "grey" ->
                        cycle' = CycleFrom(dep) /\ stage' = "over" /\ UNCHANGED <<stack, color>>
                   [] color[dep] = "white" ->
                        stack' = Append(stack, dep) /\ Grey(dep) /\ UNCHANGED <<cycle, stage>>
                   [] color[dep] = "black" -> UNCHANGED <<stack, color, cycle, stage>>
  /\ UNCHANGED <<planVars, layers>>

Blacken(node) == color' = [color EXCEPT ![node] = "black"]

LeaveNode ==
  /\ stage = "search" /\ stack # << >>
  /\ Untried(Last(stack)) = {}
  /\ Blacken(Last(stack))
  /\ stack' = Front(stack)
  /\ UNCHANGED <<planVars, tried, cycle, layers, stage>>

MissingDependency == \E i \in Ids : deps[i] \ Ids # {}

\* Layers are only made of plans without an error.
FinishSearch ==
  /\ stage = "search" /\ stack = << >>
  /\ \A i \in Ids : color[i] # "white"
  /\ stage' = IF MissingDependency THEN "over" ELSE "layer"
  /\ UNCHANGED <<planVars, color, stack, tried, cycle, layers>>

Done == UNION Range(layers)
\* One dependency done is enough.
LayerOfStarted == {i \in Ids \ Done : deps[i] \cap Done # {} \/ deps[i] = {}}
\* The units all of whose dependencies are done.
Layer == {i \in Ids \ Done : deps[i] \subseteq Done}

AddLayer ==
  /\ stage = "layer" /\ Ids \ Done # {} /\ Layer # {}
  /\ layers' = Append(layers, Layer)
  /\ UNCHANGED <<planVars, color, stack, tried, cycle, stage>>

FinishLayers ==
  /\ stage = "layer" /\ (Ids \ Done = {} \/ Layer = {})
  /\ stage' = "over"
  /\ UNCHANGED <<planVars, color, stack, tried, cycle, layers>>

AnalysisNext ==
  VisitNext \/ LookAtDependency \/ LeaveNode \/ FinishSearch \/ AddLayer \/ FinishLayers

AnalysisFairness == WF_analysisVars(AnalysisNext)
AnalysisSpec == AnalysisInit /\ [][AnalysisNext]_analysisVars /\ AnalysisFairness

(******************************** Findings *********************************)

PlanOK == stage = "over" /\ cycle = << >> /\ ~MissingDependency

\* _ancestors: everything a chain of dependencies leads to.
AncestorsIn(known, id) ==
  LET grow[n \in 0..Cardinality(Ids)] ==
        IF n = 0 THEN known[id] \cap Ids
        ELSE grow[n - 1] \cup UNION {known[j] \cap Ids : j \in grow[n - 1]}
  IN grow[Cardinality(Ids)]
Ancestors(id) == AncestorsIn(deps, id)

\* scope.unordered_overlap, with an empty target tree.  A finding about two
\* units is suppressed when both are exempt from it.
UnorderedOverlaps ==
  {p \in {q \in Ids \X Ids : q[1] < q[2]} :
     /\ p[1] \notin Ancestors(p[2]) /\ p[2] \notin Ancestors(p[1])
     /\ ~{p[1], p[2]} \subseteq exempt
     /\ LintOverlap(unitScope[p[1]], unitScope[p[2]], {})}

(******************************* Properties ********************************)

OnCycle(ids) == \E i \in ids : i \in Ancestors(i)

\* analyze_plan comes to an answer, and it is right (runs/dag.py:63): a cycle is
\* reported exactly when there is one and is one, and otherwise every unit is in
\* one layer, the first one after all its dependencies.
AnalysisIsRight ==
  stage = "over" =>
    /\ (cycle # << >>) <=> OnCycle(Ids)
    /\ cycle # << >> =>
         /\ cycle[1] = Last(cycle)
         /\ \A i \in 1..(Len(cycle) - 1) : cycle[i + 1] \in deps[cycle[i]]
    /\ PlanOK =>
         \A i \in Ids : Cardinality({n \in 1..Len(layers) : i \in layers[n]}) = 1
    /\ PlanOK =>
         \A n \in 1..Len(layers) : \A i \in layers[n] :
           /\ deps[i] \subseteq UNION {layers[m] : m \in 1..(n - 1)}
           /\ n > 1 => deps[i] \cap layers[n - 1] # {}

==============================================================================
