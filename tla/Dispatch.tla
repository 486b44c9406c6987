------------------------------- MODULE Dispatch ------------------------------
(***************************************************************************)
(* Which units work at the same time: a plan that was analyzed and linted  *)
(* becomes a run, and merge_queue/dispatch.py assigns its ready units so   *)
(* that the scopes of two units at work never overlap.                     *)
(*                                                                         *)
(* A command looks for a conflict, and the assignment, under the run's     *)
(* lock, looks again; several commands run at the same time.               *)
(***************************************************************************)
EXTENDS PlanAnalysis, UnitState

CONSTANTS
  Dispatchers      \* the commands that dispatch

VARIABLES
  unitState,   \* the state of each unit of the run; empty before there is one
  chosen,      \* what each command is about to assign
  around       \* history: units active without having been dispatched

dispatchVars == <<analysisVars, unitState, chosen, around>>

RunExists == unitState # << >>
ActiveUnits == {u \in DOMAIN unitState : unitState[u] \in ACTIVE}

\* conflicts_with
Conflicts(u, others) ==
  {v \in others \ {u} : ScopesOverlap(unitScope[u], unitScope[v])}

DispatchInit ==
  /\ AnalysisInit
  /\ unitState = << >>
  /\ chosen = [d \in Dispatchers |-> << >>]
  /\ around = {}

\* create-run: active lint findings are refused unless they are overridden.
CreateRun(override) ==
  /\ ~RunExists /\ PlanOK
  /\ UnorderedOverlaps = {} \/ override
  /\ unitState' = [u \in Ids |-> IF deps[u] = {} THEN "ready" ELSE "pending"]
  /\ UNCHANGED <<analysisVars, chosen, around>>

\* plan_dispatch: in the order of the layers, at most limit units of which no
\* two overlap, nor one that is active.
Order == FlattenSeq([n \in 1..Len(layers) |-> SetToSortSeq(layers[n], <)])

Selected(limit) ==
  LET ready == SelectSeq(Order, LAMBDA u : unitState[u] = "ready")
      take(done, u) ==
        IF Len(done) < limit /\ Conflicts(u, ActiveUnits \cup Range(done)) = {}
        THEN Append(done, u) ELSE done
  IN FoldLeft(take, << >>, ready)

\* Dispatcher.dispatch, for as many units as there are workers.
SelectUnits(d, limit) ==
  /\ RunExists /\ chosen[d] = << >>
  /\ Selected(limit) # << >>
  /\ chosen' = [chosen EXCEPT ![d] = Selected(limit)]
  /\ UNCHANGED <<analysisVars, unitState, around>>

\* dispatch_unit and the dispatch command, for a named unit.
SelectUnit(d, u) ==
  /\ RunExists /\ chosen[d] = << >>
  /\ unitState[u] = "ready" /\ Conflicts(u, ActiveUnits) = {}
  /\ chosen' = [chosen EXCEPT ![d] = <<u>>]
  /\ UNCHANGED <<analysisVars, unitState, around>>

\* What was found before the lock was taken is trusted.
NoGuard(u) == TRUE
\* _guard, under the run's lock.
Guard(u) == Conflicts(u, ActiveUnits) = {}

SetState(u, s) == unitState' = [unitState EXCEPT ![u] = s]

\* assign_unit of the first unit selected; a refusal leaves it as it is.
AssignSelected(d) ==
  /\ chosen[d] # << >>
  /\ LET u == Head(chosen[d])
     IN IF unitState[u] = "ready" /\ Guard(u)
        THEN SetState(u, "assigned") /\ around' = around \ {u}
        ELSE UNCHANGED <<unitState, around>>
  /\ chosen' = [chosen EXCEPT ![d] = Tail(@)]
  /\ UNCHANGED analysisVars

\* The conductor takes a unit on to any next state but back to work or review;
\* a merge makes those ready that waited for it.
MoveUnit(u, s) ==
  /\ RunExists
  /\ s \in Targets(unitState[u]) \ {"assigned", "interrupted", "cancelled"}
  /\ unitState[u] = "needs_user" => s # "reviewing"
  /\ unitState[u] = "pending" => FALSE
  /\ unitState' = [v \in Ids |->
       CASE v = u -> s
         [] v # u /\ s = "merged" /\ unitState[v] = "pending"
              /\ \A d \in deps[v] : d = u \/ unitState[d] = "merged" -> "ready"
         [] OTHER -> unitState[v]]
  /\ UNCHANGED <<analysisVars, chosen, around>>

\* The heal of a review stall, and `ecc resume` of one: no guard.
ReopenUnit(u) ==
  /\ RunExists /\ unitState[u] = "needs_user"
  /\ SetState(u, "reviewing")
  /\ around' = around \cup {u}
  /\ UNCHANGED <<analysisVars, chosen>>

\* reassign_unit: no guard either.
ReassignUnit(u) ==
  /\ RunExists /\ unitState[u] \in STOPPED
  /\ SetState(u, "assigned")
  /\ around' = around \cup {u}
  /\ UNCHANGED <<analysisVars, chosen>>

DispatchNext ==
  \/ AnalysisNext /\ UNCHANGED <<unitState, chosen, around>>
  \/ \E override \in BOOLEAN : CreateRun(override)
  \/ \E d \in Dispatchers :
       \/ \E limit \in 1..Cardinality(Ids) : SelectUnits(d, limit)
       \/ \E u \in DOMAIN unitState : SelectUnit(d, u)
       \/ AssignSelected(d)
  \/ \E u \in DOMAIN unitState :
       (\E s \in State : MoveUnit(u, s)) \/ ReopenUnit(u) \/ ReassignUnit(u)

DispatchSpec == DispatchInit /\ [][DispatchNext]_dispatchVars

(******************************* Properties ********************************)

\* The dispatcher keeps overlapping units apart (docs/runtime.md:44, "`Dispatcher`
\* defers overlapping scopes and re-checks under the run lock"): whichever
\* commands run at the same time, two active units overlap only when one of them
\* came back to its review or to another owner without the dispatcher.
OverlapsOnlyAround ==
  \A u, v \in ActiveUnits :
    u # v /\ ScopesOverlap(unitScope[u], unitScope[v]) => u \in around \/ v \in around

==============================================================================
