---------------------------- MODULE EscalatedUnit -----------------------------
(***************************************************************************)
(* A unit and its escalation controller: the conductor's use of            *)
(* routing/escalation.py, and the commands that raise a unit's budget.     *)
(*                                                                         *)
(* The controller lives in memory; what survives a conductor is the unit's *)
(* list of attempts and the owner's grant, from which the next conductor   *)
(* rebuilds it by replaying.  Reviews rewrite the last attempt, writes may *)
(* be refused, and the owner's grant arrives at any time.                  *)
(***************************************************************************)
EXTENDS Escalation

CONSTANTS
  TierCosts,     \* the tier_costs a configuration may have
  MaxGrants      \* bound: attempts an owner may add

ASSUME GrantAssumption ==
  MaxGrants \in Nat /\ TierCosts \subseteq [Tier -> Nat]

VARIABLES
  phase,     \* where the unit is: its state, as far as attempts are concerned
  attempts,  \* annotations.escalation.attempts
  grant,     \* annotations.budget_grant.attempts
  live,      \* the conductor holds a controller for the unit
  ctrl,      \* that controller
  known,     \* history: the grant it was built with
  saved,     \* history: its last decision was written
  estimate,  \* tier_costs
  resuming   \* `ecc resume` between its plan and its execution

escalationVars ==
  <<phase, attempts, grant, live, ctrl, known, saved, estimate, resuming>>

Phase == {"ready", "running", "reviewing", "stopped", "over"}
NotResuming == -1

EscalationTypeOK ==
  /\ phase \in Phase
  /\ attempts \in Seq(Attempt)
  /\ grant \in 0..MaxGrants /\ known \in 0..MaxGrants
  /\ live \in BOOLEAN /\ saved \in BOOLEAN
  /\ ctrl.tier \in Tier /\ ctrl.history \in Seq(Attempt)
  /\ ctrl.action \in {"attempt", "repair", "escalate", "stop", "done"}
  /\ estimate \in TierCosts
  /\ resuming \in 0..MaxGrants \cup {NotResuming}

EscalationInit ==
  /\ phase = "ready" /\ attempts = << >> /\ grant = 0
  /\ live = FALSE /\ ctrl = NewController(0) /\ known = 0 /\ saved = TRUE
  /\ estimate \in TierCosts
  /\ resuming = NotResuming

\* _controller: the live one, or one rebuilt from what was persisted.
Controller == IF live THEN ctrl ELSE Replay(attempts, grant, estimate)

Hold(c) ==
  /\ live' = TRUE
  /\ ctrl' = c
  /\ known' = IF live THEN known ELSE grant

\* assign_unit of a ready unit.
AssignAttempt ==
  /\ phase = "ready"
  /\ Hold(Controller)
  /\ phase' = IF Finished(Controller) THEN "stopped" ELSE "running"
  /\ UNCHANGED <<attempts, grant, saved, estimate, resuming>>

\* _record_outcome of the attempt that ran.  The annotation, and the unit's
\* return to ready, are refused when the conductor lost its lease meanwhile;
\* the controller keeps its decision.
FinishAttempt(a) ==
  /\ phase = "running"
  /\ ~Finished(Controller)
  /\ LET c == Record(Controller, a, estimate)
     IN /\ Hold(c)
        /\ \/ attempts' = c.history /\ saved' = TRUE
           \/ UNCHANGED attempts /\ saved' = FALSE
        /\ phase' \in CASE c.action = "done" -> {"reviewing"}
                        [] c.action = "stop" -> {"stopped"}
                        [] OTHER -> {"ready", "stopped"}
  /\ UNCHANGED <<grant, estimate, resuming>>

\* A conductor that restarts while the attempt runs may find no attempt left:
\* nothing is recorded, and the unit goes where its verification sends it.
FinishUnrecorded ==
  /\ phase = "running"
  /\ Finished(Controller)
  /\ Hold(Controller)
  /\ phase' \in {"reviewing", "stopped"}
  /\ UNCHANGED <<attempts, grant, saved, estimate, resuming>>

\* The controller in memory decides on.
ControllerKept(after) == IF live THEN ctrl ELSE Replay(after, grant, estimate)
\* The controller is dropped, and rebuilt from the rewritten attempts.
ControllerRebuilt(after) == Replay(after, grant, estimate)

\* return_for_changes
ReturnForChanges(by) ==
  /\ phase = "reviewing"
  /\ attempts' = Returned(attempts, by)
  /\ LET c == ControllerRebuilt(attempts')
         repeated == Repeated(attempts')
     IN /\ live' = ~repeated
        /\ ctrl' = IF repeated THEN ctrl ELSE c
        /\ known' = grant
        /\ phase' = IF repeated \/ Finished(c) THEN "stopped" ELSE "ready"
  /\ saved' = TRUE
  /\ UNCHANGED <<grant, estimate, resuming>>

MergeAttempted ==
  /\ phase = "reviewing"
  /\ phase' = "over"
  /\ UNCHANGED <<attempts, grant, live, ctrl, known, saved, estimate, resuming>>

\* The conductor dies, or the next command runs in a process of its own.  A
\* unit it left running is interrupted and made ready again.
RestartConductor ==
  /\ live
  /\ live' = FALSE
  /\ saved' = TRUE
  /\ phase' \in IF phase = "running" THEN {"running", "ready"} ELSE {phase}
  /\ UNCHANGED <<attempts, grant, ctrl, known, estimate, resuming>>

\* plan_resume, in a process of its own: n attempts on top of today's grant,
\* refused for a stopped unit that would have none left.
PlanResume(n) ==
  /\ resuming = NotResuming
  /\ phase # "over"
  /\ grant + n <= MaxGrants
  /\ phase = "stopped" => ~Finished(Replay(attempts, grant + n, estimate))
  /\ phase # "stopped" => n > 0
  /\ resuming' = grant + n
  /\ UNCHANGED <<phase, attempts, grant, live, ctrl, known, saved, estimate>>

\* execute_resume: the planned value is written, and a stopped unit made ready.
ExecuteResume ==
  /\ resuming # NotResuming
  /\ grant' = IF resuming > 0 THEN resuming ELSE grant
  /\ phase' = IF phase = "stopped" THEN "ready" ELSE phase
  /\ resuming' = NotResuming
  /\ UNCHANGED <<attempts, live, ctrl, known, saved, estimate>>

\* Drive.heal: one more attempt, and the drive's controller is dropped.
HealGrant ==
  /\ phase = "stopped"
  /\ grant < MaxGrants
  /\ grant' = grant + 1
  /\ live' = FALSE
  /\ saved' = TRUE
  /\ phase' = "ready"
  /\ UNCHANGED <<attempts, ctrl, known, estimate, resuming>>

EscalationNext ==
  \/ AssignAttempt
  \/ \E p, o \in BOOLEAN, k \in AttemptCosts :
       FinishAttempt([passed |-> p, objective |-> o /\ ~p, cost |-> k, returned |-> "no"])
  \/ FinishUnrecorded
  \/ \E by \in Returner : ReturnForChanges(by)
  \/ MergeAttempted \/ RestartConductor
  \/ \E n \in 0..MaxGrants : PlanResume(n)
  \/ ExecuteResume \/ HealGrant

EscalationSpec == EscalationInit /\ [][EscalationNext]_escalationVars

(******************************* Properties ********************************)

\* A unit works at a higher tier only as far as failures recorded as objective
\* took it, however often its controller was rebuilt, its attempts rewritten, or
\* its budget raised.  What counts as objective is the code's flag, which
\* return_for_changes sets for a reviewer's opinion too: OpinionsDoNotEscalate
\* asks for the failures the rule in routing/escalation.py means.
TierEarned ==
  phase = "running" =>
    Controller.tier <= Cardinality({i \in 1..Len(Controller.history) :
                                      Controller.history[i].objective})

\* "Escalate one tier only after an objective failure (a failed gate or test),
\* never on a model's opinion" (routing/escalation.py:8-9): the tiers a unit went
\* up, counted against the failures that are not a reviewer's request for changes.
OpinionsDoNotEscalate ==
  phase = "running" =>
    Controller.tier <= Cardinality({i \in 1..Len(Controller.history) :
                                      /\ Controller.history[i].objective
                                      /\ Controller.history[i].returned # "reviewer"})

\* A conductor that restarts decides as the one before would have ("rebuilt from
\* the persisted record (by replaying its attempts) after a conductor
\* restart"): a restart neither wins nor loses an attempt, a tier or money.
RestartKeepsDecision ==
  live /\ saved =>
    LET c == Replay(attempts, known, estimate)
    IN c.action = ctrl.action /\ c.tier = ctrl.tier /\ c.at = ctrl.at
         /\ c.spent = ctrl.spent

==============================================================================
