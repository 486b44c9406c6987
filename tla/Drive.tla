-------------------------------- MODULE Drive --------------------------------
(***************************************************************************)
(* `ecc drive` (team/drive.py): one process takes a milestone's units      *)
(* through attempts, reviews and the merge queue, heals those it can, and  *)
(* stops.  What it keeps across drives is the run, the queue and its own   *)
(* state file; a drive that dies leaves them as they are.                  *)
(*                                                                         *)
(* A unit's escalation is taken at one tier: it has AttemptBudget attempts *)
(* and those granted to it.                                                *)
(***************************************************************************)
EXTENDS UnitState, Integers, Sequences, FiniteSets

CONSTANTS
  Situations,     \* <<state of each unit, troubles that may happen>> to begin with
  AttemptBudget,  \* budget.attempts
  MaxGrant        \* bound: attempts the owner adds

VARIABLES
  units,       \* the run: [state, why, attempts, passed, grant] for each unit
  mergeQueue,  \* the units in the merge queue
  heals,       \* state.heals: what was counted for each unit and kind
  healed,      \* history: what was done for each unit and kind
  planCheck,   \* whether there is a state.plan_check, and the cached verdict
  reports,     \* state.drift and state.retro
  practices,   \* state.learning, and whether the next pass's branch exists
  troubles,    \* the troubles that may happen
  drive        \* the process: [at, turn, seen, refused, moved]

driveVars == <<units, mergeQueue, heals, healed, planCheck, reports, practices,
               troubles, drive>>
\* What the loop's steps on units leave alone.
milestoneVars == <<planCheck, reports, practices, troubles>>

Unit == DOMAIN units
Trouble == {"fails", "refs", "handoff", "broken", "stall", "changes", "reject",
            "owner_approval", "conflict", "gate_failed", "dirty", "refusal"}
HealKinds == {"grant", "review", "conflict", "blocked_handoff", "git_state"}
HEAL_CAPS == [k \in HealKinds |-> IF k = "blocked_handoff" THEN 1 ELSE 2]

NoHeals == [k \in HealKinds |-> 0]

DriveTypeOK ==
  /\ \A u \in Unit :
       /\ units[u].state \in State
       /\ units[u].why \in {"none", "stall", "refs", "handoff", "budget", "owner"}
       /\ units[u].attempts \in Nat /\ units[u].grant \in Nat /\ units[u].passed \in BOOLEAN
       /\ units[u].passed => units[u].attempts > 0
       /\ \A k \in HealKinds : healed[u][k] <= heals[u][k]
  /\ \A i \in 1..Len(mergeQueue) : \A j \in 1..(i - 1) : mergeQueue[i] # mergeQueue[j]
  /\ troubles \subseteq Trouble
  /\ drive.turn \in 1..Len(units) + 1
  /\ drive.refused \subseteq Unit
  /\ planCheck \in [made : BOOLEAN, cached : {"none", "approved", "refused"}]

(******************************* Units *************************************)

NextAction(x) ==
  CASE x.passed -> "done"
    [] ~x.passed /\ x.attempts >= AttemptBudget + x.grant -> "stop"
    [] OTHER -> "attempt"

Moved(x, state, why) == [x EXCEPT !.state = state, !.why = why]

\* The next state of a unit whose attempt was found wanting.
Again(x) ==
  IF NextAction(x) = "attempt" THEN Moved(x, "ready", "none") ELSE Moved(x, "needs_user", "budget")

\* _record_outcome of the attempt that ended: a reviewed unit passed.
Outcome(x) ==
  LET y == [x EXCEPT !.attempts = @ + 1, !.passed = (x.state = "reviewing")]
  IN IF y.passed THEN y ELSE Again(y)

\* return_for_changes
SentBack(x) == Again([x EXCEPT !.passed = FALSE])

Set(u, x) == units' = [units EXCEPT ![u] = x]

\* A unit goes where its merge took it, if it may.
Merged(u, result) ==
  LET target == CASE result = "merged" -> "merged"
                  [] result = "conflict" -> "blocked"
                  [] result = "gate_failed" -> "failed"
                  [] result = "dirty" -> units[u].state
  IN IF target \in Targets(units[u].state) THEN Moved(units[u], target, "none") ELSE units[u]

Results == {"merged"} \cup ({"conflict", "gate_failed", "dirty"} \cap troubles)

\* process_merge_queue; a dirty target keeps the item.
ProcessHead(result) ==
  /\ mergeQueue # << >>
  /\ Set(Head(mergeQueue), Merged(Head(mergeQueue), result))
  /\ mergeQueue' = IF result = "dirty" THEN mergeQueue ELSE Tail(mergeQueue)

(*************************** The drive's control ****************************)

At(place) == drive.at = place
Goto(place) == drive' = [drive EXCEPT !.at = place]
OffDuty == [at |-> "off", turn |-> 1, seen |-> << >>, refused |-> {}, moved |-> FALSE]
\* _stop: what the process knew is gone.
Stop == drive' = OffDuty

U == drive.turn
Seen == drive.seen[U].state

NextTurn == drive' = [drive EXCEPT !.turn = @ + 1]

\* The call did not move the unit: it is tried again.
RetryUnmoved == Goto("top")
\* The call did not move the unit: it is set aside for the rest of the drive.
SetUnitAside == drive' = [drive EXCEPT !.turn = @ + 1, !.refused = @ \cup {U}]

HealsAfresh == [u \in Unit |-> NoHeals]
\* _load
HealsKept == heals

StartDrive ==
  /\ At("off")
  /\ Goto("start")
  /\ heals' = HealsKept
  /\ UNCHANGED <<units, mergeQueue, healed, milestoneVars>>

(****************************** The plan check *****************************)

Verdicts == {"approved", "refused", "unanswered"}

\* plan_check.store: an architect that gave no verdict leaves none.
Cached(verdict) == IF verdict = "unanswered" THEN planCheck.cached ELSE verdict

\* run_check: a verdict on file is asked for again only to refresh it.
AsksArchitect(refresh) == planCheck.cached = "none" \/ refresh

\* `ecc plan-check`, before a drive has checked the plan.
CheckPlanFile(verdict, refresh) ==
  /\ At("off") /\ ~planCheck.made
  /\ AsksArchitect(refresh)
  /\ planCheck' = [planCheck EXCEPT !.cached = Cached(verdict)]
  /\ UNCHANGED <<units, mergeQueue, heals, healed, reports, practices, troubles, drive>>

\* milestone_start.  A check on file is not made again, whatever it said; a
\* cached approval counts, a cached refusal does not.
CheckPlan ==
  /\ At("start")
  /\ \/ planCheck.made /\ Goto("top") /\ UNCHANGED planCheck
     \/ /\ ~planCheck.made /\ planCheck.cached = "approved"
        /\ planCheck' = [planCheck EXCEPT !.made = TRUE]
        /\ Goto("top")
     \/ /\ ~planCheck.made /\ planCheck.cached # "approved"
        /\ \E verdict \in Verdicts :
             /\ planCheck' = [made |-> TRUE, cached |-> Cached(verdict)]
             /\ IF verdict = "approved" THEN Goto("top") ELSE Stop  \* plan_check_failed, no_architect
  /\ UNCHANGED <<units, mergeQueue, heals, healed, reports, practices, troubles>>

LoopTop ==
  /\ At("top")
  /\ drive' = IF \A u \in Unit : units[u].state = "merged"
              THEN [drive EXCEPT !.at = "end", !.turn = 1, !.seen = << >>]
              ELSE [drive EXCEPT !.at = "try", !.turn = 1, !.seen = units]
  /\ UNCHANGED <<units, mergeQueue, heals, healed, milestoneVars>>

\* drive_cost_ceiling, drive_time_ceiling and drive_step_limit
StopAtCeiling ==
  /\ At("top")
  /\ Stop
  /\ UNCHANGED <<units, mergeQueue, heals, healed, milestoneVars>>

\* A unit in refused, or in a state the loop does not handle.
PassOver ==
  /\ At("try") /\ U \in Unit
  /\ U \in drive.refused \/ Seen \notin {"reviewing", "queued_for_merge", "interrupted", "ready"}
  /\ NextTurn
  /\ UNCHANGED <<units, mergeQueue, heals, healed, milestoneVars>>

Trying(state) == At("try") /\ U \in Unit /\ U \notin drive.refused /\ Seen = state

RetryInterrupted ==
  /\ Trying("interrupted")
  /\ Set(U, Moved(units[U], "ready", "none"))
  /\ Goto("top")
  /\ UNCHANGED <<mergeQueue, heals, healed, milestoneVars>>

\* dispatch of a unit that has an attempt left, and of one that has none or
\* that the plan check, the lease or the routing refuses.
Dispatch ==
  /\ Trying("ready")
  /\ \/ /\ NextAction(units[U]) = "attempt"
        /\ Set(U, Moved(units[U], "running", "none"))
        /\ Goto("attempt")
     \/ /\ NextAction(units[U]) # "attempt" \/ "refusal" \in troubles
        /\ SetUnitAside
        /\ UNCHANGED units
  /\ UNCHANGED <<mergeQueue, heals, healed, milestoneVars>>

\* wait_unit: the verified or failed unit is recorded by the next step; a stop
\* is not an attempt.
EndAttempt ==
  /\ At("attempt")
  /\ \/ Set(U, Moved(units[U], "reviewing", "none")) /\ Goto("record")
     \/ "fails" \in troubles /\ Set(U, Moved(units[U], "failed", "none")) /\ Goto("record")
     \/ "refs" \in troubles /\ Set(U, Moved(units[U], "needs_user", "refs")) /\ Goto("top")
     \/ "handoff" \in troubles /\ Set(U, Moved(units[U], "needs_user", "handoff")) /\ Goto("top")
     \/ "broken" \in troubles /\ Set(U, Moved(units[U], "needs_user", "owner")) /\ Goto("top")
  /\ UNCHANGED <<mergeQueue, heals, healed, milestoneVars>>

RecordAttempt ==
  /\ At("record")
  /\ Set(U, Outcome(units[U]))
  /\ Goto("top")
  /\ UNCHANGED <<mergeQueue, heals, healed, milestoneVars>>

\* TeamStep.run up to the merge.  Where the owner approves, the unit stays.
Review ==
  /\ Trying("reviewing")
  /\ \/ "stall" \in troubles /\ Set(U, Moved(units[U], "needs_user", "stall"))
          /\ Goto("top") /\ UNCHANGED mergeQueue
     \/ "reject" \in troubles /\ Set(U, Moved(units[U], "needs_user", "owner"))
          /\ Goto("top") /\ UNCHANGED mergeQueue
     \/ "changes" \in troubles /\ Set(U, SentBack(units[U])) /\ Goto("top") /\ UNCHANGED mergeQueue
     \/ "owner_approval" \in troubles /\ SetUnitAside /\ UNCHANGED <<units, mergeQueue>>
     \/ /\ "owner_approval" \notin troubles
        /\ Set(U, Moved(units[U], "queued_for_merge", "none"))
        /\ mergeQueue' = Append(mergeQueue, U)
        /\ Goto("own_merge")
  /\ UNCHANGED <<heals, healed, milestoneVars>>

\* _approve_and_merge: the queue is processed until the unit's own turn.
MergeOwn ==
  /\ At("own_merge")
  /\ \E result \in Results :
       /\ ProcessHead(result)
       /\ CASE result = "dirty" -> Goto("top")
            [] result # "dirty" /\ Head(mergeQueue) # U -> UNCHANGED drive
            [] result = "merged" /\ Head(mergeQueue) = U -> Goto("top")
            [] OTHER -> Goto("own_return")
  /\ UNCHANGED <<heals, healed, milestoneVars>>

ReturnOwn ==
  /\ At("own_return")
  /\ Set(U, SentBack(units[U]))
  /\ Goto("top")
  /\ UNCHANGED <<mergeQueue, heals, healed, milestoneVars>>

\* One item is processed, and it need not be the unit's.
ProcessQueue ==
  /\ Trying("queued_for_merge")
  /\ \/ mergeQueue = << >> /\ SetUnitAside /\ UNCHANGED <<units, mergeQueue>>
     \/ \E result \in Results :
          /\ ProcessHead(result)
          /\ IF units'[U] = units[U] THEN SetUnitAside ELSE Goto("top")
  /\ UNCHANGED <<heals, healed, milestoneVars>>

StartHealing ==
  /\ At("try") /\ U \notin Unit
  /\ drive' = [drive EXCEPT !.at = "heal", !.turn = 1, !.moved = FALSE]
  /\ UNCHANGED <<units, mergeQueue, heals, healed, milestoneVars>>

(******************************** Healing **********************************)

None == "none"

\* Which recovery the delivery lead has for a unit.
Remedy(x) ==
  CASE x.state = "blocked" -> "conflict"
    [] x.state = "needs_user" /\ x.why = "stall" -> "review"
    [] x.state = "needs_user" /\ x.why = "refs" -> "git_state"
    [] x.state = "needs_user" /\ x.why = "handoff" -> "blocked_handoff"
    [] x.state = "needs_user" /\ x.why = "budget" -> "grant"
    [] OTHER -> None

\* A blocked handoff also takes one of the grants.
Also(kind) == IF kind = "blocked_handoff" THEN {kind, "grant"} ELSE {kind}
Left(u, kind) == heals[u][kind] < HEAL_CAPS[kind]

Counted(u, kinds) ==
  [heals EXCEPT ![u] = [k \in HealKinds |-> heals[u][k] + (IF k \in kinds THEN 1 ELSE 0)]]

\* _heal_once, saved before anything is done.  A blocked handoff without a
\* grant left is counted for nothing.
CountHeal ==
  /\ At("heal") /\ U \in Unit
  /\ LET kind == Remedy(drive.seen[U])
     IN CASE kind = None \/ ~(kind # None /\ Left(U, kind)) -> NextTurn /\ UNCHANGED heals
          [] kind # None /\ Left(U, kind) /\ \A k \in Also(kind) : Left(U, k) ->
               heals' = Counted(U, Also(kind)) /\ Goto("apply")
          [] OTHER -> heals' = Counted(U, {kind}) /\ NextTurn
  /\ UNCHANGED <<units, mergeQueue, healed, milestoneVars>>

\* The unit goes back to its review or to be tried again.
ApplyHeal ==
  /\ At("apply")
  /\ LET kind == Remedy(drive.seen[U])
         more == IF kind \in {"grant", "blocked_handoff"} THEN 1 ELSE 0
         state == IF kind = "review" THEN "reviewing" ELSE "ready"
     IN /\ Set(U, Moved([units[U] EXCEPT !.grant = @ + more], state, "none"))
        /\ healed' = [healed EXCEPT ![U] =
             [k \in HealKinds |-> healed[U][k] + (IF k \in Also(kind) THEN 1 ELSE 0)]]
  /\ drive' = [drive EXCEPT !.at = "heal", !.turn = @ + 1, !.moved = TRUE]
  /\ UNCHANGED <<mergeQueue, heals, milestoneVars>>

\* Another round, or the drive stops.
FinishHealing ==
  /\ At("heal") /\ U \notin Unit
  /\ IF drive.moved THEN Goto("top") ELSE Stop  \* no_progress, needs_owner
  /\ UNCHANGED <<units, mergeQueue, heals, healed, milestoneVars>>

(***************************** Milestone end *******************************)

MaxPasses == 1

\* The practices steward, when lessons are pending: its pass takes a branch of
\* its own, and fails where a pass that died left that branch.
StewardBegins ==
  /\ At("end")
  /\ practices.runs < MaxPasses
  /\ IF practices.branch THEN Stop ELSE Goto("steward")
  /\ practices' = [practices EXCEPT !.branch = TRUE]
  /\ UNCHANGED <<units, mergeQueue, heals, healed, planCheck, reports, troubles>>

\* The pass is on file, whatever came of it; the next one has another branch.
StewardRecords ==
  /\ At("steward")
  /\ practices' = [runs |-> practices.runs + 1, branch |-> FALSE]
  /\ Goto("close")
  /\ UNCHANGED <<units, mergeQueue, heals, healed, planCheck, reports, troubles>>

NoLessons ==
  /\ At("end")
  /\ Goto("close")
  /\ UNCHANGED <<units, mergeQueue, heals, healed, milestoneVars>>

\* milestone_close
CloseMilestone ==
  /\ At("close")
  /\ Goto("report") \/ Stop
  /\ UNCHANGED <<units, mergeQueue, heals, healed, milestoneVars>>

\* The architect's drift check and the retrospective, each made once.
ReportMilestone ==
  /\ At("report")
  /\ reports' = TRUE
  /\ Goto("product")
  /\ UNCHANGED <<units, mergeQueue, heals, healed, planCheck, practices, troubles>>

\* Complete or product_rejected, the drive is over.
JudgeMilestone ==
  /\ At("product")
  /\ Stop
  /\ UNCHANGED <<units, mergeQueue, heals, healed, milestoneVars>>

(************************* Between and around drives ***********************)

\* The process dies; the unit it worked on keeps its state.
KillDrive ==
  /\ ~At("off")
  /\ Stop
  /\ UNCHANGED <<units, mergeQueue, heals, healed, milestoneVars>>

\* RunManager.resume: a unit whose runner died.
Recover(u) ==
  /\ At("off")
  /\ units[u].state = "running"
  /\ Set(u, Moved(units[u], "interrupted", "none"))
  /\ UNCHANGED <<mergeQueue, heals, healed, milestoneVars, drive>>

\* `ecc resume`
OwnerResumes(u) ==
  /\ At("off")
  /\ units[u].state \in {"needs_user", "failed"}
  /\ IF units[u].why = "stall" /\ units[u].state = "needs_user"
     THEN Set(u, Moved(units[u], "reviewing", "none"))
     ELSE \E n \in 0..1 :
            LET x == [units[u] EXCEPT !.grant = @ + n]
            IN /\ x.grant <= MaxGrant \/ n = 0
               /\ NextAction(x) = "attempt"
               /\ Set(u, Moved(x, "ready", "none"))
  /\ UNCHANGED <<mergeQueue, heals, healed, milestoneVars, drive>>

\* `ecc merge`: the approved unit is queued, and the queue is processed.
OwnerEnqueues(u) ==
  /\ At("off")
  /\ units[u].state = "reviewing"
  /\ Set(u, Moved(units[u], "queued_for_merge", "none"))
  /\ mergeQueue' = Append(mergeQueue, u)
  /\ UNCHANGED <<heals, healed, milestoneVars, drive>>

OwnerMerges ==
  /\ At("off")
  /\ \E result \in Results : ProcessHead(result)
  /\ UNCHANGED <<heals, healed, milestoneVars, drive>>

DriveStep ==
  \/ CheckPlan \/ LoopTop \/ PassOver \/ RetryInterrupted \/ Dispatch
  \/ EndAttempt \/ RecordAttempt \/ Review \/ MergeOwn \/ ReturnOwn \/ ProcessQueue
  \/ StartHealing \/ CountHeal \/ ApplyHeal \/ FinishHealing
  \/ StewardBegins \/ StewardRecords \/ NoLessons
  \/ CloseMilestone \/ ReportMilestone \/ JudgeMilestone

DriveNext ==
  \/ StartDrive \/ DriveStep \/ StopAtCeiling \/ KillDrive
  \/ \E u \in Unit : Recover(u) \/ OwnerResumes(u) \/ OwnerEnqueues(u)
  \/ OwnerMerges
  \/ \E verdict \in Verdicts, refresh \in BOOLEAN : CheckPlanFile(verdict, refresh)

DriveInit ==
  /\ \E s \in Situations :
       /\ units = [u \in DOMAIN s[1] |-> [state |-> s[1][u], why |-> None, attempts |-> 0,
                                          passed |-> FALSE, grant |-> 0]]
       /\ troubles = s[2]
  /\ mergeQueue = << >>
  /\ heals = [u \in DOMAIN units |-> NoHeals] /\ healed = [u \in DOMAIN units |-> NoHeals]
  /\ planCheck \in [made : BOOLEAN, cached : {"none"}]
  /\ reports = FALSE
  /\ practices = [runs |-> 0, branch |-> FALSE]
  /\ drive = OffDuty

\* The drive is one loop: while it has a step, it takes it.
DriveFairness == WF_driveVars(DriveStep)
DriveSpec == DriveInit /\ [][DriveNext]_driveVars /\ DriveFairness

(******************************* Properties ********************************)

\* A drive comes to its end by itself (team/drive.py:364-366 sets a unit aside
\* because "retrying the same call would loop"): whatever fails, is refused or
\* is healed, and without its ceilings, it finishes or stops for the owner.
DriveEnds == []<>At("off")

\* Each kind of healing is done no more often than its cap "that persists across
\* drives of the same run" (team/drive.py:30), however many drives are started,
\* killed between counting and healing, or helped by the owner.
HealsWithinCaps ==
  \A u \in Unit : \A k \in HealKinds : healed[u][k] <= HEAL_CAPS[k]

==============================================================================
