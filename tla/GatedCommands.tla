--------------------------- MODULE GatedCommands -----------------------------
(***************************************************************************)
(* Commands that change a run, planned first and executed after somebody   *)
(* approved the plan: cli/main.py (run_gated, review-plan), cli/reviews.py *)
(* and the commands resume, dispatch, team-review, drive and cleanup (of a *)
(* unit with nothing to archive) of cli/commands.py, and of team/drive.py  *)
(* what a drive does to one unit.                                          *)
(*                                                                         *)
(* A call builds a plan from the run as it is, has it approved, by a review*)
(* record or at the terminal, takes the run's lease, builds the plan again,*)
(* uses up the record and executes.  Each of these is a step; other calls, *)
(* the clock and a crash come in between.  A plan is what the command reads*)
(* of the run, so two plans are equal exactly when their hashes are.       *)
(*                                                                         *)
(* Cleanup takes no lease.  A drive reads the unit, acts on it, and reads  *)
(* it again, until it stops.                                               *)
(*                                                                         *)
(* Of a unit the state, the attempts and the granted ones are kept.        *)
(* "running" stands for the states in which an attempt is under way,       *)
(* "stopped" for needs_user and failed, "closed" for merged and cancelled. *)
(***************************************************************************)
EXTENDS Integers, FiniteSets

CONSTANTS
  Calls,          \* invocations of the command line
  ConductorIds,   \* what conductor_id may be configured to
  NoConductor,
  Records,        \* ids of review records
  NoRecord,
  Extras,         \* what --extra-attempts may be
  AttemptsPerUnit,\* the unit's own budget
  MaxGranted      \* bound: attempts granted in all

ASSUME GatedAssumption ==
  /\ IsFiniteSet(Calls)
  /\ NoConductor \notin ConductorIds
  /\ NoRecord \notin Records
  /\ 0 \notin Extras /\ Extras \subseteq Nat
  /\ {AttemptsPerUnit, MaxGranted} \subseteq Nat

VARIABLES
  unit,       \* state, attempts and budget_grant; a stalled review stopped it
  leaseHolder,\* the conductor id with an unexpired lease
  reviewed,   \* reviews/<id>.json and reviews/consumed/<id>.json
  calls,      \* calls[c]: how far the call is
  given,      \* history: extra attempts of the grants that were executed
  writes,     \* history: writes[r]: how often r was approved
  uses,       \* history: uses[r]: how often r led to an execution
  unguarded   \* history: the lease did not keep two calls apart

gatedVars == <<unit, leaseHolder, reviewed, calls, given, writes, uses, unguarded>>

Command ==
  [op : {"dispatch", "team-review", "resume", "drive", "cleanup"}, extra : {0}]
    \cup [op : {"resume"}, extra : Extras]

UnitNow ==
  [state : {"ready", "running", "reviewing", "stopped", "closed"},
   attempts : 0..AttemptsPerUnit + MaxGranted,
   granted : 0..MaxGranted, stalled : BOOLEAN]

\* The document of a plan; `target` and `grant` are resume's.  A drive keeps in
\* it what it last read of the unit, and how it is going to heal it.
PlanDoc ==
  [cmd : Command, unit : UnitNow, target : {"none", "ready", "reviewing"},
   grant : 0..MaxGranted]

Leased == {"leased", "stable", "unused", "admitted", "granted", "running", "driving", "looked"}

\* A call that has begun and is not over.
Working ==
  [at : {"planned", "approved", "writing"} \cup Leased,
   id : ConductorIds, plan : PlanDoc, record : Records \cup {NoRecord}]

CallRecord == {[at |-> "new"], [at |-> "over"]} \cup Working

NoReview == [open |-> FALSE, consumed |-> FALSE]

ReviewFile ==
  [open : {FALSE}, consumed : BOOLEAN] \cup [open : {TRUE}, consumed : BOOLEAN, plan : PlanDoc]

GatedTypeOK ==
  /\ unit \in UnitNow
  /\ leaseHolder \in ConductorIds \cup {NoConductor}
  /\ reviewed \in [Records -> ReviewFile]
  /\ calls \in [Calls -> CallRecord]
  /\ given \in Nat
  /\ writes \in [Records -> Nat] /\ uses \in [Records -> Nat]
  /\ unguarded \in BOOLEAN

(******************************* The plans *********************************)

AttemptsLeft(u) == u.attempts < AttemptsPerUnit + u.granted

\* plan_resume: it is a grant alone, a stalled review taken up again, or a new
\* attempt.
ResumePlans(cmd) ==
  LET doc(target, grant) ==
        [cmd |-> cmd, unit |-> unit, target |-> target, grant |-> grant]
      grant == IF cmd.extra > 0 THEN unit.granted + cmd.extra ELSE 0
  IN  IF unit.state = "stopped"
      THEN IF unit.stalled THEN {doc("reviewing", 0)}
           ELSE IF AttemptsLeft([unit EXCEPT !.granted = @ + cmd.extra])
           THEN {doc("ready", grant)} ELSE {}
      ELSE IF cmd.extra > 0 /\ unit.state # "closed" THEN {doc("none", grant)} ELSE {}

\* plan_drive shows the units' states alone.
UnitStates == [state |-> unit.state, attempts |-> 0, granted |-> 0, stalled |-> FALSE]

\* plan_team_review
UnderReview == unit.state = "reviewing"

\* plan_cleanup refuses a unit that is at work.
Inactive == {"ready", "stopped", "closed"}

\* The plan of a command in the run as it is: none when the command is refused.
Plans(cmd) ==
  LET doc == [cmd |-> cmd, unit |-> unit, target |-> "none", grant |-> 0] IN
  CASE cmd.op = "resume" -> {p \in ResumePlans(cmd) : p.grant <= MaxGranted}
    [] cmd.op = "dispatch" -> {d \in {doc} : unit.state = "ready" /\ AttemptsLeft(unit)}
    [] cmd.op = "team-review" -> {d \in {doc} : UnderReview}
    [] cmd.op = "drive" -> {[doc EXCEPT !.unit = UnitStates]}
    [] cmd.op = "cleanup" -> {d \in {doc} : unit.state \in Inactive}

TakesLease(c) == calls[c].plan.cmd.op # "cleanup"
Drives(c) == calls[c].plan.cmd.op = "drive"

\* A record that was written for the unit as it is.
OpenRecords(cmd) == {[open |-> TRUE, consumed |-> FALSE, plan |-> p] : p \in Plans(cmd)}

\* Some records may have been approved before.
GatedInit ==
  /\ unit = [state |-> "ready", attempts |-> 0, granted |-> 0, stalled |-> FALSE]
  /\ leaseHolder = NoConductor
  /\ reviewed \in [Records -> {NoReview} \cup UNION {OpenRecords(cmd) : cmd \in Command}]
  /\ writes = [r \in Records |-> IF reviewed[r].open THEN 1 ELSE 0]
  /\ calls = [c \in Calls |-> [at |-> "new"]]
  /\ given = 0
  /\ uses = [r \in Records |-> 0]
  /\ unguarded = FALSE

(**************************** From plan to lease ***************************)

At(c, stage) == calls[c].at = stage

Stage(c, stage) == calls' = [calls EXCEPT ![c].at = stage]

Over(c) == calls' = [calls EXCEPT ![c] = [at |-> "over"]]

outcomeVars == <<given, writes, uses>>

\* Calls that have not begun are alike, and before the first so are the ids.
FirstOfItsKind(c, id) ==
  /\ c = CHOOSE d \in Calls : At(d, "new")
  /\ (\A d \in Calls : At(d, "new")) => id = CHOOSE i \in ConductorIds : TRUE

\* build_plan
BuildPlan(c, cmd, id) ==
  /\ At(c, "new") /\ FirstOfItsKind(c, id)
  /\ \E p \in Plans(cmd) :
       calls' = [calls EXCEPT ![c] =
         [at |-> "planned", id |-> id, plan |-> p, record |-> NoRecord]]
  /\ UNCHANGED <<unit, leaseHolder, reviewed, outcomeVars, unguarded>>

\* review-plan --approve: the id is new when it is asked, and the record is
\* written in another step.
NewRecord(c, r) ==
  /\ At(c, "planned")
  /\ ~reviewed[r].open /\ ~reviewed[r].consumed
  /\ calls' = [calls EXCEPT ![c].at = "writing", ![c].record = r]
  /\ UNCHANGED <<unit, leaseHolder, reviewed, outcomeVars, unguarded>>

WriteRecord(c) ==
  LET r == calls[c].record IN
  /\ At(c, "writing")
  /\ reviewed' = [reviewed EXCEPT ![r] =
       [open |-> TRUE, consumed |-> reviewed[r].consumed, plan |-> calls[c].plan]]
  /\ writes' = [writes EXCEPT ![r] = @ + 1]
  /\ Over(c)
  /\ UNCHANGED <<unit, leaseHolder, given, uses, unguarded>>

\* --yes --review-id: the record is there, for this plan.
ApproveByRecord(c, r) ==
  /\ At(c, "planned")
  /\ reviewed[r].open /\ reviewed[r].plan = calls[c].plan
  /\ calls' = [calls EXCEPT ![c].at = "approved", ![c].record = r]
  /\ UNCHANGED <<unit, leaseHolder, reviewed, outcomeVars, unguarded>>

\* The operator confirms at a terminal.
Confirm(c) ==
  /\ At(c, "planned")
  /\ Stage(c, "approved")
  /\ UNCHANGED <<unit, leaseHolder, reviewed, outcomeVars, unguarded>>

\* Somebody else of the same id is between its lease and its end.
Shares(c) ==
  \E d \in Calls \ {c} : calls[d].at \in Leased /\ calls[d].id = calls[c].id /\ TakesLease(d)

\* Mutant of TakeLease: the plan is not built again under the lease.
TakeLeaseTrusting(c) ==
  /\ At(c, "approved") /\ TakesLease(c)
  /\ leaseHolder \in {calls[c].id, NoConductor}
  /\ leaseHolder' = calls[c].id
  /\ Stage(c, IF calls[c].record = NoRecord THEN "admitted" ELSE "stable")
  /\ unguarded' = (unguarded \/ Shares(c))
  /\ UNCHANGED <<unit, reviewed, outcomeVars>>

\* acquire_lease: it is free, has run out, or is this id's already.
TakeLease(c) ==
  /\ At(c, "approved") /\ TakesLease(c)
  /\ leaseHolder \in {calls[c].id, NoConductor}
  /\ leaseHolder' = calls[c].id
  /\ Stage(c, "leased")
  /\ unguarded' = (unguarded \/ Shares(c))
  /\ UNCHANGED <<unit, reviewed, outcomeVars>>

\* The second plan has the hash of the first.
Rebuild(c) ==
  /\ At(c, "leased") \/ (At(c, "approved") /\ ~TakesLease(c))
  /\ calls[c].plan \in Plans(calls[c].plan.cmd)
  /\ Stage(c, IF calls[c].record = NoRecord THEN "admitted" ELSE "stable")
  /\ UNCHANGED <<unit, leaseHolder, reviewed, outcomeVars, unguarded>>

\* ReviewStore.consume: no consumed record of the name yet,
LookForConsumed(c) ==
  /\ At(c, "stable")
  /\ ~reviewed[calls[c].record].consumed
  /\ Stage(c, "unused")
  /\ UNCHANGED <<unit, leaseHolder, reviewed, outcomeVars, unguarded>>

\* Mutant of Consume: the record may have been moved by another call.
ConsumeAnyway(c) ==
  /\ At(c, "unused")
  /\ reviewed' = [reviewed EXCEPT ![calls[c].record] = [open |-> FALSE, consumed |-> TRUE]]
  /\ Stage(c, "admitted")
  /\ UNCHANGED <<unit, leaseHolder, outcomeVars, unguarded>>

\* and the rename finds the record there.
Consume(c) ==
  /\ At(c, "unused")
  /\ reviewed[calls[c].record].open
  /\ reviewed' = [reviewed EXCEPT ![calls[c].record] = [open |-> FALSE, consumed |-> TRUE]]
  /\ Stage(c, "admitted")
  /\ UNCHANGED <<unit, leaseHolder, outcomeVars, unguarded>>

(******************************* Execution *********************************)

\* require_lease, in every operation of the run manager.
HoldsLease(c) == leaseHolder = calls[c].id

Used(c) ==
  uses' = [r \in Records |-> IF r = calls[c].record THEN uses[r] + 1 ELSE uses[r]]

\* A command is over when it has moved the unit; a drive looks again.
Continue(c) == IF Drives(c) THEN Stage(c, "driving") ELSE Over(c)

Healing(c) == At(c, "looked") /\ calls[c].plan.unit.state = "stopped"

\* execute_resume, and a drive that heals a unit, write the grant they planned,
Grant(c) ==
  /\ \/ At(c, "admitted") /\ Used(c) /\ given' = given + calls[c].plan.cmd.extra
     \/ Healing(c) /\ UNCHANGED uses /\ given' = given + 1
  /\ calls[c].plan.grant > 0
  /\ HoldsLease(c)
  /\ unit' = [unit EXCEPT !.granted = calls[c].plan.grant]
  /\ IF calls[c].plan.target = "none" THEN Over(c) ELSE Stage(c, "granted")
  /\ UNCHANGED <<leaseHolder, reviewed, writes, unguarded>>

\* and then move the unit, if it has not moved meanwhile.
Restart(c) ==
  /\ \/ At(c, "granted") /\ UNCHANGED uses
     \/ At(c, "admitted") /\ calls[c].plan.grant = 0 /\ Used(c)
     \/ Healing(c) /\ calls[c].plan.grant = 0 /\ UNCHANGED uses
  /\ calls[c].plan.target # "none"
  /\ HoldsLease(c)
  /\ unit.state = "stopped"
  /\ unit' = [unit EXCEPT !.state = calls[c].plan.target, !.stalled = FALSE]
  /\ Continue(c)
  /\ UNCHANGED <<leaseHolder, reviewed, given, writes, unguarded>>

\* A drive goes on where the run manager refuses to heal the unit.
HealRefused(c) ==
  /\ Healing(c) \/ (At(c, "granted") /\ Drives(c))
  /\ \/ ~HoldsLease(c)
     \/ unit.state # "stopped" /\ (At(c, "granted") \/ calls[c].plan.grant = 0)
  /\ Stage(c, "driving")
  /\ UNCHANGED <<unit, leaseHolder, reviewed, outcomeVars, unguarded>>

\* The command itself begins, or a drive found the unit in this state.
ActsOn(c, op, state) ==
  \/ At(c, "admitted") /\ calls[c].plan.cmd.op = op /\ Used(c)
  \/ At(c, "looked") /\ calls[c].plan.unit.state = state /\ UNCHANGED uses

\* execute_dispatch: the conductor assigns the unit and starts its runner.
Dispatch(c) ==
  /\ ActsOn(c, "dispatch", "ready")
  /\ HoldsLease(c)
  /\ unit.state = "ready" /\ AttemptsLeft(unit)
  /\ unit' = [unit EXCEPT !.state = "running", !.attempts = @ + 1]
  /\ Stage(c, "running")
  /\ UNCHANGED <<leaseHolder, reviewed, given, writes, unguarded>>

\* wait_unit: the attempt passes, is to be repeated, or stops the unit.
EndAttempt(c, state) ==
  /\ At(c, "running")
  /\ HoldsLease(c)
  /\ unit.state = "running"
  /\ unit' = [unit EXCEPT !.state = state]
  /\ Continue(c)
  /\ UNCHANGED <<leaseHolder, reviewed, outcomeVars, unguarded>>

\* execute_team_review: merged, sent back, or stopped, by a stall or not.
TeamReview(c, state, stalled) ==
  /\ ActsOn(c, "team-review", "reviewing")
  /\ HoldsLease(c)
  /\ unit.state = "reviewing"
  /\ unit' = [unit EXCEPT !.state = state, !.stalled = stalled]
  /\ Continue(c)
  /\ UNCHANGED <<leaseHolder, reviewed, given, writes, unguarded>>

\* execute_cleanup: the worktree goes; the run does not change.
Cleanup(c) ==
  /\ At(c, "admitted") /\ ~TakesLease(c)
  /\ Used(c)
  /\ Over(c)
  /\ UNCHANGED <<unit, leaseHolder, reviewed, given, writes, unguarded>>

\* execute_drive
BeginDrive(c) ==
  /\ At(c, "admitted") /\ Drives(c)
  /\ Used(c)
  /\ Stage(c, "driving")
  /\ UNCHANGED <<unit, leaseHolder, reviewed, given, writes, unguarded>>

\* What a drive may do about a stopped unit: resume its review, grant it an
\* attempt, or try it again after a stop that was not its own.
Remedies ==
  IF unit.state # "stopped" THEN {<<"none", 0>>}
  ELSE IF unit.stalled THEN {<<"reviewing", 0>>}
  ELSE {<<"ready", 0>>} \cup {<<"ready", g>> : g \in {unit.granted + 1} \cap 1..MaxGranted}

LeaseKept(c) == IF leaseHolder = NoConductor THEN calls[c].id ELSE leaseHolder

\* The loop reads the run and, in the next line, takes its lease back if it
\* may; the two are one step here.
LookAround(c) ==
  /\ At(c, "driving")
  /\ \E remedy \in Remedies :
       calls' = [calls EXCEPT ![c].at = "looked", ![c].plan.unit = unit,
                              ![c].plan.target = remedy[1], ![c].plan.grant = remedy[2]]
  /\ leaseHolder' = LeaseKept(c)
  /\ UNCHANGED <<unit, reviewed, outcomeVars, unguarded>>

\* _keep_lease, while a runner of this unit or, in a drive, of another one is at
\* work: a lease that ran out is taken back, although what a drive read of the
\* unit may be out of date by then.
KeepLease(c) ==
  /\ At(c, "running") \/ At(c, "looked")
  /\ leaseHolder = NoConductor
  /\ leaseHolder' = LeaseKept(c)
  /\ unguarded' = (unguarded \/ At(c, "looked"))
  /\ UNCHANGED <<unit, reviewed, calls, outcomeVars>>

\* The call is refused, declined or interrupted where it is, or its process
\* dies.  What it did stays.
GiveUp(c) ==
  /\ calls[c].at \notin {"new", "over"}
  /\ Over(c)
  /\ UNCHANGED <<unit, leaseHolder, reviewed, outcomeVars, unguarded>>

\* A lease is not given back; it runs out.
LeaseRunsOut ==
  /\ leaseHolder # NoConductor
  /\ leaseHolder' = NoConductor
  /\ UNCHANGED <<unit, reviewed, calls, outcomeVars, unguarded>>

\* A unit whose dispatch died is stopped by ecc's resume of the run.
Recovered ==
  /\ unit.state = "running"
  /\ \A c \in Calls : ~At(c, "running")
  /\ unit' = [unit EXCEPT !.state = "stopped"]
  /\ UNCHANGED <<leaseHolder, reviewed, calls, outcomeVars, unguarded>>

Execute(c) ==
  \/ Grant(c) \/ Restart(c) \/ Dispatch(c)
  \/ \E s \in {"reviewing", "ready", "stopped"} : EndAttempt(c, s)
  \/ TeamReview(c, "closed", FALSE) \/ TeamReview(c, "ready", FALSE)
  \/ \E b \in BOOLEAN : TeamReview(c, "stopped", b)
  \/ Cleanup(c) \/ BeginDrive(c) \/ LookAround(c) \/ HealRefused(c) \/ KeepLease(c)

GatedNext ==
  \/ \E c \in Calls :
       \/ \E cmd \in Command, id \in ConductorIds : BuildPlan(c, cmd, id)
       \/ \E r \in Records : NewRecord(c, r) \/ ApproveByRecord(c, r)
       \/ WriteRecord(c) \/ Confirm(c)
       \/ TakeLease(c) \/ Rebuild(c) \/ LookForConsumed(c) \/ Consume(c)
       \/ Execute(c) \/ GiveUp(c)
  \/ LeaseRunsOut \/ Recovered

GatedSpec == GatedInit /\ [][GatedNext]_gatedVars

(******************************* Properties ********************************)

\* Every grant counts, the owner's and the drive's: the attempts on the unit are
\* the sum of the grants that were executed, although each writes a total that
\* was added up earlier (docs/cli.md: "the owner grants more attempts: they are
\* recorded on the unit as budget_grant").  It holds as long as no two calls
\* share a conductor id and no drive heals with what it read before its lease
\* ran out: then the lease does not keep the two apart.
GrantsAddUp == ~unguarded => unit.granted = given

\* A review record is good for one execution, each time it is approved,
\* however many calls, leases and conductor ids compete for it and wherever
\* they die (cli/reviews.py: it "can never authorize a second run").
RecordsUsedOnce == \A r \in Records : uses[r] <= writes[r]

==============================================================================
