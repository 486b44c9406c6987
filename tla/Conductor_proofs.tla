--------------------------- MODULE Conductor_proofs ---------------------------
(***************************************************************************)
(* Theorems about Conductor: its sessions make only RunManager's calls,    *)
(* and what they record, verify and send to review is about the attempt it *)
(* belongs to.                                                             *)
(***************************************************************************)
EXTENDS Conductor, RunManager_proofs

USE SizeAssumption, PlanAssumption, ActorAssumption, TierAssumption, BoundAssumption,
    SessionAssumption

(*************** A session's steps are the run manager's ********************)

\* A job is on a unit that was given out at least once, and hands over a
\* runner's pid only once it has one.
JobsWarranted ==
  /\ \A s \in Sessions : ~At(s, "idle") => units[job[s].unit].attempts > 0
  /\ \A s \in Sessions : At(s, "record") => job[s].pid # NoPid
  /\ \A u \in Unit : units[u].state = "assigned" => units[u].attempts > 0

CallsInv == TypeOK /\ ConductorTypeOK /\ JobsWarranted

SessionStep(s) ==
  \/ StartStep(s) \/ WaitStep(s) \/ CompleteStep(s) \/ IdleStep(s) \/ Crash(s)
  \/ Raises(s)

\* A transition that no one is about to ask without looking at the unit.
LEMMA TryIsCall ==
  ASSUME CallsInv, NEW s \in Sessions, NEW u \in Unit, NEW state \in State,
         TryTransition(Id[s], u, state),
         state \in {"ready", "blocked"} => units[u].state # "pending"
  PROVE  [Next]_vars
<1>1. Id[s] \in Conductors
  OBVIOUS
<1>2. CASE ~CanTransition(Id[s], u, state)
  BY <1>2 DEF TryTransition, RunUnchanged, vars
<1>3. CASE CanTransition(Id[s], u, state)
  BY <1>1, <1>3 DEF TryTransition, Next, UnitStep, Requested, Reason
<1> QED
  BY <1>2, <1>3

\* So do the transitions that are sure to be asked for.
LEMMA TransitionIsCall ==
  ASSUME NEW s \in Sessions, NEW u \in Unit, NEW state \in State, NEW why \in Reason,
         Requested(u, state, why), Transition(Id[s], u, state, why)
  PROVE  Next
BY DEF Next, UnitStep

\* What an attempt leaves on file is left for a unit that was given out.
LEMMA RecordIsCall ==
  ASSUME NEW s \in Sessions, NEW u \in Unit, units[u].attempts > 0,
         \/ RecordStep(Id[s], u)
         \/ \E pid \in Pids : RecordProcess(Id[s], u, pid)
         \/ RecordProcessExit(Id[s], u)
         \/ \E valid \in BOOLEAN : RecordHandoff(Id[s], u, valid)
         \/ RecordWorkspace(Id[s], u)
         \/ AnnotateVerification(Id[s], u)
         \/ \E x \in Charges : RecordUsage(Id[s], u, x)
  PROVE  Next
BY DEF Next, UnitStep, RecordStep

LEMMA LeaseIsCall ==
  ASSUME NEW s \in Sessions, KeepLease(Id[s]) \/ AcquireLease(Id[s])
  PROVE  Next
BY DEF Next, LeaseStep, KeepLease

\* The jobs that start a unit make calls of the run manager.
LEMMA StartCalls ==
  ASSUME CallsInv, NEW s \in Sessions, StartStep(s)
  PROVE  [Next]_vars
<1> USE DEF CallsInv
<1>0. job[s] \in Job /\ job[s].unit \in Unit
  BY DEF ConductorTypeOK, Job
<1>1. CASE RoutingConfirmed(s) \/ LoadAssigned(s) \/ CreateWorktree(s) \/ Spawn(s)
  BY <1>1 DEF RoutingConfirmed, LoadAssigned, CreateWorktree, Spawn, RunUnchanged, vars
<1>2. CASE RoutingChanged(s)
  BY <1>0, <1>2, TryIsCall DEF RoutingChanged, State
<1>3. CASE SpawnFails(s)
  BY <1>0, <1>3, TryIsCall DEF SpawnFails, State
<1>4. CASE KeepWorkspace(s)
  BY <1>0, <1>4, RecordIsCall DEF KeepWorkspace, RunUnchanged, vars, JobsWarranted, At
<1>5. CASE Launch(s)
  BY <1>0, <1>5, TransitionIsCall DEF Launch, RunUnchanged, vars, State, Reason, Requested
<1>6. CASE RecordPid(s)
  <2>1. job[s].pid \in Pids /\ units[job[s].unit].attempts > 0
    BY <1>0, <1>6 DEF RecordPid, JobsWarranted, At, Job
  <2> QED
    BY <1>0, <1>6, <2>1, RecordIsCall DEF RecordPid, RunUnchanged, vars
<1> QED
  BY <1>1, <1>2, <1>3, <1>4, <1>5, <1>6 DEF StartStep

\* So do those that wait for its runner.
LEMMA WaitCalls ==
  ASSUME CallsInv, NEW s \in Sessions, WaitStep(s)
  PROVE  [Next]_vars
<1> USE DEF CallsInv
<1>0. job[s].unit \in Unit
  BY DEF ConductorTypeOK, Job
<1>1. CASE Heartbeat(s) \/ Reap(s)
  BY <1>1, LeaseIsCall DEF Heartbeat, Reap
<1>2. CASE LoseLease(s)
  BY <1>0, <1>2 DEF LoseLease, RunUnchanged, vars, Next, UnitStep
<1>3. ASSUME NEW target, Cancel(s, target)
      PROVE  [Next]_vars
  BY <1>3 DEF Cancel, RunUnchanged, vars
<1> QED
  BY <1>1, <1>2, <1>3 DEF WaitStep

\* So do those that complete it.
LEMMA CompleteCalls ==
  ASSUME CallsInv, NEW s \in Sessions, CompleteStep(s)
  PROVE  [Next]_vars
<1> USE DEF CallsInv
<1>0. job[s] \in Job /\ job[s].unit \in Unit
  BY DEF ConductorTypeOK, Job
<1>a. ~At(s, "idle") => units[job[s].unit].attempts > 0
  BY DEF JobsWarranted
<1>1. CASE Check(s) \/ GitStateUnchanged(s) \/ RunnerSucceeded(s) \/ NoWorkspace(s)
  BY <1>1 DEF Check, GitStateUnchanged, RunnerSucceeded, NoWorkspace, RunUnchanged, vars
<1>2. CASE RecordExit(s) \/ CancelledUsage(s) \/ Usage(s) \/ GatesRan(s)
  BY <1>0, <1>a, <1>2, RecordIsCall
     DEF RecordExit, CancelledUsage, Usage, GatesRan, RunUnchanged, vars, At
<1>3. ASSUME NEW valid \in BOOLEAN, AcceptHandoff(s, valid)
      PROVE  [Next]_vars
  BY <1>0, <1>a, <1>3, RecordIsCall DEF AcceptHandoff, RunUnchanged, vars, At
<1>4. CASE GitStateChanged(s) \/ RunnerFailed(s) \/ Verify(s)
  BY <1>0, <1>4, TransitionIsCall
     DEF GitStateChanged, RunnerFailed, Verify, RunUnchanged, vars, State, Reason, Requested
<1>5. CASE Cancelled(s)
  <2>1. job[s].cancel \in {"failed", "cancelled"}
    BY <1>0, <1>5 DEF Cancelled, Job
  <2> QED
    BY <1>0, <1>5, <2>1, TransitionIsCall
       DEF Cancelled, RunUnchanged, vars, State, Reason, Requested
<1>6. CASE RunnerStopped(s) \/ HandoffMissing(s) \/ WorkUncommitted(s) \/ Reject(s)
           \/ Judge(s)
  <2>1. PICK state \in {"needs_user", "failed", "reviewing"} :
          TryTransition(Id[s], job[s].unit, state)
    BY <1>6 DEF RunnerStopped, HandoffMissing, WorkUncommitted, Reject, Judge
  <2> QED
    BY <1>0, <2>1, TryIsCall DEF State
<1>7. CASE Outcome(s)
  <2>1. CASE RunUnchanged
    BY <2>1 DEF RunUnchanged, vars
  <2>2. CASE TryTransition(Id[s], job[s].unit, "needs_user")
    BY <1>0, <2>2, TryIsCall DEF State
  <2>3. CASE units[job[s].unit].state = "failed" /\ TryTransition(Id[s], job[s].unit, "ready")
    BY <1>0, <2>3, TryIsCall DEF State
  <2> QED
    BY <1>7, <2>1, <2>2, <2>3 DEF Outcome
<1> QED
  BY <1>1, <1>2, <1>3, <1>4, <1>5, <1>6, <1>7 DEF CompleteStep

\* So does a completion that raises.
LEMMA RaiseCalls ==
  ASSUME CallsInv, NEW s \in Sessions, Raises(s)
  PROVE  [Next]_vars
<1>1. CASE StepRaises(s)
  BY <1>1 DEF StepRaises, RunUnchanged, vars
<1>2. CASE ExitUnconfirmed(s) \/ UsageUnconfirmed(s)
  <2>1. job[s].unit \in Unit
    BY DEF CallsInv, ConductorTypeOK, Job
  <2>2. units[job[s].unit].attempts > 0
    BY <1>2 DEF CallsInv, JobsWarranted, ExitUnconfirmed, UsageUnconfirmed, At
  <2> QED
    BY <1>2, <2>1, <2>2, RecordIsCall DEF ExitUnconfirmed, UsageUnconfirmed
<1> QED
  BY <1>1, <1>2 DEF Raises

\* The liveness check sees what there is to see of a recorded process.
LEMMA ObservedIsLiveness ==
  ASSUME TypeOK, NEW u \in Unit
  PROVE  Observed(u) \subseteq LivenessOf(units[u])
<1>1. units[u].process.pid = NoPid \/ units[u].process.finished =>
        "dead" \in LivenessOf(units[u])
  BY DEF LivenessOf, Liveness
<1>2. units[u].process.pid # NoPid => units[u].process # NoProcess
  BY DEF NoProcess, NoPid
<1> QED
  BY <1>1, <1>2 DEF Observed, LivenessOf, Liveness

\* So do idle sessions.
LEMMA IdleCalls ==
  ASSUME CallsInv, NEW s \in Sessions, IdleStep(s)
  PROVE  [Next]_vars
<1> USE DEF CallsInv
<1>1. CASE TakeLease(s)
  BY <1>1, LeaseIsCall DEF TakeLease
<1>2. ASSUME NEW status \in [Unit -> Liveness], ResumeRun(s, status)
      PROVE  Next
  <2>1. \A u \in Unit : status[u] \in LivenessOf(units[u])
    BY <1>2, ObservedIsLiveness DEF ResumeRun
  <2> QED
    BY <1>2, <2>1 DEF ResumeRun, Next, LeaseStep
<1>3. ASSUME NEW u \in Unit, StartAssigned(s, u) PROVE [Next]_vars
  BY <1>3 DEF StartAssigned, RunUnchanged, vars
<1>4. ASSUME NEW u \in Unit, Retry(s, u) PROVE Next
  BY <1>4, TransitionIsCall DEF Retry, State, Reason, Requested
<1>5. ASSUME NEW u \in Unit, ReopenReview(s, u) PROVE Next
  BY <1>5, TransitionIsCall DEF ReopenReview, State, Reason, Requested
<1>6. ASSUME NEW u \in Unit, ReviewOrMerge(s, u) PROVE Next
  BY <1>6, TransitionIsCall DEF ReviewOrMerge, State, Reason, Requested
<1>7. ASSUME NEW u \in Unit, NEW w \in Workers, NEW t \in Tiers \cup {NoTier},
             Dispatch(s, u, w, t) \/ ReassignStopped(s, u, w, t)
      PROVE  Next
  BY <1>7 DEF Dispatch, ReassignStopped, Next, UnitStep
<1>8. ASSUME NEW u \in Unit, NEW target \in {"failed", "cancelled"},
             CancelWithoutHandle(s, u, target)
      PROVE  Next
  BY <1>8, TransitionIsCall DEF CancelWithoutHandle, State, Reason, Requested
<1> QED
  BY <1>1, <1>2, <1>3, <1>4, <1>5, <1>6, <1>7, <1>8 DEF IdleStep

\* Whatever happens, the run manager's document makes one of its steps or none.
LEMMA StepCalls ==
  ASSUME CallsInv, [ConductorNext]_allVars
  PROVE  [Next]_vars
<1>1. ASSUME NEW s \in Sessions, SessionStep(s) PROVE [Next]_vars
  BY <1>1, StartCalls, WaitCalls, CompleteCalls, IdleCalls, RaiseCalls
     DEF SessionStep, Crash, RunUnchanged, vars
<1>2. ASSUME NEW runner, RunnerExits(runner) PROVE [Next]_vars
  BY <1>2 DEF RunnerExits, RunUnchanged, vars
<1>3. CASE ClockTick
  BY <1>3 DEF ClockTick, Next
<1>4. CASE UNCHANGED allVars
  BY <1>4 DEF allVars, vars
<1> QED
  BY <1>1, <1>2, <1>3, <1>4 DEF ConductorNext, RegularStep, SessionStep

(**************** What an operation keeps of the attempts *******************)

\* What is on file of a unit's attempts: all that an operation on its state or
\* its owner leaves alone.
SameAttempts(r, q) ==
  /\ r.attempts = q.attempts /\ r.cost = q.cost /\ r.verified = q.verified
  /\ r.handoff = q.handoff /\ r.process = q.process

SameState(r, q) == r.state = q.state /\ r.reason = q.reason

\* A moved unit has its new state and reason, and its attempts as they were.
LEMMA MovedKeeps ==
  ASSUME NEW unit \in UnitRecord, NEW state \in State, NEW why \in Reason
  PROVE  /\ SameAttempts(Moved(unit, state, why), unit)
         /\ Moved(unit, state, why).state = state
         /\ Moved(unit, state, why).reason = why
         /\ Moved(unit, state, why).owner = unit.owner
BY DEF Moved, UnitRecord, SameAttempts

\* A transition moves its unit, and at most promotes others.
LEMMA TransitionKeeps ==
  ASSUME TypeOK, NEW c, NEW u \in Unit, NEW state \in State,
         NEW why \in Reason, Transition(c, u, state, why)
  PROVE  /\ \A v \in Unit : SameAttempts(units'[v], units[v])
         /\ units'[u].state = state /\ units'[u].reason = why
         /\ \A v \in Unit \ {u} :
              \/ SameState(units'[v], units[v])
              \/ units[v].state = "pending" /\ units'[v].state = "ready"
         /\ UNCHANGED lease
<1> DEFINE moved == [units EXCEPT ![u] = Moved(@, state, why)]
<1>1. /\ moved \in [Unit -> UnitRecord]
      /\ moved[u] = Moved(units[u], state, why)
      /\ \A v \in Unit \ {u} : moved[v] = units[v]
  BY MovedType DEF TypeOK
<1>2. /\ \A v \in Unit : SameAttempts(moved[v], units[v])
      /\ moved[u].state = state /\ moved[u].reason = why
  BY <1>1, MovedKeeps DEF TypeOK, SameAttempts
<1>3. state # "pending"
  BY DEF Transition, CanMove, Targets, TERMINAL, TypeOK, UnitRecord, State
<1>4. units' = moved \/ \E k \in Cut : units' = Promoted(moved, k)
  BY DEF Transition
<1> HIDE DEF moved
<1>5. CASE units' = moved
  BY <1>1, <1>2, <1>5 DEF SameState, Transition
<1>6. ASSUME NEW k \in Cut, units' = Promoted(moved, k)
      PROVE  /\ \A v \in Unit : SameAttempts(units'[v], moved[v])
             /\ \A v \in Unit :
                  \/ units'[v] = moved[v]
                  \/ moved[v].state = "pending" /\ units'[v].state = "ready"
  BY <1>1, <1>6, MovedKeeps DEF Promoted, Promotable, State, Reason, SameAttempts
<1>7. ASSUME NEW k \in Cut, units' = Promoted(moved, k)
      PROVE  /\ \A v \in Unit : SameAttempts(units'[v], units[v])
             /\ units'[u].state = state /\ units'[u].reason = why
             /\ \A v \in Unit \ {u} :
                  \/ SameState(units'[v], units[v])
                  \/ units[v].state = "pending" /\ units'[v].state = "ready"
  BY <1>1, <1>2, <1>3, <1>6, <1>7 DEF SameState, SameAttempts
<1> QED
  BY <1>4, <1>5, <1>7 DEF Transition

\* An assignment counts an attempt, within budget, or stops the unit.
LEMMA OutcomeKeeps ==
  ASSUME NEW unit \in UnitRecord, NEW w \in Workers, NEW t \in Tiers \cup {NoTier}
  PROVE  LET given == AssignOutcome(unit, w, t)
         IN /\ given.process = unit.process /\ given.cost = unit.cost
            /\ given.verified = unit.verified /\ given.handoff = unit.handoff
            /\ given.reason = "other"
            /\ \/ given.state = "needs_user" /\ given.attempts = unit.attempts
               \/ /\ given.state = "assigned" /\ given.attempts = unit.attempts + 1
                  /\ unit.cost < CostLimit
<1>1. CASE t = NoTier \/ Exhausted(unit, t)
  BY <1>1, MovedKeeps DEF AssignOutcome, State, Reason, SameAttempts
<1>2. CASE ~(t = NoTier \/ Exhausted(unit, t))
  <2>1. Moved(unit, "assigned", "other") \in UnitRecord
    BY MovedType DEF State, Reason
  <2>2. unit.cost < CostLimit
    BY <1>2 DEF Exhausted, UnitRecord
  <2>3. AssignOutcome(unit, w, t) =
          [Moved(unit, "assigned", "other") EXCEPT
             !.attempts = @ + 1, !.byTier[t] = @ + 1, !.owner = w]
    BY <1>2 DEF AssignOutcome
  <2>4. /\ SameAttempts(Moved(unit, "assigned", "other"), unit)
        /\ Moved(unit, "assigned", "other").state = "assigned"
        /\ Moved(unit, "assigned", "other").reason = "other"
    BY MovedKeeps DEF State, Reason
  <2> QED
    BY <2>1, <2>2, <2>3, <2>4 DEF UnitRecord, SameAttempts
<1> QED
  BY <1>1, <1>2

\* What an assignment or a reassignment leaves of a unit: its process too in
\* the one case, no process in the other.
Given(r, q) ==
  /\ r.cost = q.cost /\ r.verified = q.verified /\ r.handoff = q.handoff
  /\ \/ r.state \in {"needs_user", "ready"} /\ r.attempts = q.attempts
     \/ r.state = "assigned" /\ r.attempts = q.attempts + 1 /\ q.cost < CostLimit
  /\ r.reason = "other" \/ SameState(r, q) \/ r.state = "ready"
  /\ r.process \in {q.process, NoProcess}

LEMMA AssignKeeps ==
  ASSUME TypeOK, NEW c, NEW u \in Unit, NEW w \in Workers,
         NEW t \in Tiers \cup {NoTier}, Assign(c, u, w, t)
  PROVE  /\ Given(units'[u], units[u]) /\ units[u].state = "ready"
         /\ \A v \in Unit \ {u} : units'[v] = units[v]
         /\ UNCHANGED lease
BY OutcomeKeeps DEF Assign, TypeOK, Given

LEMMA ReassignKeeps ==
  ASSUME TypeOK, NEW c, NEW u \in Unit, NEW w \in Workers,
         NEW t \in Tiers \cup {NoTier}, Reassign(c, u, w, t)
  PROVE  /\ Given(units'[u], units[u]) /\ units[u].state \in STOPPED
         /\ \A v \in Unit \ {u} : units'[v] = units[v]
         /\ UNCHANGED lease
<1> DEFINE old == units[u]
           ready == IF old.state = "ready" THEN old ELSE Moved(old, "ready", "other")
           parked == [ready EXCEPT !.process = NoProcess]
           given == [parked EXCEPT !.owner = w, !.handoffRef = HandoffId]
           lost == [parked EXCEPT !.handoffRef = Dangling]
<1>1. old \in UnitRecord /\ ready \in UnitRecord
  BY MovedType DEF TypeOK, State, Reason
<1>2. SameAttempts(ready, old) /\ ready.state = "ready"
  BY <1>1, MovedKeeps DEF State, Reason, SameAttempts
<1>3. /\ \/ units' = [units EXCEPT ![u] = AssignOutcome(given, w, t)]
         \/ units' = [units EXCEPT ![u] = given]
         \/ units' = [units EXCEPT ![u] = lost]
      /\ units[u].state \in STOPPED /\ UNCHANGED lease
  BY DEF Reassign
<1>4. HandoffId \in Int
  BY DEF HandoffId, TypeOK
<1> HIDE DEF ready
<1>5. /\ parked \in UnitRecord /\ parked.process = NoProcess /\ parked.state = "ready"
      /\ parked.cost = old.cost /\ parked.verified = old.verified
      /\ parked.handoff = old.handoff /\ parked.attempts = old.attempts
  BY <1>1, <1>2 DEF UnitRecord, NoProcess, NoPid, SameAttempts
<1> HIDE DEF parked
<1>6. /\ given \in UnitRecord /\ SameAttempts(given, parked) /\ given.state = "ready"
      /\ SameAttempts(lost, parked) /\ lost.state = "ready"
  BY <1>4, <1>5 DEF UnitRecord, SameAttempts
<1> HIDE DEF given, lost
<1>7. Given(AssignOutcome(given, w, t), old)
  BY <1>5, <1>6, OutcomeKeeps DEF Given, SameAttempts
<1>8. Given(given, old) /\ Given(lost, old)
  BY <1>5, <1>6 DEF Given, SameAttempts
<1> QED
  BY <1>3, <1>7, <1>8 DEF TypeOK

\* Surrendering moves the unit alone, to its owner.
LEMMA SurrenderKeeps ==
  ASSUME TypeOK, NEW c, NEW u \in Unit, Surrender(c, u)
  PROVE  /\ SameAttempts(units'[u], units[u])
         /\ units'[u].state = "needs_user" /\ units'[u].reason = "other"
         /\ \A v \in Unit \ {u} : units'[v] = units[v]
         /\ UNCHANGED lease
BY MovedKeeps DEF Surrender, TypeOK, State, Reason

\* Resuming stops units that were in flight.
LEMMA ResumeKeeps ==
  ASSUME TypeOK, NEW c, NEW status, Resume(c, status)
  PROVE  /\ \A v \in Unit :
              \/ units'[v] = units[v]
              \/ /\ SameAttempts(units'[v], units[v])
                 /\ units[v].state \in IN_FLIGHT
                 /\ units'[v].state \in {"interrupted", "needs_user"}
                 /\ units'[v].reason = "other"
         /\ lease' = Fresh(c) /\ ~Blocked(c)
<1>1. PICK k \in Cut : units' = AfterResume(status, k)
  BY DEF Resume
<1>2. \A v \in Unit : units[v] \in UnitRecord
  BY DEF TypeOK
<1> QED
  BY <1>1, <1>2, MovedKeeps DEF AfterResume, State, Reason, Resume

\* Recording a process sets that field alone.
LEMMA ProcessSet ==
  ASSUME NEW r \in UnitRecord, NEW x, NEW q, q = [r EXCEPT !.process = x]
  PROVE  /\ q.process = x /\ SameState(q, r) /\ q.attempts = r.attempts
         /\ q.cost = r.cost /\ q.verified = r.verified /\ q.handoff = r.handoff
BY DEF UnitRecord, SameState

\* What an attempt leaves on file is one field of its unit's record.
LEMMA ProcessKeeps ==
  ASSUME TypeOK, NEW c, NEW u \in Unit, NEW pid, RecordProcess(c, u, pid)
  PROVE  /\ units'[u].process = [conductor |-> c, pid |-> pid, finished |-> FALSE]
         /\ SameState(units'[u], units[u]) /\ units'[u].attempts = units[u].attempts
         /\ units'[u].cost = units[u].cost /\ units'[u].verified = units[u].verified
         /\ units'[u].handoff = units[u].handoff
<1> DEFINE begun == [conductor |-> c, pid |-> pid, finished |-> FALSE]
<1>1. units'[u] = [units[u] EXCEPT !.process = begun] /\ units[u] \in UnitRecord
  BY DEF RecordProcess, TypeOK
<1> HIDE DEF begun
<1>2. /\ units'[u].process = begun /\ SameState(units'[u], units[u])
      /\ units'[u].attempts = units[u].attempts /\ units'[u].cost = units[u].cost
      /\ units'[u].verified = units[u].verified /\ units'[u].handoff = units[u].handoff
  BY <1>1, ProcessSet
<1> QED
  BY <1>2 DEF begun

LEMMA ExitKeeps ==
  ASSUME TypeOK, NEW c, NEW u \in Unit, RecordProcessExit(c, u)
  PROVE  /\ units'[u].process = [units[u].process EXCEPT !.finished = TRUE]
         /\ SameState(units'[u], units[u]) /\ units'[u].attempts = units[u].attempts
         /\ units'[u].cost = units[u].cost /\ units'[u].verified = units[u].verified
         /\ units'[u].handoff = units[u].handoff
<1> DEFINE ended == [units[u].process EXCEPT !.finished = TRUE]
<1>1. units'[u] = [units[u] EXCEPT !.process = ended] /\ units[u] \in UnitRecord
  BY DEF RecordProcessExit, TypeOK
<1> HIDE DEF ended
<1>2. /\ units'[u].process = ended /\ SameState(units'[u], units[u])
      /\ units'[u].attempts = units[u].attempts /\ units'[u].cost = units[u].cost
      /\ units'[u].verified = units[u].verified /\ units'[u].handoff = units[u].handoff
  BY <1>1, ProcessSet
<1> QED
  BY <1>2 DEF ended

LEMMA WorkspaceKeeps ==
  ASSUME TypeOK, NEW c, NEW u \in Unit, RecordWorkspace(c, u)
  PROVE  SameState(units'[u], units[u]) /\ SameAttempts(units'[u], units[u])
<1>1. units[u] \in UnitRecord
  BY DEF TypeOK
<1> QED
  BY <1>1 DEF RecordWorkspace, TypeOK, UnitRecord, SameState, SameAttempts

LEMMA VerificationKeeps ==
  ASSUME TypeOK, NEW c, NEW u \in Unit, AnnotateVerification(c, u)
  PROVE  /\ units'[u].verified = units[u].attempts
         /\ SameState(units'[u], units[u]) /\ units'[u].attempts = units[u].attempts
         /\ units'[u].cost = units[u].cost /\ units'[u].process = units[u].process
         /\ units'[u].handoff = units[u].handoff
<1>1. units[u] \in UnitRecord
  BY DEF TypeOK
<1> QED
  BY <1>1 DEF AnnotateVerification, TypeOK, UnitRecord, SameState

\* It leaves the other units and the lease alone.
LEMMA RecordTouches ==
  ASSUME TypeOK, NEW c, NEW u \in Unit,
         \/ \E pid : RecordProcess(c, u, pid)
         \/ RecordProcessExit(c, u)
         \/ \E valid : RecordHandoff(c, u, valid)
         \/ RecordWorkspace(c, u)
         \/ AnnotateVerification(c, u)
         \/ \E x : RecordUsage(c, u, x)
  PROVE  /\ \A v \in Unit \ {u} : units'[v] = units[v]
         /\ UNCHANGED lease /\ HasLease(c)
BY DEF RecordProcess, RecordProcessExit, RecordHandoff, RecordWorkspace,
       AnnotateVerification, RecordUsage, TypeOK

LEMMA HandoffKeeps ==
  ASSUME TypeOK, NEW c, NEW u \in Unit, NEW valid, RecordHandoff(c, u, valid)
  PROVE  /\ units'[u].handoff = [attempt |-> units[u].attempts, valid |-> valid]
         /\ SameState(units'[u], units[u]) /\ units'[u].attempts = units[u].attempts
         /\ units'[u].cost = units[u].cost /\ units'[u].verified = units[u].verified
         /\ units'[u].process = units[u].process
<1>1. units[u] \in UnitRecord
  BY DEF TypeOK
<1> QED
  BY <1>1 DEF RecordHandoff, TypeOK, UnitRecord, SameState

\* A cost is a number, of which one above the limit stands for all those above.
LEMMA ChargedCost ==
  ASSUME NEW unit \in UnitRecord, NEW x \in Charges
  PROVE  /\ unit.cost \in Nat /\ x \in Nat
         /\ Charged(unit, x).cost \in Nat /\ Charged(unit, x).cost >= unit.cost
         /\ Charged(unit, x).cost <= unit.cost + x
<1>1. x \in Nat /\ CostLimit \in Nat
  BY BoundAssumption
<1>2. unit.cost \in 0..(CostLimit + 1)
  BY DEF UnitRecord
<1>3. Charged(unit, x).cost = IF unit.cost + x > CostLimit THEN CostLimit + 1 ELSE unit.cost + x
  BY DEF Charged, UnitRecord
<1> QED
  BY <1>1, <1>2, <1>3

\* A charge adds to the cost, and stops the unit when that is too much.
LEMMA UsageKeeps ==
  ASSUME TypeOK, NEW c, NEW u \in Unit, NEW x \in Charges, RecordUsage(c, u, x)
  PROVE  /\ units'[u].cost = Charged(units[u], x).cost
         /\ units'[u].attempts = units[u].attempts
         /\ units'[u].verified = units[u].verified /\ units'[u].handoff = units[u].handoff
         /\ units'[u].process = units[u].process
         /\ \/ SameState(units'[u], units[u])
            \/ units'[u].state = "needs_user" /\ units'[u].reason = "other"
         /\ ~TornTransactions /\ units'[u].cost > CostLimit
              /\ "needs_user" \in Targets(units[u].state) => units'[u].state = "needs_user"
         /\ units'[u].cost <= CostLimit => SameState(units'[u], units[u])
<1>1. units[u] \in UnitRecord
  BY DEF TypeOK
<1>2. PICK charged \in UnitRecord : charged = Charged(units[u], x)
  BY <1>1, ChargedType
<1>3. /\ SameState(charged, units[u]) /\ charged.attempts = units[u].attempts
      /\ charged.verified = units[u].verified /\ charged.handoff = units[u].handoff
      /\ charged.process = units[u].process
  BY <1>1, <1>2 DEF Charged, UnitRecord, SameState
<1> DEFINE stopped == Moved(charged, "needs_user", "other")
<1>4. SameAttempts(stopped, charged) /\ stopped.state = "needs_user" /\ stopped.reason = "other"
  BY <1>2, MovedKeeps DEF State, Reason
<1>5. \/ units'[u] = charged
      \/ units'[u] = stopped /\ charged.cost > CostLimit
  BY <1>2 DEF RecordUsage, TypeOK
<1>6. ~TornTransactions /\ charged.cost > CostLimit /\ "needs_user" \in Targets(units[u].state) =>
        units'[u] = stopped
  BY <1>2 DEF RecordUsage, TypeOK
<1> HIDE DEF stopped
<1> QED
  BY <1>2, <1>3, <1>4, <1>5, <1>6 DEF SameState, SameAttempts, UnitRecord

(*********************** What a session's step does *************************)

\* The states a session's step may take a unit to, and from where.
MoveAllowed(s, v, state, why) ==
  LET unit == units[v]
      its == v = job[s].unit
  IN \/ state = "ready"
     \/ /\ state \in {"failed", "cancelled", "blocked", "interrupted", "needs_user"}
        /\ why = "other"
     \/ state = "running" /\ unit.state = "assigned" /\ At(s, "launch") /\ its
     \/ /\ state = "verifying" /\ unit.state = "running" /\ At(s, "verify") /\ its
        /\ unit.handoff = [attempt |-> unit.attempts, valid |-> TRUE]
     \/ state = "reviewing" /\ At(s, "judge") /\ its
     \/ /\ state = "reviewing" /\ At(s, "idle")
        /\ unit.state = "needs_user" /\ unit.reason = "review_stall"
     \/ /\ state \in {"queued_for_merge", "merged"} /\ At(s, "idle")
        /\ unit.state \in {"reviewing", "queued_for_merge"}
     \/ state = "needs_user" /\ why = "review_stall" /\ unit.state = "reviewing"

StateEffect(s, v) ==
  LET r == units[v]  q == units'[v]
  IN \/ SameState(q, r)
     \/ MoveAllowed(s, v, q.state, q.reason)
     \/ q.state = "assigned" /\ q.reason = "other"

AttemptsEffect(s, v) ==
  LET r == units[v]  q == units'[v]
  IN \/ /\ q.attempts = r.attempts
        /\ q.state = "assigned" => r.state = "assigned"
     \/ /\ q.attempts = r.attempts + 1 /\ q.state = "assigned" /\ r.cost < CostLimit
        /\ At(s, "idle") /\ r.state \in STOPPED

CostEffect(s, v) ==
  LET r == units[v]  q == units'[v]
  IN \/ q.cost = r.cost
     \/ /\ v = job[s].unit /\ HasLease(Id[s])
        /\ At(s, "usage") \/ At(s, "cancel_usage")
        /\ \E x \in Charges : q.cost = Charged(r, x).cost
        /\ q.attempts = r.attempts
        /\ SameState(q, r) \/ q.state = "needs_user"
        /\ ~TornTransactions /\ q.cost > CostLimit /\ "needs_user" \in Targets(r.state) =>
             q.state = "needs_user"

HandoffEffect(s, v) ==
  LET r == units[v]  q == units'[v]
  IN \/ q.handoff = r.handoff
     \/ /\ v = job[s].unit /\ HasLease(Id[s]) /\ At(s, "accept")
        /\ job'[s].at = "verify" => q.handoff = [attempt |-> r.attempts, valid |-> TRUE]
        /\ SameState(q, r)

VerifiedEffect(s, v) ==
  LET r == units[v]  q == units'[v]
  IN \/ q.verified = r.verified
     \/ /\ v = job[s].unit /\ HasLease(Id[s]) /\ At(s, "gates")
        /\ q.verified = r.attempts /\ SameState(q, r)

ProcessEffect(s, v) ==
  LET r == units[v]  q == units'[v]
  IN \/ q.process = r.process
     \/ q.process = NoProcess /\ At(s, "idle") /\ r.state \in STOPPED
     \/ /\ v = job[s].unit /\ HasLease(Id[s]) /\ SameState(q, r)
        /\ \/ At(s, "record") /\ q.process = [conductor |-> Id[s], pid |-> job[s].pid,
                                              finished |-> FALSE]
           \/ At(s, "exit") /\ q.process = [r.process EXCEPT !.finished = TRUE]

Effect(s) ==
  \A v \in Unit :
    /\ StateEffect(s, v) /\ AttemptsEffect(s, v) /\ CostEffect(s, v)
    /\ HandoffEffect(s, v) /\ VerifiedEffect(s, v) /\ ProcessEffect(s, v)

\* A step that leaves the units alone has no effect on them.
LEMMA NoEffect == ASSUME NEW s, UNCHANGED units PROVE Effect(s)
BY DEF Effect, StateEffect, AttemptsEffect, CostEffect, HandoffEffect, VerifiedEffect,
       ProcessEffect, SameState

\* One that leaves v alone has none on v.
LEMMA NoEffectOn ==
  ASSUME NEW s, NEW v, units'[v] = units[v]
  PROVE  /\ StateEffect(s, v) /\ AttemptsEffect(s, v) /\ CostEffect(s, v)
         /\ HandoffEffect(s, v) /\ VerifiedEffect(s, v) /\ ProcessEffect(s, v)
BY DEF StateEffect, AttemptsEffect, CostEffect, HandoffEffect, VerifiedEffect,
       ProcessEffect, SameState

\* A transition that the session may ask for moves states only.
LEMMA TransitionEffect ==
  ASSUME TypeOK, NEW s \in Sessions, NEW u \in Unit, NEW state \in State,
         NEW why \in Reason, Transition(Id[s], u, state, why),
         MoveAllowed(s, u, state, why)
  PROVE  Effect(s)
<1>1. state # "assigned"
  BY DEF Transition
<1>2. SUFFICES ASSUME NEW v \in Unit
      PROVE  StateEffect(s, v) /\ AttemptsEffect(s, v)
  BY TransitionKeeps DEF Effect, CostEffect, HandoffEffect, VerifiedEffect, ProcessEffect,
                         SameAttempts
<1>3. CASE v = u
  BY <1>1, <1>3, TransitionKeeps DEF StateEffect, AttemptsEffect, SameAttempts
<1>4. CASE v # u
  BY <1>4, TransitionKeeps
     DEF StateEffect, AttemptsEffect, SameAttempts, SameState, MoveAllowed
<1> QED
  BY <1>3, <1>4

LEMMA TryEffect ==
  ASSUME TypeOK, NEW s \in Sessions, NEW u \in Unit, NEW state \in State,
         TryTransition(Id[s], u, state), MoveAllowed(s, u, state, "other")
  PROVE  Effect(s)
BY TransitionEffect, NoEffect DEF TryTransition, RunUnchanged, Reason

\* Assigning and reassigning, which idle sessions do.
LEMMA GivenEffect ==
  ASSUME TypeOK, NEW s \in Sessions, At(s, "idle"), NEW u \in Unit,
         NEW w \in Workers, NEW t \in Tiers \cup {NoTier},
         Assign(Id[s], u, w, t) \/ Reassign(Id[s], u, w, t)
  PROVE  Effect(s)
<1>1. /\ Given(units'[u], units[u]) /\ units[u].state \in STOPPED
      /\ \A v \in Unit \ {u} : units'[v] = units[v]
  BY AssignKeeps, ReassignKeeps DEF STOPPED
<1>2. \A v \in Unit \ {u} :
        /\ StateEffect(s, v) /\ AttemptsEffect(s, v) /\ CostEffect(s, v)
        /\ HandoffEffect(s, v) /\ VerifiedEffect(s, v) /\ ProcessEffect(s, v)
  BY <1>1, NoEffectOn
<1>3. /\ StateEffect(s, u) /\ AttemptsEffect(s, u) /\ CostEffect(s, u)
      /\ HandoffEffect(s, u) /\ VerifiedEffect(s, u) /\ ProcessEffect(s, u)
  BY <1>1 DEF Given, StateEffect, AttemptsEffect, CostEffect, HandoffEffect,
              VerifiedEffect, ProcessEffect, MoveAllowed, SameState
<1> QED
  BY <1>2, <1>3 DEF Effect

\* What an attempt leaves on file.
LEMMA RecordEffect ==
  ASSUME TypeOK, NEW s \in Sessions, NEW u \in Unit, u = job[s].unit,
         \/ At(s, "record") /\ RecordProcess(Id[s], u, job[s].pid)
         \/ At(s, "exit") /\ RecordProcessExit(Id[s], u)
         \/ RecordWorkspace(Id[s], u)
         \/ At(s, "gates") /\ AnnotateVerification(Id[s], u)
         \/ At(s, "accept") /\ \E valid \in BOOLEAN :
              RecordHandoff(Id[s], u, valid) /\ (job'[s].at = "verify" => valid)
         \/ (At(s, "usage") \/ At(s, "cancel_usage")) /\
              \E x \in Charges : RecordUsage(Id[s], u, x)
  PROVE  Effect(s)
<1>1. (\A v \in Unit \ {u} : units'[v] = units[v]) /\ HasLease(Id[s])
  BY RecordTouches
<1>2. \A v \in Unit \ {u} :
        /\ StateEffect(s, v) /\ AttemptsEffect(s, v) /\ CostEffect(s, v)
        /\ HandoffEffect(s, v) /\ VerifiedEffect(s, v) /\ ProcessEffect(s, v)
  BY <1>1, NoEffectOn
<1> SUFFICES /\ StateEffect(s, u) /\ AttemptsEffect(s, u) /\ CostEffect(s, u)
             /\ HandoffEffect(s, u) /\ VerifiedEffect(s, u) /\ ProcessEffect(s, u)
  BY <1>2 DEF Effect
<1> USE DEF StateEffect, AttemptsEffect, CostEffect, HandoffEffect, VerifiedEffect,
            ProcessEffect, SameState, MoveAllowed
<1>3. CASE At(s, "record") /\ RecordProcess(Id[s], u, job[s].pid)
  <2> DEFINE begun == [conductor |-> Id[s], pid |-> job[s].pid, finished |-> FALSE]
  <2>1. /\ units'[u].process = begun
        /\ SameState(units'[u], units[u]) /\ units'[u].attempts = units[u].attempts
        /\ units'[u].cost = units[u].cost /\ units'[u].verified = units[u].verified
        /\ units'[u].handoff = units[u].handoff
    BY <1>3, ProcessKeeps
  <2>2. ProcessEffect(s, u)
    BY <1>1, <1>3, <2>1
  <2> HIDE DEF begun, ProcessEffect
  <2> QED
    BY <2>1, <2>2
<1>4. CASE At(s, "exit") /\ RecordProcessExit(Id[s], u)
  <2> DEFINE ended == [units[u].process EXCEPT !.finished = TRUE]
  <2>1. /\ units'[u].process = ended
        /\ SameState(units'[u], units[u]) /\ units'[u].attempts = units[u].attempts
        /\ units'[u].cost = units[u].cost /\ units'[u].verified = units[u].verified
        /\ units'[u].handoff = units[u].handoff
    BY <1>4, ExitKeeps
  <2>2. ProcessEffect(s, u)
    BY <1>1, <1>4, <2>1
  <2> HIDE DEF ended, ProcessEffect
  <2> QED
    BY <2>1, <2>2
<1>5. CASE RecordWorkspace(Id[s], u)
  BY <1>5, WorkspaceKeeps DEF SameAttempts
<1>6. CASE At(s, "gates") /\ AnnotateVerification(Id[s], u)
  BY <1>1, <1>6, VerificationKeeps
<1>7. ASSUME At(s, "accept"), NEW valid \in BOOLEAN, RecordHandoff(Id[s], u, valid),
             job'[s].at = "verify" => valid
      PROVE  /\ StateEffect(s, u) /\ AttemptsEffect(s, u) /\ CostEffect(s, u)
             /\ HandoffEffect(s, u) /\ VerifiedEffect(s, u) /\ ProcessEffect(s, u)
  <2> DEFINE given == [attempt |-> units[u].attempts, valid |-> valid]
  <2>1. /\ units'[u].handoff = given
        /\ SameState(units'[u], units[u]) /\ units'[u].attempts = units[u].attempts
        /\ units'[u].cost = units[u].cost /\ units'[u].verified = units[u].verified
        /\ units'[u].process = units[u].process
    BY <1>7, HandoffKeeps
  <2>2. valid => given = [attempt |-> units[u].attempts, valid |-> TRUE]
    BY <1>7, Zenon
  <2> HIDE DEF given
  <2>3. HandoffEffect(s, u)
    BY <1>1, <1>7, <2>1, <2>2
  <2> HIDE DEF HandoffEffect
  <2> QED
    BY <2>1, <2>3
<1>8. ASSUME At(s, "usage") \/ At(s, "cancel_usage"), NEW x \in Charges,
             RecordUsage(Id[s], u, x)
      PROVE  /\ StateEffect(s, u) /\ AttemptsEffect(s, u) /\ CostEffect(s, u)
             /\ HandoffEffect(s, u) /\ VerifiedEffect(s, u) /\ ProcessEffect(s, u)
  <2>1. CostEffect(s, u)
    BY <1>1, <1>8, UsageKeeps
  <2>2. /\ StateEffect(s, u) /\ AttemptsEffect(s, u) /\ HandoffEffect(s, u)
        /\ VerifiedEffect(s, u) /\ ProcessEffect(s, u)
    <3> HIDE DEF CostEffect
    <3> QED
      BY <1>8, UsageKeeps
  <2> QED
    BY <2>1, <2>2
<1> QED
  BY <1>3, <1>4, <1>5, <1>6, <1>7, <1>8

\* Resuming and surrendering stop units in flight.
LEMMA StopEffect ==
  ASSUME TypeOK, NEW s \in Sessions,
         \/ \E status : Resume(Id[s], status)
         \/ \E u \in Unit : Surrender(Id[s], u)
  PROVE  Effect(s)
<1>1. SUFFICES ASSUME NEW v \in Unit, units'[v] # units[v]
      PROVE  /\ StateEffect(s, v) /\ AttemptsEffect(s, v) /\ CostEffect(s, v)
             /\ HandoffEffect(s, v) /\ VerifiedEffect(s, v) /\ ProcessEffect(s, v)
  BY NoEffectOn DEF Effect
<1>2. /\ SameAttempts(units'[v], units[v])
      /\ units'[v].state \in {"interrupted", "needs_user"} /\ units'[v].reason = "other"
  BY <1>1, ResumeKeeps, SurrenderKeeps
<1> QED
  BY <1>2 DEF StateEffect, AttemptsEffect, CostEffect, HandoffEffect, VerifiedEffect,
              ProcessEffect, MoveAllowed, SameAttempts

\* Every step of a session has no other effect on the units than these.
LEMMA StartEffect ==
  ASSUME CallsInv, NEW s \in Sessions, StartStep(s)
  PROVE  Effect(s)
<1> USE DEF CallsInv
<1>0. job[s] \in Job /\ job[s].unit \in Unit
  BY DEF ConductorTypeOK, Job
<1>1. CASE RoutingConfirmed(s) \/ LoadAssigned(s) \/ CreateWorktree(s) \/ Spawn(s)
  BY <1>1, NoEffect DEF RoutingConfirmed, LoadAssigned, CreateWorktree, Spawn, RunUnchanged
<1>2. CASE RoutingChanged(s) \/ SpawnFails(s)
  BY <1>0, <1>2, TryEffect DEF RoutingChanged, SpawnFails, MoveAllowed, State
<1>3. CASE KeepWorkspace(s)
  BY <1>0, <1>3, NoEffect, RecordEffect DEF KeepWorkspace, RunUnchanged
<1>4. CASE Launch(s)
  <2>1. CASE UNCHANGED units
    BY <2>1, NoEffect
  <2>2. CASE Transition(Id[s], job[s].unit, "running", "other") /\ At(s, "launch")
    <3>1. units[job[s].unit].state = "assigned"
      BY <1>0, <2>2 DEF Transition, CanMove, Targets, TERMINAL, TypeOK, UnitRecord, State
    <3> QED
      BY <1>0, <2>2, <3>1, TransitionEffect DEF MoveAllowed, State, Reason
  <2> QED
    BY <1>4, <2>1, <2>2 DEF Launch, RunUnchanged
<1>5. CASE RecordPid(s)
  BY <1>0, <1>5, NoEffect, RecordEffect DEF RecordPid, RunUnchanged
<1> QED
  BY <1>1, <1>2, <1>3, <1>4, <1>5 DEF StartStep

LEMMA WaitEffect ==
  ASSUME CallsInv, NEW s \in Sessions, WaitStep(s)
  PROVE  Effect(s)
<1>1. job[s].unit \in Unit /\ TypeOK
  BY DEF CallsInv, ConductorTypeOK, Job
<1>2. UNCHANGED units \/ Surrender(Id[s], job[s].unit)
  BY DEF WaitStep, Heartbeat, Reap, KeepLease, RenewLease, AcquireLease, LoseLease, Cancel,
         RunUnchanged
<1> QED
  BY <1>1, <1>2, NoEffect, StopEffect

LEMMA CompleteEffect ==
  ASSUME CallsInv, NEW s \in Sessions, CompleteStep(s)
  PROVE  Effect(s)
<1> USE DEF CallsInv
<1>0. job[s] \in Job /\ job[s].unit \in Unit
  BY DEF ConductorTypeOK, Job
<1>1. CASE Check(s) \/ GitStateUnchanged(s) \/ RunnerSucceeded(s) \/ NoWorkspace(s)
  BY <1>1, NoEffect DEF Check, GitStateUnchanged, RunnerSucceeded, NoWorkspace, RunUnchanged
<1>2. CASE RecordExit(s)
  BY <1>0, <1>2, NoEffect, RecordEffect DEF RecordExit, RunUnchanged
<1>3. CASE CancelledUsage(s) \/ Usage(s)
  BY <1>0, <1>3, NoEffect, RecordEffect DEF CancelledUsage, Usage, RunUnchanged
<1>4. CASE GatesRan(s)
  BY <1>0, <1>4, NoEffect, RecordEffect DEF GatesRan, RunUnchanged
<1>5. ASSUME NEW valid \in BOOLEAN, AcceptHandoff(s, valid) PROVE Effect(s)
  <2>1. CASE UNCHANGED units
    BY <2>1, NoEffect
  <2>2. CASE RecordHandoff(Id[s], job[s].unit, valid) /\
             Goto(s, IF valid THEN "verify" ELSE "reject")
    <3>1. job'[s].at = "verify" => valid
      BY <1>0, <2>2 DEF Goto, ConductorTypeOK, Job
    <3> QED
      BY <1>0, <1>5, <2>2, <3>1, RecordEffect DEF AcceptHandoff
  <2> QED
    BY <1>5, <2>1, <2>2 DEF AcceptHandoff, RunUnchanged
<1>6. CASE GitStateChanged(s) \/ RunnerFailed(s)
  BY <1>0, <1>6, NoEffect, TransitionEffect
     DEF GitStateChanged, RunnerFailed, RunUnchanged, MoveAllowed, State, Reason
<1>7. CASE Cancelled(s)
  <2>1. job[s].cancel \in {"failed", "cancelled"}
    BY <1>0, <1>7 DEF Cancelled, Job
  <2> QED
    BY <1>0, <1>7, <2>1, NoEffect, TransitionEffect
       DEF Cancelled, RunUnchanged, MoveAllowed, State, Reason
<1>8. CASE Verify(s)
  <2>1. CASE UNCHANGED units
    BY <2>1, NoEffect
  <2>2. CASE Transition(Id[s], job[s].unit, "verifying", "other") /\ At(s, "verify")
    <3>1. /\ units[job[s].unit].state = "running"
          /\ units[job[s].unit].handoff =
               [attempt |-> units[job[s].unit].attempts, valid |-> TRUE]
      BY <1>0, <2>2 DEF Transition, CanMove, Targets, TERMINAL, TypeOK, UnitRecord, State
    <3> QED
      BY <1>0, <2>2, <3>1, TransitionEffect DEF MoveAllowed, State, Reason
  <2> QED
    BY <1>8, <2>1, <2>2 DEF Verify, RunUnchanged
<1>9. CASE RunnerStopped(s) \/ HandoffMissing(s) \/ WorkUncommitted(s) \/ Reject(s)
  BY <1>0, <1>9, TryEffect
     DEF RunnerStopped, HandoffMissing, WorkUncommitted, Reject, MoveAllowed, State
<1>10. CASE Judge(s)
  BY <1>0, <1>10, TryEffect DEF Judge, MoveAllowed, State
<1>11. CASE Outcome(s)
  <2>1. CASE UNCHANGED units
    BY <2>1, NoEffect
  <2>2. ASSUME NEW state \in {"needs_user", "ready"},
               TryTransition(Id[s], job[s].unit, state)
        PROVE  Effect(s)
    BY <1>0, <2>2, TryEffect DEF MoveAllowed, State
  <2> QED
    BY <1>11, <2>1, <2>2 DEF Outcome, RunUnchanged
<1> QED
  BY <1>1, <1>2, <1>3, <1>4, <1>5, <1>6, <1>7, <1>8, <1>9, <1>10, <1>11 DEF CompleteStep

LEMMA IdleEffect ==
  ASSUME CallsInv, NEW s \in Sessions, IdleStep(s)
  PROVE  Effect(s)
<1> USE DEF CallsInv
<1>1. CASE TakeLease(s)
  BY <1>1, NoEffect DEF TakeLease, AcquireLease
<1>2. ASSUME NEW status, ResumeRun(s, status) PROVE Effect(s)
  BY <1>2, StopEffect DEF ResumeRun
<1>3. ASSUME NEW u \in Unit, StartAssigned(s, u) PROVE Effect(s)
  BY <1>3, NoEffect DEF StartAssigned, RunUnchanged
<1>4. ASSUME NEW u \in Unit, Retry(s, u) \/ ReopenReview(s, u) PROVE Effect(s)
  BY <1>4, TransitionEffect DEF Retry, ReopenReview, MoveAllowed, State, Reason
<1>5. ASSUME NEW u \in Unit, ReviewOrMerge(s, u) PROVE Effect(s)
  <2>1. CASE /\ units[u].state = "reviewing"
             /\ Transition(Id[s], u, "needs_user", "review_stall")
    BY <2>1, TransitionEffect DEF MoveAllowed, State, Reason
  <2>2. ASSUME At(s, "idle"), units[u].state \in {"reviewing", "queued_for_merge"},
               NEW state \in {"ready", "failed", "needs_user", "queued_for_merge", "merged",
                              "blocked"},
               Transition(Id[s], u, state, "other")
        PROVE  Effect(s)
    BY <2>2, TransitionEffect DEF MoveAllowed, State, Reason
  <2> QED
    BY <1>5, <2>1, <2>2 DEF ReviewOrMerge
<1>6. ASSUME NEW u \in Unit, NEW w \in Workers, NEW t \in Tiers \cup {NoTier},
             Dispatch(s, u, w, t) \/ ReassignStopped(s, u, w, t)
      PROVE  Effect(s)
  BY <1>6, GivenEffect DEF Dispatch, ReassignStopped
<1>7. ASSUME NEW u \in Unit, NEW target \in {"failed", "cancelled"},
             CancelWithoutHandle(s, u, target)
      PROVE  Effect(s)
  BY <1>7, TransitionEffect DEF CancelWithoutHandle, MoveAllowed, State, Reason
<1> QED
  BY <1>1, <1>2, <1>3, <1>4, <1>5, <1>6, <1>7 DEF IdleStep

LEMMA RaiseEffect ==
  ASSUME CallsInv, NEW s \in Sessions, Raises(s)
  PROVE  Effect(s)
<1>1. CASE StepRaises(s)
  BY <1>1, NoEffect DEF StepRaises, RunUnchanged
<1>2. CASE ExitUnconfirmed(s) \/ UsageUnconfirmed(s)
  <2>1. job[s].unit \in Unit /\ TypeOK
    BY DEF CallsInv, ConductorTypeOK, Job
  <2> QED
    BY <1>2, <2>1, RecordEffect DEF ExitUnconfirmed, UsageUnconfirmed
<1> QED
  BY <1>1, <1>2 DEF Raises

LEMMA SessionEffect ==
  ASSUME CallsInv, NEW s \in Sessions, SessionStep(s)
  PROVE  Effect(s)
BY StartEffect, WaitEffect, CompleteEffect, IdleEffect, RaiseEffect, NoEffect
   DEF SessionStep, Crash, RunUnchanged

(************************ How a job goes on *********************************)

\* Before the runner is started, and after it was waited for.
Early == {"idle", "route", "load", "create", "workspace", "launch", "spawn"}
Waited == {"check", "exit", "guard", "usage", "cancel_usage", "result", "accept",
           "reject", "verify", "gates", "judge", "outcome"}

\* The moves of a job that keep its runner and what is left to do.
Moves ==
  {<<"launch", "spawn">>, <<"record", "wait">>, <<"wait", "wait">>,
   <<"exit", "wait">>, <<"guard", "wait">>, <<"usage", "wait">>, <<"result", "wait">>,
   <<"accept", "wait">>, <<"check", "wait">>, <<"cancel_usage", "wait">>,
   <<"reject", "wait">>, <<"verify", "wait">>, <<"gates", "wait">>, <<"judge", "wait">>,
   <<"outcome", "wait">>, <<"usage", "cancel_usage">>,
   <<"result", "accept">>, <<"result", "outcome">>, <<"accept", "verify">>,
   <<"accept", "reject">>, <<"accept", "outcome">>, <<"reject", "outcome">>,
   <<"verify", "gates">>, <<"gates", "judge">>, <<"gates", "outcome">>,
   <<"judge", "outcome">>}

Proceeds == {<<"exit", "guard">>, <<"guard", "usage">>, <<"usage", "result">>}

JobMoves(s) ==
  LET j == job[s]  k == job'[s]
  IN \/ k = j
     \/ k = NoJob
     \/ /\ j.at = "idle" /\ k.at \in {"route", "load"}
        /\ k.pid = NoPid /\ k.todo = "exit"
        /\ units'[k.unit].state = "assigned"
     \/ /\ k.unit = j.unit /\ j.at # "idle"
        /\ k.pid = j.pid
        /\ \/ j.at \in Early /\ k.at \in Early \ {"idle", "spawn"} /\ k.todo = j.todo
           \/ <<j.at, k.at>> \in Moves /\ k.todo = j.todo
           \/ j.at = "wait" /\ k.at = "check" /\ k.todo = j.todo /\ RunnerOf(s) \notin alive
           \/ j.at = "check" /\ k.at = j.todo /\ k.todo = j.todo /\ StillOurs(s)
           \/ <<j.at, k.at>> \in Proceeds /\ k.todo = k.at

SpawnMoves(s) ==
  LET j == job[s]  k == job'[s]
  IN /\ j.at = "spawn" /\ k.at = "record" /\ k.unit = j.unit /\ k.todo = j.todo
     /\ k.pid = spawned + 1 /\ spawned' = spawned + 1
     /\ alive' = alive \cup {[pid |-> k.pid, unit |-> j.unit]}
     /\ k.pid \in Pids

JobEffect(s) ==
  /\ job' \in [Sessions -> Job]
  /\ \A t \in Sessions \ {s} : job'[t] = job[t]
  /\ worktree' \in [Unit -> BOOLEAN] /\ crashes' \in 0..MaxCrashes
  /\ \/ JobMoves(s) /\ alive' \subseteq alive /\ spawned' = spawned
     \/ SpawnMoves(s) /\ UNCHANGED units

\* The ways a session's step writes its job.
LEMMA JobWrites ==
  ASSUME ConductorTypeOK, NEW s \in Sessions
  PROVE  /\ \A step \in Step :
              Goto(s, step) => /\ job' \in [Sessions -> Job]
                               /\ \A t \in Sessions \ {s} : job'[t] = job[t]
                               /\ job'[s].at = step /\ job'[s].unit = job[s].unit
                               /\ job'[s].pid = job[s].pid /\ job'[s].todo = job[s].todo
         /\ \A stage \in Stage :
              Proceed(s, stage) => /\ job' \in [Sessions -> Job]
                                   /\ \A t \in Sessions \ {s} : job'[t] = job[t]
                                   /\ job'[s].at = stage /\ job'[s].unit = job[s].unit
                                   /\ job'[s].pid = job[s].pid /\ job'[s].todo = stage
         /\ Done(s) => /\ job' \in [Sessions -> Job]
                       /\ \A t \in Sessions \ {s} : job'[t] = job[t]
                       /\ job'[s] = NoJob
         /\ \A u \in Unit, step \in Step :
              Begin(s, u, step) => /\ job' \in [Sessions -> Job]
                                   /\ \A t \in Sessions \ {s} : job'[t] = job[t]
                                   /\ job'[s].at = step /\ job'[s].unit = u
                                   /\ job'[s].pid = NoPid /\ job'[s].todo = "exit"
         /\ UNCHANGED job => /\ job' \in [Sessions -> Job]
                             /\ \A t \in Sessions \ {s} : job'[t] = job[t]
                             /\ job'[s] = job[s]
<1>1. job[s] \in Job /\ job \in [Sessions -> Job]
  BY DEF ConductorTypeOK
<1>2. NoJob \in Job
  BY DEF NoJob, Job, Step, Stage, NoPid, Unit
<1>3. ASSUME NEW step \in Step
      PROVE  Goto(s, step) => /\ job' \in [Sessions -> Job]
                              /\ \A t \in Sessions \ {s} : job'[t] = job[t]
                              /\ job'[s].at = step /\ job'[s].unit = job[s].unit
                              /\ job'[s].pid = job[s].pid /\ job'[s].todo = job[s].todo
  <2> DEFINE k == [job[s] EXCEPT !.at = step]
  <2>1. /\ k \in Job /\ k.at = step /\ k.unit = job[s].unit /\ k.pid = job[s].pid
        /\ k.todo = job[s].todo
    BY <1>1 DEF Job
  <2>2. Goto(s, step) => job' = [job EXCEPT ![s] = k]
    BY <1>1 DEF Goto
  <2> HIDE DEF k
  <2> QED
    BY <1>1, <2>1, <2>2
<1>4. ASSUME NEW stage \in Stage
      PROVE  Proceed(s, stage) => /\ job' \in [Sessions -> Job]
                                  /\ \A t \in Sessions \ {s} : job'[t] = job[t]
                                  /\ job'[s].at = stage /\ job'[s].unit = job[s].unit
                                  /\ job'[s].pid = job[s].pid /\ job'[s].todo = stage
  <2> DEFINE k == [job[s] EXCEPT !.at = stage, !.todo = stage]
  <2>1. k \in Job /\ k.at = stage /\ k.todo = stage /\ k.unit = job[s].unit /\ k.pid = job[s].pid
    BY <1>1 DEF Job, Stage, Step
  <2>2. Proceed(s, stage) => job' = [job EXCEPT ![s] = k]
    BY <1>1 DEF Proceed
  <2> HIDE DEF k
  <2> QED
    BY <1>1, <2>1, <2>2
<1>5. ASSUME NEW u \in Unit, NEW step \in Step
      PROVE  Begin(s, u, step) => /\ job' \in [Sessions -> Job]
                                  /\ \A t \in Sessions \ {s} : job'[t] = job[t]
                                  /\ job'[s].at = step /\ job'[s].unit = u
                                  /\ job'[s].pid = NoPid /\ job'[s].todo = "exit"
  <2> DEFINE k == [NoJob EXCEPT !.at = step, !.unit = u]
  <2>1. k \in Job /\ k.at = step /\ k.unit = u /\ k.pid = NoPid /\ k.todo = "exit"
    BY <1>2 DEF Job, NoJob
  <2>2. Begin(s, u, step) => job' = [job EXCEPT ![s] = k]
    BY DEF Begin
  <2> HIDE DEF k
  <2> QED
    BY <1>1, <2>1, <2>2
<1>6. Done(s) => /\ job' \in [Sessions -> Job]
                 /\ \A t \in Sessions \ {s} : job'[t] = job[t]
                 /\ job'[s] = NoJob
  BY <1>1, <1>2 DEF Done
<1> QED
  BY <1>1, <1>3, <1>4, <1>5, <1>6

\* Starting a unit.
LEMMA StartMoves ==
  ASSUME CallsInv, NEW s \in Sessions, StartStep(s)
  PROVE  JobEffect(s)
<1> USE DEF CallsInv
<1>0. ConductorTypeOK /\ job[s] \in Job /\ job[s].unit \in Unit
  BY DEF ConductorTypeOK, Job
<1>1. CASE Spawn(s)
  <2> DEFINE pid == spawned + 1
  <2>1. pid \in Pids /\ job' = [job EXCEPT ![s].at = "record", ![s].pid = pid]
    BY <1>1 DEF Spawn
  <2> HIDE DEF pid
  <2>2. /\ job' \in [Sessions -> Job]
        /\ \A t \in Sessions \ {s} : job'[t] = job[t]
        /\ job'[s].at = "record" /\ job'[s].unit = job[s].unit
        /\ job'[s].pid = pid /\ job'[s].todo = job[s].todo
    BY <1>0, <2>1 DEF ConductorTypeOK, Job, Step
  <2> QED
    BY <1>0, <1>1, <2>1, <2>2
       DEF Spawn, At, RunUnchanged, JobEffect, SpawnMoves, ConductorTypeOK, pid
<1>2. CASE ~Spawn(s)
  <2>1. alive' \subseteq alive /\ spawned' = spawned
    BY <1>2 DEF StartStep, RoutingConfirmed, RoutingChanged, LoadAssigned, CreateWorktree,
                KeepWorkspace, Launch, SpawnFails, RecordPid, OnlyJob
  <2>2. worktree' \in [Unit -> BOOLEAN] /\ crashes' \in 0..MaxCrashes
    BY <1>0, <1>2
       DEF StartStep, RoutingConfirmed, RoutingChanged, LoadAssigned, CreateWorktree,
           KeepWorkspace, Launch, SpawnFails, RecordPid, OnlyJob, ConductorTypeOK
  <2>3. CASE RoutingConfirmed(s) \/ RoutingChanged(s) \/ LoadAssigned(s) \/ CreateWorktree(s)
    BY <1>0, <2>1, <2>2, <2>3, JobWrites
       DEF RoutingConfirmed, RoutingChanged, LoadAssigned, CreateWorktree, At, Step, Early,
           JobEffect, JobMoves
  <2>4. CASE KeepWorkspace(s) \/ Launch(s) \/ SpawnFails(s) \/ RecordPid(s)
    BY <1>0, <2>1, <2>2, <2>4, JobWrites
       DEF KeepWorkspace, Launch, SpawnFails, RecordPid, At, Step, Early, Moves,
           JobEffect, JobMoves
  <2> QED
    BY <1>2, <2>3, <2>4 DEF StartStep
<1> QED
  BY <1>1, <1>2

\* Waiting for its runner.
LEMMA WaitMoves ==
  ASSUME CallsInv, NEW s \in Sessions, WaitStep(s)
  PROVE  JobEffect(s)
<1> USE DEF CallsInv
<1>0. ConductorTypeOK /\ job[s] \in Job /\ job[s].unit \in Unit
  BY DEF ConductorTypeOK, Job
<1>1. /\ alive' \subseteq alive /\ spawned' = spawned
      /\ worktree' \in [Unit -> BOOLEAN] /\ crashes' \in 0..MaxCrashes
  BY <1>0 DEF WaitStep, Heartbeat, LoseLease, Reap, Cancel, OnlyJob, ConductorTypeOK
<1>2. CASE Heartbeat(s) \/ LoseLease(s) \/ Reap(s)
  BY <1>0, <1>1, <1>2, JobWrites
     DEF Heartbeat, LoseLease, Reap, Again, At, Step, Moves, JobEffect, JobMoves
<1>3. ASSUME NEW target \in {"failed", "cancelled"}, Cancel(s, target)
      PROVE  JobEffect(s)
  <2>1. /\ job' \in [Sessions -> Job]
        /\ \A t \in Sessions \ {s} : job'[t] = job[t]
        /\ job'[s].at = job[s].at /\ job'[s].unit = job[s].unit
        /\ job'[s].pid = job[s].pid /\ job'[s].todo = job[s].todo
    BY <1>0, <1>3 DEF Cancel, ConductorTypeOK, Job
  <2> QED
    BY <1>1, <1>3, <2>1 DEF Cancel, At, Moves, JobEffect, JobMoves
<1> QED
  BY <1>2, <1>3 DEF WaitStep

\* Completing it.
LEMMA CompleteMoves ==
  ASSUME CallsInv, NEW s \in Sessions, CompleteStep(s)
  PROVE  JobEffect(s)
<1> USE DEF CallsInv
<1>0. ConductorTypeOK /\ job[s] \in Job /\ job[s].unit \in Unit /\ job[s].todo \in Stage
  BY DEF ConductorTypeOK, Job
<1>1. OnlyJob /\ ~At(s, "idle")
  BY DEF CompleteStep, Check, RecordExit, GitStateUnchanged, GitStateChanged, Cancelled,
         CancelledUsage, Usage, RunnerSucceeded, RunnerFailed, RunnerStopped, NoWorkspace,
         HandoffMissing, Reject, AcceptHandoff, Verify, WorkUncommitted, GatesRan, Judge,
         Outcome, At
<1>2. /\ alive' \subseteq alive /\ spawned' = spawned
      /\ worktree' \in [Unit -> BOOLEAN] /\ crashes' \in 0..MaxCrashes
  BY <1>0, <1>1 DEF OnlyJob, ConductorTypeOK
<1> USE DEF At, Again, Step, Stage, Moves, Proceeds, JobEffect, JobMoves
<1>3. CASE Check(s) \/ RecordExit(s) \/ GitStateUnchanged(s) \/ GitStateChanged(s)
  <2>1. CASE Check(s)
    BY <1>0, <1>1, <1>2, <2>1, JobWrites DEF Check
  <2>2. CASE RecordExit(s)
    BY <1>0, <1>1, <1>2, <2>2, JobWrites DEF RecordExit
  <2>3. CASE GitStateUnchanged(s) \/ GitStateChanged(s)
    BY <1>0, <1>1, <1>2, <2>3, JobWrites DEF GitStateUnchanged, GitStateChanged
  <2> QED
    BY <1>3, <2>1, <2>2, <2>3
<1>4. CASE Cancelled(s) \/ CancelledUsage(s) \/ Usage(s) \/ RunnerSucceeded(s)
  BY <1>0, <1>1, <1>2, <1>4, JobWrites DEF Cancelled, CancelledUsage, Usage, RunnerSucceeded
<1>5. CASE RunnerFailed(s) \/ RunnerStopped(s) \/ NoWorkspace(s) \/ HandoffMissing(s)
  BY <1>0, <1>1, <1>2, <1>5, JobWrites
     DEF RunnerFailed, RunnerStopped, NoWorkspace, HandoffMissing
<1>6. CASE Reject(s) \/ \E valid \in BOOLEAN : AcceptHandoff(s, valid)
  <2>1. CASE Reject(s)
    BY <1>0, <1>1, <1>2, <2>1, JobWrites DEF Reject
  <2>2. ASSUME NEW valid \in BOOLEAN, AcceptHandoff(s, valid)
        PROVE  JobEffect(s)
    <3>1. At(s, "accept") /\ \/ Goto(s, "verify") \/ Goto(s, "reject") \/ Again(s)
      BY <2>2 DEF AcceptHandoff
    <3> QED
      BY <1>0, <1>1, <1>2, <3>1, JobWrites
  <2> QED
    BY <1>6, <2>1, <2>2
<1>7. CASE Verify(s) \/ WorkUncommitted(s) \/ GatesRan(s) \/ Judge(s) \/ Outcome(s)
  BY <1>0, <1>1, <1>2, <1>7, JobWrites DEF Verify, WorkUncommitted, GatesRan, Judge, Outcome
<1> QED
  BY <1>3, <1>4, <1>5, <1>6, <1>7 DEF CompleteStep

\* Being idle.
LEMMA IdleMoves ==
  ASSUME CallsInv, NEW s \in Sessions, IdleStep(s)
  PROVE  JobEffect(s)
<1> USE DEF CallsInv
<1>0. ConductorTypeOK
  OBVIOUS
<1>1. CASE UNCHANGED conductorVars
  BY <1>0, <1>1, JobWrites DEF conductorVars, JobEffect, JobMoves, ConductorTypeOK
<1>2. ASSUME NEW u \in Unit, NEW w, NEW t, Dispatch(s, u, w, t)
      PROVE  JobEffect(s)
  BY <1>0, <1>2, JobWrites
     DEF Dispatch, At, Step, OnlyJob, JobEffect, JobMoves, ConductorTypeOK
<1>3. ASSUME NEW u \in Unit, StartAssigned(s, u)
      PROVE  JobEffect(s)
  BY <1>0, <1>3, JobWrites
     DEF StartAssigned, At, Step, OnlyJob, RunUnchanged, JobEffect, JobMoves, ConductorTypeOK
<1> QED
  BY <1>1, <1>2, <1>3
     DEF IdleStep, TakeLease, ResumeRun, Retry, ReopenReview, ReviewOrMerge, ReassignStopped,
         CancelWithoutHandle

\* Raising.
LEMMA RaiseMoves ==
  ASSUME CallsInv, NEW s \in Sessions, Raises(s)
  PROVE  /\ JobEffect(s)
         /\ job[s].at \in Waited /\ job'[s].at = "wait"
         /\ raises' \in [Aftermath -> Nat]
<1>0. ConductorTypeOK
  BY DEF CallsInv
<1>1. /\ job[s].at \in Waited /\ Goto(s, "wait") /\ OnlyJob
      /\ \E aftermath \in Aftermath : raises' = [raises EXCEPT ![aftermath] = @ + 1]
  BY DEF Raises, StepRaises, ExitUnconfirmed, UsageUnconfirmed, Raised, At, Waited,
         Completing, Aftermath
<1>2. raises' \in [Aftermath -> Nat]
  BY <1>0, <1>1 DEF ConductorTypeOK
<1>3. /\ alive' \subseteq alive /\ spawned' = spawned
      /\ worktree' \in [Unit -> BOOLEAN] /\ crashes' \in 0..MaxCrashes
  BY <1>0, <1>1 DEF OnlyJob, ConductorTypeOK
<1>4. /\ job' \in [Sessions -> Job]
      /\ \A t \in Sessions \ {s} : job'[t] = job[t]
      /\ job'[s].at = "wait" /\ job'[s].unit = job[s].unit
      /\ job'[s].pid = job[s].pid /\ job'[s].todo = job[s].todo
  BY <1>0, <1>1, JobWrites DEF Step
<1>5. job[s].at # "idle" /\ <<job[s].at, "wait">> \in Moves
  BY <1>1 DEF Waited, Moves
<1>6. JobMoves(s)
  BY <1>4, <1>5 DEF JobMoves
<1> QED
  BY <1>1, <1>2, <1>3, <1>4, <1>6 DEF JobEffect

LEMMA SessionMoves ==
  ASSUME CallsInv, NEW s \in Sessions, SessionStep(s)
  PROVE  JobEffect(s)
<1>1. CASE Crash(s)
  <2>1. ConductorTypeOK
    BY DEF CallsInv
  <2> QED
    BY <1>1, <2>1, JobWrites DEF Crash, JobEffect, JobMoves, ConductorTypeOK
<1> QED
  BY <1>1, StartMoves, WaitMoves, CompleteMoves, IdleMoves, RaiseMoves DEF SessionStep

\* What was read of a unit in the same call as the job went on.
Coupled(s) ==
  LET j == job[s]  k == job'[s]  u == j.unit
      Goes(from, to) == j.at = from /\ k.at = to
  IN /\ j.at \notin {"idle", "wait"} /\ k.at = j.at => UNCHANGED units
     /\ k.at = "wait" /\ j.at \notin {"idle", "record", "wait"} =>
          \/ UNCHANGED units
          \/ j.at = "exit" /\ RecordProcessExit(Id[s], u)
          \/ j.at = "usage" /\ raises'["charged"] # raises["charged"]
     /\ Goes("launch", "spawn") => Transition(Id[s], u, "running", "other")
     /\ Goes("spawn", "record") \/ Goes("wait", "check") \/ j.at = "check"
          \/ Goes("guard", "usage") \/ Goes("result", "accept") => UNCHANGED units
     /\ Goes("exit", "guard") => RecordProcessExit(Id[s], u)
     /\ Goes("usage", "result") =>
          \E x \in Charges : RecordUsage(Id[s], u, x) /\ ~(units'[u].cost > CostLimit)
     /\ Goes("usage", "cancel_usage") =>
          \E state \in {"failed", "cancelled"} : Transition(Id[s], u, state, "other")
     /\ Goes("accept", "verify") => RecordHandoff(Id[s], u, TRUE)
     /\ Goes("accept", "reject") => \E valid : RecordHandoff(Id[s], u, valid)
     /\ Goes("verify", "gates") => Transition(Id[s], u, "verifying", "other")
     /\ Goes("gates", "judge") =>
          IF HasLease(Id[s]) THEN AnnotateVerification(Id[s], u) ELSE UNCHANGED units

\* The lease while a session makes its step.
LeaseEffect(s) ==
  \/ /\ UNCHANGED lease
     /\ \/ UNCHANGED units
        \/ HasLease(Id[s])
        \/ \E u \in Unit : Surrender(Id[s], u)
  \/ /\ lease' = Fresh(Id[s]) /\ ~Blocked(Id[s])
     /\ ~At(s, "idle") =>
          UNCHANGED units /\ job[s].at \in {"wait", "accept", "verify", "gates"}

LEMMA TryLease ==
  ASSUME TypeOK, NEW s \in Sessions, NEW u \in Unit, NEW state \in State,
         TryTransition(Id[s], u, state)
  PROVE  LeaseEffect(s)
BY DEF TryTransition, CanTransition, Transition, RunUnchanged, LeaseEffect

LEMMA StartCoupled ==
  ASSUME CallsInv, NEW s \in Sessions, StartStep(s)
  PROVE  Coupled(s) /\ LeaseEffect(s)
<1> USE DEF CallsInv
<1>0. ConductorTypeOK /\ job[s] \in Job /\ job[s].unit \in Unit
  BY DEF ConductorTypeOK, Job
<1>1. CASE RoutingConfirmed(s) \/ LoadAssigned(s) \/ CreateWorktree(s) \/ Spawn(s)
  <2>1. /\ UNCHANGED <<units, lease>>
        /\ job[s].at \in {"route", "load", "create", "spawn"}
    BY <1>1 DEF RoutingConfirmed, LoadAssigned, CreateWorktree, Spawn, RunUnchanged, At
  <2> QED
    BY <2>1 DEF Coupled, LeaseEffect
<1>2. CASE RoutingChanged(s) \/ SpawnFails(s)
  <2>1. /\ job[s].at \in {"route", "spawn"} /\ job'[s].at = "idle"
        /\ \E state \in {"needs_user", "failed"} : TryTransition(Id[s], job[s].unit, state)
    BY <1>0, <1>2, JobWrites DEF RoutingChanged, SpawnFails, At, NoJob
  <2>2. LeaseEffect(s)
    BY <1>0, <2>1, TryLease DEF State
  <2> QED
    BY <2>1, <2>2 DEF Coupled
<1>3. CASE KeepWorkspace(s) \/ RecordPid(s)
  <2>1. /\ job[s].at \in {"workspace", "record"} /\ job'[s].at # job[s].at
        /\ job'[s].at = "wait" => job[s].at = "record"
        /\ UNCHANGED lease /\ (HasLease(Id[s]) \/ UNCHANGED units)
    BY <1>0, <1>3, JobWrites
       DEF KeepWorkspace, RecordPid, RecordWorkspace, RecordProcess, RunUnchanged, At, NoJob,
           Step
  <2> QED
    BY <2>1 DEF Coupled, LeaseEffect
<1>4. CASE Launch(s)
  <2>1. /\ job[s].at = "launch" /\ UNCHANGED lease
        /\ \/ job'[s].at = "spawn" /\ Transition(Id[s], job[s].unit, "running", "other")
           \/ job'[s].at = "idle" /\ UNCHANGED units
    BY <1>0, <1>4, JobWrites DEF Launch, Transition, RunUnchanged, At, NoJob, Step
  <2>2. HasLease(Id[s]) \/ UNCHANGED units
    BY <2>1 DEF Transition
  <2> QED
    BY <2>1, <2>2 DEF Coupled, LeaseEffect
<1> QED
  BY <1>1, <1>2, <1>3, <1>4 DEF StartStep

LEMMA WaitCoupled ==
  ASSUME CallsInv, NEW s \in Sessions, WaitStep(s)
  PROVE  Coupled(s) /\ LeaseEffect(s)
<1> USE DEF CallsInv
<1>0. ConductorTypeOK /\ job[s] \in Job /\ job[s].unit \in Unit
  BY DEF ConductorTypeOK, Job
<1>1. CASE Heartbeat(s) \/ Reap(s)
  <2>1. /\ job[s].at \in {"wait", "accept", "verify", "gates"} /\ KeepLease(Id[s])
        /\ job'[s].at = job[s].at \/ job[s].at = "wait"
    BY <1>0, <1>1, JobWrites DEF Heartbeat, Reap, At, Step
  <2>2. UNCHANGED units /\ lease' = Fresh(Id[s]) /\ ~Blocked(Id[s])
    BY <2>1 DEF KeepLease, RenewLease, AcquireLease, HasLease, Blocked
  <2> QED
    BY <2>1, <2>2 DEF Coupled, LeaseEffect, At
<1>2. CASE LoseLease(s)
  <2>1. /\ job[s].at = "wait" /\ job'[s].at \in {"wait", "idle"}
        /\ UNCHANGED units \/ Surrender(Id[s], job[s].unit)
        /\ UNCHANGED lease
    BY <1>0, <1>2, JobWrites
       DEF LoseLease, Surrender, RunUnchanged, Again, At, Step, NoJob
  <2> QED
    BY <1>0, <2>1 DEF Coupled, LeaseEffect
<1>3. ASSUME NEW target, Cancel(s, target)
      PROVE  Coupled(s) /\ LeaseEffect(s)
  BY <1>3 DEF Cancel, RunUnchanged, At, Coupled, LeaseEffect
<1> QED
  BY <1>1, <1>2, <1>3 DEF WaitStep

LEMMA CompleteCoupled ==
  ASSUME CallsInv, NEW s \in Sessions, CompleteStep(s)
  PROVE  Coupled(s) /\ LeaseEffect(s)
<1> USE DEF CallsInv
<1>0. ConductorTypeOK /\ job[s] \in Job /\ job[s].unit \in Unit
  BY DEF ConductorTypeOK, Job
<1>1. CASE Check(s) \/ GitStateUnchanged(s) \/ RunnerSucceeded(s) \/ NoWorkspace(s)
  <2>1. /\ UNCHANGED <<units, lease>>
        /\ job[s].at \in {"check", "guard", "result", "accept"}
        /\ job'[s].at \notin {"verify", "reject"}
    BY <1>0, <1>1, JobWrites
       DEF Check, GitStateUnchanged, RunnerSucceeded, NoWorkspace, RunUnchanged, At, Again,
           Step, Stage, NoJob, Job
  <2> QED
    BY <2>1 DEF Coupled, LeaseEffect
<1>2. CASE RecordExit(s)
  <2>1. /\ job[s].at = "exit" /\ UNCHANGED lease
        /\ \/ job'[s].at = "guard" /\ RecordProcessExit(Id[s], job[s].unit)
           \/ job'[s].at \in {"wait", "idle"} /\ UNCHANGED units
    BY <1>0, <1>2, JobWrites
       DEF RecordExit, RecordProcessExit, RunUnchanged, At, Again, Step, Stage, NoJob
  <2>2. HasLease(Id[s]) \/ UNCHANGED units
    BY <2>1 DEF RecordProcessExit
  <2> QED
    BY <2>1, <2>2 DEF Coupled, LeaseEffect
<1>3. CASE CancelledUsage(s)
  <2>1. /\ job[s].at = "cancel_usage" /\ job'[s].at = "idle" /\ UNCHANGED lease
        /\ HasLease(Id[s]) \/ UNCHANGED units
    BY <1>0, <1>3, JobWrites DEF CancelledUsage, RecordUsage, RunUnchanged, At, NoJob
  <2> QED
    BY <2>1 DEF Coupled, LeaseEffect
<1>4. CASE Usage(s)
  <2>1. /\ job[s].at = "usage" /\ UNCHANGED lease
        /\ \/ /\ job'[s].at = "result"
              /\ \E x \in Charges : RecordUsage(Id[s], job[s].unit, x)
              /\ ~(units'[job[s].unit].cost > CostLimit)
           \/ job'[s].at = "idle"
        /\ HasLease(Id[s]) \/ UNCHANGED units
    BY <1>0, <1>4, JobWrites DEF Usage, RecordUsage, RunUnchanged, At, Stage, NoJob
  <2> QED
    BY <2>1 DEF Coupled, LeaseEffect
<1>5. ASSUME NEW valid \in BOOLEAN, AcceptHandoff(s, valid)
      PROVE  Coupled(s) /\ LeaseEffect(s)
  <2>1. /\ job[s].at = "accept" /\ UNCHANGED lease
        /\ \/ job'[s].at \in {"wait", "idle"} /\ UNCHANGED units
           \/ /\ HasLease(Id[s]) /\ RecordHandoff(Id[s], job[s].unit, valid)
              /\ job'[s].at \in {"verify", "reject"}
    BY <1>0, <1>5, JobWrites
       DEF AcceptHandoff, RecordHandoff, RunUnchanged, At, Again, Step, NoJob
  <2>2. job'[s].at = "verify" => valid
    BY <1>0, <1>5, JobWrites DEF AcceptHandoff, Again, Step, NoJob
  <2>3. valid /\ RecordHandoff(Id[s], job[s].unit, valid) =>
          RecordHandoff(Id[s], job[s].unit, TRUE)
    BY <1>5, Zenon
  <2>4. job'[s].at # "accept"
    BY <1>0, <1>5, JobWrites DEF AcceptHandoff, Again, Step, NoJob
  <2> QED
    BY <2>1, <2>2, <2>3, <2>4 DEF Coupled, LeaseEffect
<1>6. CASE Verify(s)
  <2>1. /\ job[s].at = "verify" /\ UNCHANGED lease
        /\ \/ job'[s].at = "gates" /\ Transition(Id[s], job[s].unit, "verifying", "other")
           \/ job'[s].at = "idle" /\ UNCHANGED units
    BY <1>0, <1>6, JobWrites DEF Verify, Transition, RunUnchanged, At, NoJob, Step
  <2>2. HasLease(Id[s]) \/ UNCHANGED units
    BY <2>1 DEF Transition
  <2> QED
    BY <2>1, <2>2 DEF Coupled, LeaseEffect
<1>7. CASE GatesRan(s)
  <2>1. /\ job[s].at = "gates" /\ UNCHANGED lease /\ job'[s].at = "judge"
        /\ IF HasLease(Id[s]) THEN AnnotateVerification(Id[s], job[s].unit)
           ELSE UNCHANGED units
    BY <1>0, <1>7, JobWrites DEF GatesRan, AnnotateVerification, RunUnchanged, At, Step
  <2> QED
    BY <2>1 DEF Coupled, LeaseEffect
<1>8. CASE GitStateChanged(s) \/ RunnerFailed(s)
  <2>1. /\ job[s].at \in {"guard", "result"}
        /\ \/ UNCHANGED <<units, lease>> /\ Again(s)
           \/ /\ Done(s) \/ Goto(s, "outcome")
              /\ UNCHANGED lease /\ HasLease(Id[s])
    BY <1>8 DEF GitStateChanged, RunnerFailed, Transition, RunUnchanged, At
  <2>2. /\ Again(s) => job'[s].at \in {"idle", "wait"}
        /\ Done(s) \/ Goto(s, "outcome") => job'[s].at \in {"idle", "outcome"}
    BY <1>0, JobWrites DEF Again, NoJob, Step
  <2> QED
    BY <2>1, <2>2 DEF Coupled, LeaseEffect
<1>9. CASE Cancelled(s)
  <2>1. CASE Transition(Id[s], job[s].unit, job[s].cancel, "other") /\ Goto(s, "cancel_usage")
    <3>1. UNCHANGED lease /\ HasLease(Id[s]) /\ job[s].at = "usage"
      BY <1>9, <2>1 DEF Transition, Cancelled, At
    <3>2. job'[s].at = "cancel_usage"
      BY <1>0, <2>1, JobWrites DEF Step
    <3>3. job[s].cancel \in {"failed", "cancelled"}
      BY <1>0, <1>9 DEF Cancelled, Job
    <3> QED
      BY <2>1, <3>1, <3>2, <3>3 DEF Coupled, LeaseEffect
  <2>2. CASE RunUnchanged /\ Again(s)
    <3>1. /\ job[s].at = "usage" /\ UNCHANGED <<units, lease>>
          /\ job'[s].at \in {"idle", "wait"}
      BY <1>0, <1>9, <2>2, JobWrites DEF Cancelled, RunUnchanged, At, Again, NoJob, Step
    <3> QED
      BY <3>1 DEF Coupled, LeaseEffect
  <2> QED
    BY <1>9, <2>1, <2>2 DEF Cancelled
<1>10. CASE RunnerStopped(s) \/ HandoffMissing(s) \/ WorkUncommitted(s) \/ Reject(s)
            \/ Judge(s)
  <2>1. /\ job[s].at \in {"result", "accept", "gates", "reject", "judge"}
        /\ job'[s].at \in {"idle", "outcome"}
        /\ \E state \in {"needs_user", "failed", "reviewing"} :
             TryTransition(Id[s], job[s].unit, state)
    BY <1>0, <1>10, JobWrites
       DEF RunnerStopped, HandoffMissing, WorkUncommitted, Reject, Judge, At, NoJob, Step
  <2>2. LeaseEffect(s)
    BY <1>0, <2>1, TryLease DEF State
  <2> QED
    BY <2>1, <2>2 DEF Coupled
<1>11. CASE Outcome(s)
  <2>1. /\ job[s].at = "outcome" /\ job'[s].at = "idle"
        /\ \/ UNCHANGED <<units, lease>>
           \/ \E state \in {"needs_user", "ready"} : TryTransition(Id[s], job[s].unit, state)
    BY <1>0, <1>11, JobWrites DEF Outcome, RunUnchanged, At, NoJob
  <2>2. LeaseEffect(s)
    BY <1>0, <2>1, TryLease DEF State, LeaseEffect
  <2> QED
    BY <2>1, <2>2 DEF Coupled
<1> QED
  BY <1>1, <1>2, <1>3, <1>4, <1>5, <1>6, <1>7, <1>8, <1>9, <1>10, <1>11 DEF CompleteStep

LEMMA RaiseCoupled ==
  ASSUME CallsInv, NEW s \in Sessions, Raises(s)
  PROVE  Coupled(s) /\ LeaseEffect(s)
<1>0. /\ job[s].at \in Waited /\ job'[s].at = "wait"
      /\ raises \in [Aftermath -> Nat]
  BY RaiseMoves DEF CallsInv, ConductorTypeOK
<1>1. CASE StepRaises(s)
  <2>1. UNCHANGED <<units, lease>>
    BY <1>1 DEF StepRaises, RunUnchanged
  <2> QED
    BY <1>0, <2>1 DEF Coupled, LeaseEffect, Waited
<1>2. CASE ExitUnconfirmed(s)
  <2>1. job[s].at = "exit" /\ RecordProcessExit(Id[s], job[s].unit)
    BY <1>2 DEF ExitUnconfirmed, At
  <2>2. UNCHANGED lease /\ HasLease(Id[s])
    BY <2>1 DEF RecordProcessExit
  <2> QED
    BY <1>0, <2>1, <2>2 DEF Coupled, LeaseEffect
<1>3. CASE UsageUnconfirmed(s)
  <2>1. /\ job[s].at = "usage" /\ UNCHANGED lease /\ HasLease(Id[s])
        /\ raises' = [raises EXCEPT !["charged"] = @ + 1]
    BY <1>3 DEF UsageUnconfirmed, At, RecordUsage, Raised
  <2>2. raises'["charged"] # raises["charged"]
    BY <1>0, <2>1 DEF Aftermath
  <2> QED
    BY <1>0, <2>1, <2>2 DEF Coupled, LeaseEffect
<1> QED
  BY <1>1, <1>2, <1>3 DEF Raises

LEMMA SessionCoupled ==
  ASSUME CallsInv, NEW s \in Sessions, SessionStep(s)
  PROVE  Coupled(s) /\ LeaseEffect(s)
<1>1. CASE Crash(s)
  <2>1. UNCHANGED <<units, lease>> /\ job'[s].at = "idle" /\ job[s].at # "idle"
    BY <1>1, JobWrites DEF CallsInv, Crash, RunUnchanged, At, NoJob
  <2> QED
    BY <2>1 DEF Coupled, LeaseEffect
<1>2. CASE IdleStep(s)
  <2>1. At(s, "idle")
    BY <1>2 DEF IdleStep, TakeLease, ResumeRun, StartAssigned, Retry, ReopenReview,
                ReviewOrMerge, Dispatch, ReassignStopped, CancelWithoutHandle
  <2>2. LeaseEffect(s)
    <3>1. CASE TakeLease(s)
      BY <3>1, <2>1 DEF TakeLease, AcquireLease, LeaseEffect
    <3>2. ASSUME NEW status, ResumeRun(s, status) PROVE LeaseEffect(s)
      BY <3>2, <2>1 DEF ResumeRun, Resume, LeaseEffect
    <3>3. ASSUME NEW u \in Unit, StartAssigned(s, u) PROVE LeaseEffect(s)
      BY <3>3 DEF StartAssigned, RunUnchanged, LeaseEffect
    <3>4. ASSUME NEW u \in Unit, NEW state, NEW why, Transition(Id[s], u, state, why)
          PROVE  LeaseEffect(s)
      BY <3>4 DEF Transition, LeaseEffect
    <3>5. ASSUME NEW u \in Unit, \/ Retry(s, u) \/ ReopenReview(s, u) \/ ReviewOrMerge(s, u)
                                \/ \E target : CancelWithoutHandle(s, u, target)
          PROVE  LeaseEffect(s)
      BY <3>4, <3>5 DEF Retry, ReopenReview, ReviewOrMerge, CancelWithoutHandle
    <3>6. ASSUME NEW u \in Unit, NEW w, NEW t, Dispatch(s, u, w, t) \/ ReassignStopped(s, u, w, t)
          PROVE  LeaseEffect(s)
      BY <3>6 DEF Dispatch, ReassignStopped, Assign, Reassign, LeaseEffect
    <3> QED
      BY <1>2, <3>1, <3>2, <3>3, <3>5, <3>6 DEF IdleStep
  <2> QED
    <3>1. job[s].at = "idle"
      BY <2>1 DEF At
    <3> QED
      BY <2>2, <3>1 DEF Coupled
<1> QED
  BY <1>1, <1>2, StartCoupled, WaitCoupled, CompleteCoupled, RaiseCoupled DEF SessionStep

(******************* Only calls of the run manager **************************)

LEMMA CallsInitially == ConductorInit => CallsInv
<1> SUFFICES ASSUME ConductorInit PROVE CallsInv
  OBVIOUS
<1>1. NoJob \in Job
  BY DEF NoJob, Job, Step, Stage, NoPid, Unit
<1>2. ConductorTypeOK
  BY <1>1 DEF ConductorInit, ConductorTypeOK
<1>3. \A u \in Unit : units[u].state # "assigned"
  BY DEF ConductorInit, Init, Created, NewUnit, Moved
<1>4. JobsWarranted
  BY <1>3 DEF ConductorInit, JobsWarranted, At, NoJob
<1> QED
  BY <1>2, <1>4, InitType DEF ConductorInit, CallsInv

\* Attempts are only counted up, and counted when the unit is given out.
LEMMA AttemptsGrow ==
  ASSUME TypeOK, NEW s, Effect(s), NEW u \in Unit
  PROVE  /\ units'[u].attempts >= units[u].attempts
         /\ units'[u].state = "assigned" =>
              units[u].state = "assigned" \/ units'[u].attempts > 0
<1>1. units[u].attempts \in Nat
  BY DEF TypeOK, UnitRecord
<1>2. AttemptsEffect(s, u)
  BY DEF Effect
<1> QED
  BY <1>1, <1>2 DEF AttemptsEffect

\* A session's step keeps the jobs typed.
LEMMA SessionTyped ==
  ASSUME ConductorTypeOK, NEW s \in Sessions, JobEffect(s), UNCHANGED timely,
         raises' \in [Aftermath -> Nat]
  PROVE  ConductorTypeOK'
<1>1. job[s].unit \in Unit
  BY DEF ConductorTypeOK, Job
<1>2. alive' \subseteq [pid : Pids, unit : Unit] /\ spawned' \in Nat
  BY <1>1 DEF JobEffect, SpawnMoves, ConductorTypeOK
<1> QED
  BY <1>2 DEF JobEffect, ConductorTypeOK

LEMMA SessionWarranted ==
  ASSUME CallsInv, NEW s \in Sessions, JobEffect(s), Effect(s), TypeOK'
  PROVE  JobsWarranted'
<1> USE DEF CallsInv
<1>0. \A u \in Unit : /\ units[u].attempts \in Nat /\ units'[u].attempts \in Nat
                      /\ units'[u].attempts >= units[u].attempts
  BY AttemptsGrow DEF TypeOK, UnitRecord
<1>1. \A t \in Sessions : job[t].unit \in Unit /\ job'[t].unit \in Unit
  BY DEF ConductorTypeOK, JobEffect, Job
<1>2. \A u \in Unit : units'[u].state = "assigned" => units'[u].attempts > 0
  BY <1>0, AttemptsGrow DEF JobsWarranted
<1>3. ASSUME NEW t \in Sessions, t # s
      PROVE  /\ job'[t].at # "idle" => units'[job'[t].unit].attempts > 0
             /\ job'[t].at = "record" => job'[t].pid # NoPid
  BY <1>0, <1>1, <1>3 DEF JobEffect, JobsWarranted, At
<1>4. job'[s].at # "idle" => units'[job'[s].unit].attempts > 0
  <2>1. CASE job'[s].unit = job[s].unit /\ job[s].at # "idle"
    BY <1>0, <1>1, <2>1 DEF JobsWarranted, At
  <2>2. CASE units'[job'[s].unit].state = "assigned"
    BY <1>1, <1>2, <2>2
  <2> QED
    BY <2>1, <2>2 DEF JobEffect, JobMoves, SpawnMoves, NoJob
<1>5. job'[s].at = "record" => job'[s].pid # NoPid
  <2>1. spawned + 1 # NoPid
    BY DEF ConductorTypeOK, NoPid
  <2>2. job[s].at = "record" => job[s].pid # NoPid
    BY DEF JobsWarranted, At
  <2>3. job[s].todo \in Stage
    BY DEF ConductorTypeOK, Job
  <2> QED
    BY <2>1, <2>2, <2>3
       DEF JobEffect, JobMoves, SpawnMoves, NoJob, Early, Moves, Proceeds, Stage
<1> QED
  BY <1>2, <1>3, <1>4, <1>5 DEF JobsWarranted, At

LEMMA CallsInductive == CallsInv /\ [ConductorNext]_allVars => CallsInv'
<1> SUFFICES ASSUME CallsInv, [ConductorNext]_allVars PROVE CallsInv'
  OBVIOUS
<1>1. TypeOK'
  BY StepCalls, TypeInductive DEF CallsInv
<1>2. ASSUME NEW s \in Sessions, SessionStep(s), UNCHANGED timely,
             UNCHANGED raises \/ Raises(s)
      PROVE  ConductorTypeOK' /\ JobsWarranted'
  <2>1. raises' \in [Aftermath -> Nat]
    BY <1>2, RaiseMoves DEF CallsInv, ConductorTypeOK
  <2> QED
    BY <1>1, <1>2, <2>1, SessionEffect, SessionMoves, SessionTyped, SessionWarranted
       DEF CallsInv
<1>3. CASE /\ UNCHANGED <<units, job, spawned, worktree, crashes, timely, raises>>
           /\ alive' \subseteq alive
  BY <1>1, <1>3 DEF CallsInv, ConductorTypeOK, JobsWarranted, At
<1>4. ASSUME NEW runner \in alive, RunnerExits(runner), UNCHANGED <<timely, raises>>
      PROVE  /\ UNCHANGED <<units, job, spawned, worktree, crashes, timely, raises>>
             /\ alive' \subseteq alive
  BY <1>4 DEF RunnerExits, RunUnchanged
<1>5. ASSUME ClockTick, UNCHANGED <<timely, raises>>
      PROVE  /\ UNCHANGED <<units, job, spawned, worktree, crashes, timely, raises>>
             /\ alive' \subseteq alive
  BY <1>5 DEF ClockTick, Tick, conductorVars
<1>6. ASSUME UNCHANGED allVars
      PROVE  /\ UNCHANGED <<units, job, spawned, worktree, crashes, timely, raises>>
             /\ alive' \subseteq alive
  BY <1>6 DEF allVars
<1> QED
  BY <1>1, <1>2, <1>3, <1>4, <1>5, <1>6
     DEF ConductorNext, RegularStep, SessionStep, CallsInv

\* The conductors' types, for every number of sessions, ids, crashes and pids.
THEOREM ConductorTypeCorrect == ConductorSpec => []ConductorTypeOK
<1>1. CallsInv => ConductorTypeOK
  BY DEF CallsInv
<1> QED
  BY <1>1, CallsInitially, CallsInductive, PTL DEF ConductorSpec

\* Sessions, runners, crashes and the clock do to the run's document nothing
\* that the run manager's specification does not allow, whether or not two
\* sessions share an id: so its theorems hold of every run that conductors
\* work on.
THEOREM OnlyManagerCalls == ConductorSpec => ManagerSpec
<1>1. ConductorInit => Init
  BY DEF ConductorInit
<1> QED
  BY <1>1, CallsInitially, CallsInductive, StepCalls, PTL DEF ConductorSpec, ManagerSpec, Spec

(**************** One session for every conductor id ************************)

\* What follows is about sessions that share no id: a lease tells conductors
\* apart, not the sessions of one.
OneSessionPerId == \A s, t \in Sessions : Id[s] = Id[t] => s = t

\* What a job did after its runner's exit it did in order.
JobInOrder(j) ==
  /\ j.at \in Early \cup {"record", "exit"} => j.todo = "exit"
  /\ j.at \notin Early => j.pid # NoPid
  /\ j.at = "guard" => j.todo = "guard"
  /\ j.at \in {"usage", "cancel_usage"} => j.todo = "usage"
  /\ j.at \in {"result", "accept", "reject", "verify"} => j.todo = "result"

\* Once it was started a job has a handle on a runner, which no other job has.
JobsInOrder ==
  /\ \A s \in Sessions :
       /\ JobInOrder(job[s])
       /\ job[s].pid <= spawned
       /\ job[s].at \in Waited \/ job[s].todo # "exit" => RunnerOf(s) \notin alive
  /\ \A s, t \in Sessions : s # t /\ job[s].pid # NoPid => job[s].pid # job[t].pid
  /\ \A runner \in alive : runner.pid <= spawned

\* The recorded process is the runner of session s.
RecordedBy(s) ==
  job[s].pid # NoPid /\ units[job[s].unit].process.pid = job[s].pid

\* A process on file was started; when it is a session's runner, it says so,
\* and is finished if the session recorded that.
ProcessesKnown ==
  /\ \A u \in Unit : units[u].process.pid <= spawned
  /\ \A s \in Sessions : RecordedBy(s) =>
       /\ units[job[s].unit].process.conductor = Id[s]
       /\ job[s].todo # "exit" => units[job[s].unit].process.finished

\* As long as it has the lease, a session that found its unit running under its
\* own runner still finds it so.
HeldJobs ==
  \A s \in Sessions : HasLease(Id[s]) =>
    /\ job[s].at \in {"exit", "guard", "usage", "result"} => StillOurs(s)
    /\ job[s].at = "cancel_usage" =>
         /\ RecordedBy(s)
         /\ units[job[s].unit].state \in {"failed", "cancelled"}

\* The largest charge; the charges that a unit's attempts, and the completions
\* that raised after one, allow; and an attempt whose charge is still to come.
ChargesBounded == \E m \in Charges \cup {0} : \A x \in Charges : x <= m
Most == CHOOSE m \in Charges \cup {0} : \A x \in Charges : x <= m
Chargeable(unit) == unit.attempts + raises["charged"]
Spare(unit) == unit.cost + Most <= Most * Chargeable(unit)

CostsInv ==
  /\ \A u \in Unit :
       /\ units[u].cost <= Most * Chargeable(units[u])
       /\ units[u].state = "assigned" => Spare(units[u])
       /\ units[u].cost > CostLimit =>
            units[u].state \notin {"assigned", "running", "verifying"}
  /\ \A s \in Sessions :
       /\ job[s].at \in {"spawn", "record"} /\ HasLease(Id[s]) => Spare(units[job[s].unit])
       /\ RecordedBy(s) /\ job[s].todo # "result" => Spare(units[job[s].unit])

\* The last attempt of a unit left a valid handoff.
HandoffIs(unit) == unit.handoff = [attempt |-> unit.attempts, valid |-> TRUE]

\* A unit that is reviewed, or that its owner may send back to its review.
Reviewed(unit) ==
  \/ unit.state \in {"reviewing", "queued_for_merge", "merged"}
  \/ unit.state = "needs_user" /\ unit.reason = "review_stall"

\* Where no lease runs out under a live session, a job that was launched has it,
\* and its unit is where the job takes it to be.
TimelyJobs ==
  timely => \A s \in Sessions :
    LET at == job[s].at
        u == job[s].unit
    IN /\ at \notin Early \/ at = "spawn" => HasLease(Id[s])
       /\ at \in {"accept", "reject", "verify"} => StillOurs(s)
       /\ at = "verify" => HandoffIs(units[u])
       /\ at \in {"gates", "judge"} =>
            RecordedBy(s) /\ units[u].state = "verifying" /\ HandoffIs(units[u])
       /\ at = "judge" => units[u].verified = units[u].attempts

TimelyReviews ==
  timely => \A u \in Unit : Reviewed(units[u]) =>
    units[u].verified = units[u].attempts /\ HandoffIs(units[u])

LEMMA OrderInitially == ConductorInit => JobsInOrder
BY DEF ConductorInit, JobsInOrder, JobInOrder, NoJob, NoPid, Early, Waited

LEMMA PidNumber == \A pid \in Pids \cup {NoPid} : pid \in Nat
BY BoundAssumption DEF NoPid

LEMMA ProcessFields ==
  ASSUME TypeOK, NEW u \in Unit
  PROVE  /\ units[u].process.pid \in Nat
         /\ [units[u].process EXCEPT !.finished = TRUE].pid = units[u].process.pid
         /\ [units[u].process EXCEPT !.finished = TRUE].conductor = units[u].process.conductor
         /\ [units[u].process EXCEPT !.finished = TRUE].finished
<1>1. units[u].process \in [conductor : Conductors \cup {None}, pid : Pids \cup {NoPid},
                             finished : BOOLEAN]
  BY DEF TypeOK, UnitRecord
<1> DEFINE p == units[u].process
<1> HIDE DEF p
<1>2. p \in [conductor : Conductors \cup {None}, pid : Pids \cup {NoPid}, finished : BOOLEAN]
  BY <1>1 DEF p
<1>3. p.pid \in Nat
  <2>1. p.pid \in Pids \cup {NoPid}
    BY <1>2
  <2> QED
    BY <2>1, PidNumber
<1>4. /\ [p EXCEPT !.finished = TRUE].pid = p.pid
      /\ [p EXCEPT !.finished = TRUE].conductor = p.conductor
      /\ [p EXCEPT !.finished = TRUE].finished
  BY <1>2
<1> QED
  BY <1>3, <1>4 DEF p

\* A session's step keeps the jobs in order.
LEMMA SessionOrder ==
  ASSUME CallsInv, JobsInOrder, NEW s \in Sessions, JobEffect(s)
  PROVE  JobsInOrder'
<1>0. /\ ConductorTypeOK /\ spawned \in Nat /\ job[s] \in Job /\ job'[s] \in Job
      /\ \A t \in Sessions : job[t].pid \in Nat /\ job[t].todo \in Stage
  <2>1. ConductorTypeOK /\ spawned \in Nat /\ job \in [Sessions -> Job]
        /\ job' \in [Sessions -> Job]
    BY DEF CallsInv, ConductorTypeOK, JobEffect
  <2>2. ASSUME NEW j \in Job PROVE j.pid \in Nat /\ j.todo \in Stage
    <3>1. j.pid \in Pids \cup {NoPid} /\ j.todo \in Stage
      BY DEF Job
    <3> QED
      BY <3>1, PidNumber
  <2> QED
    BY <2>1, <2>2
<1>1. \A t \in Sessions \ {s} : job'[t] = job[t]
  BY DEF JobEffect
<1>2. CASE SpawnMoves(s)
  <2>1. job[s].todo = "exit"
    BY <1>2 DEF JobsInOrder, JobInOrder, SpawnMoves, Early
  <2>2. ASSUME NEW t \in Sessions, t # s
        PROVE  /\ job[t].pid <= spawned /\ job[t].pid # spawned + 1
               /\ RunnerOf(t)' = RunnerOf(t)
               /\ RunnerOf(t) \notin alive => RunnerOf(t)' \notin alive'
    BY <1>0, <1>1, <1>2, <2>2 DEF JobsInOrder, SpawnMoves, RunnerOf
  <2>3. ASSUME NEW runner \in alive'
        PROVE  runner.pid <= spawned'
    <3>1. CASE runner \in alive
      <4>1. runner.pid \in Nat /\ runner.pid <= spawned /\ spawned' = spawned + 1
        BY <1>0, <1>2, <3>1, BoundAssumption DEF JobsInOrder, SpawnMoves, ConductorTypeOK
      <4> QED
        BY <1>0, <4>1
    <3>2. CASE runner = [pid |-> job'[s].pid, unit |-> job[s].unit]
      BY <1>0, <1>2, <3>2 DEF SpawnMoves
    <3> QED
      BY <1>2, <2>3, <3>1, <3>2 DEF SpawnMoves
  <2>4. spawned' = spawned + 1 /\ job'[s].pid = spawned + 1 /\ spawned + 1 # NoPid
    BY <1>0, <1>2 DEF SpawnMoves, NoPid
  <2>5. JobInOrder(job'[s]) /\ job'[s].at \notin Waited /\ job'[s].todo = "exit"
    BY <1>2, <2>1, <2>4 DEF SpawnMoves, JobInOrder, Early, Waited
  <2>6. \A t \in Sessions \ {s} :
          /\ JobInOrder(job'[t]) /\ job'[t].pid <= spawned /\ job'[t].pid # spawned + 1
          /\ job'[t].at \in Waited \/ job'[t].todo # "exit" => RunnerOf(t)' \notin alive'
    BY <1>1, <2>2 DEF JobsInOrder
  <2>7. \A t, r \in Sessions : t # r /\ job'[t].pid # NoPid => job'[t].pid # job'[r].pid
    BY <1>1, <2>4, <2>6 DEF JobsInOrder
  <2>8. \A t \in Sessions : job'[t].pid <= spawned'
    BY <1>0, <1>1, <2>4, <2>6
  <2>9. \A t \in Sessions :
          /\ JobInOrder(job'[t])
          /\ job'[t].at \in Waited \/ job'[t].todo # "exit" => RunnerOf(t)' \notin alive'
    BY <2>5, <2>6
  <2> QED
    BY <2>3, <2>7, <2>8, <2>9 DEF JobsInOrder
<1>3. CASE JobMoves(s) /\ alive' \subseteq alive /\ spawned' = spawned
  <2>1. ASSUME NEW t \in Sessions, t # s
        PROVE  RunnerOf(t)' = RunnerOf(t)
    BY <1>1, <2>1 DEF RunnerOf
  <2>2. /\ job'[s].pid \in {job[s].pid, NoPid}
        /\ job'[s].pid # NoPid => RunnerOf(s)' = RunnerOf(s)
    BY <1>3 DEF JobMoves, NoJob, RunnerOf
  <2>3. /\ JobInOrder(job'[s])
        /\ job'[s].at \in Waited \/ job'[s].todo # "exit" =>
             /\ RunnerOf(s) \notin alive /\ job[s].at \notin Early
             /\ job'[s].unit = job[s].unit /\ job'[s].pid = job[s].pid
    <3>1. /\ JobInOrder(job[s])
          /\ job[s].at \in Waited \/ job[s].todo # "exit" => RunnerOf(s) \notin alive
      BY DEF JobsInOrder
    <3>2. JobInOrder(job[s]) /\ job[s].at \in Early => job[s].todo = "exit"
      BY DEF JobInOrder
    <3>3. CASE job'[s] = job[s]
      BY <3>1, <3>2, <3>3 DEF Early, Waited
    <3>4. CASE job'[s] = NoJob \/ job[s].at = "idle"
      BY <1>3, <3>1, <3>2, <3>4 DEF JobMoves, JobInOrder, NoJob, Early, Waited
    <3>5. CASE job[s].at \in Early /\ job'[s].at \in Early /\ job'[s].todo = job[s].todo
      BY <3>1, <3>2, <3>5 DEF JobInOrder, Early, Waited
    <3>6. CASE /\ job'[s].unit = job[s].unit /\ job'[s].pid = job[s].pid
               /\ <<job[s].at, job'[s].at>> \in Moves /\ job'[s].todo = job[s].todo
      BY <3>1, <3>6 DEF JobInOrder, Moves, Early, Waited
    <3>7. CASE /\ job'[s].unit = job[s].unit /\ job'[s].pid = job[s].pid
               /\ \/ /\ job[s].at = "wait" /\ job'[s].at = "check"
                     /\ job'[s].todo = job[s].todo /\ RunnerOf(s) \notin alive
                  \/ /\ job[s].at = "check" /\ job'[s].at = job[s].todo
                     /\ job'[s].todo = job[s].todo
                  \/ <<job[s].at, job'[s].at>> \in Proceeds /\ job'[s].todo = job'[s].at
      BY <1>0, <3>1, <3>7 DEF JobInOrder, Proceeds, Early, Waited, Stage
    <3> QED
      BY <1>3, <3>3, <3>4, <3>5, <3>6, <3>7 DEF JobMoves
  <2> QED
    BY <1>0, <1>1, <1>3, <2>1, <2>2, <2>3 DEF JobsInOrder, NoPid, RunnerOf
<1> QED
  BY <1>2, <1>3 DEF JobEffect

\* An exit of a runner does too.
LEMMA ElseOrder ==
  ASSUME JobsInOrder, UNCHANGED <<job, spawned>>, alive' \subseteq alive
  PROVE  JobsInOrder'
BY DEF JobsInOrder, RunnerOf

\* A session's step leaves the lease with whoever has it; its own id may take
\* one that nobody has.
LEMMA OthersKept ==
  ASSUME OneSessionPerId, NEW s \in Sessions, NEW t \in Sessions, t # s,
         LeaseEffect(s), HasLease(Id[t])'
  PROVE  /\ HasLease(Id[t])
         /\ UNCHANGED units \/ \E u \in Unit : Surrender(Id[s], u)
<1>1. Id[s] # Id[t]
  BY DEF OneSessionPerId
<1>2. UNCHANGED lease /\ HasLease(Id[t])
  BY <1>1 DEF LeaseEffect, HasLease, Fresh
<1>3. ~HasLease(Id[s])
  BY <1>1, <1>2 DEF HasLease
<1> QED
  BY <1>2, <1>3 DEF LeaseEffect, Fresh, HasLease, Blocked

LEMMA LeaseKept ==
  ASSUME OneSessionPerId, NEW s \in Sessions, NEW t \in Sessions, LeaseEffect(s),
         HasLease(Id[t])
  PROVE  HasLease(Id[t])'
<1>1. CASE UNCHANGED lease
  BY <1>1 DEF HasLease
<1>2. CASE lease' = Fresh(Id[s]) /\ ~Blocked(Id[s])
  <2>1. Id[s] = Id[t]
    BY <1>2 DEF HasLease, Blocked
  <2>2. Ttl > 0
    BY BoundAssumption
  <2> QED
    BY <1>2, <2>1, <2>2 DEF HasLease, Fresh
<1> QED
  BY <1>1, <1>2 DEF LeaseEffect

(*********************** A finished record means an exit ********************)

RunInv == CallsInv /\ JobsInOrder /\ ProcessesKnown /\ FinishedMeansExited /\ HeldJobs

LEMMA RunInitially == ConductorInit => RunInv
<1> SUFFICES ASSUME ConductorInit PROVE RunInv
  OBVIOUS
<1>1. \A u \in Unit : units[u].process = NoProcess
  BY DEF ConductorInit, Init, Created, NewUnit, Moved
<1>2. \A s \in Sessions : job[s] = NoJob /\ spawned = 0 /\ alive = {}
  BY DEF ConductorInit
<1>3. alive = {} /\ spawned = 0
  BY DEF ConductorInit
<1> QED
  BY <1>1, <1>2, <1>3, CallsInitially, OrderInitially
     DEF RunInv, ProcessesKnown, FinishedMeansExited, HeldJobs, NoProcess, NoJob, NoPid,
         RecordedBy

\* The process of every unit is one that was started.
LEMMA SessionKnows ==
  ASSUME RunInv, NEW s \in Sessions, JobEffect(s), Effect(s), Coupled(s)
  PROVE  ProcessesKnown'
<1>0. /\ ConductorTypeOK /\ spawned \in Nat /\ spawned' \in Nat /\ spawned <= spawned'
      /\ \A t \in Sessions : job[t] \in Job /\ job[t].pid <= spawned /\ job[t].unit \in Unit
      /\ \A u \in Unit : units[u].process.pid \in Nat /\ units[u].process.pid <= spawned
  <2>1. \A j \in Job : j.unit \in Unit
    BY DEF Job
  <2>2. spawned' \in {spawned, spawned + 1}
    BY DEF JobEffect, SpawnMoves
  <2>3. \A u \in Unit : units[u].process.pid \in Nat
    BY ProcessFields DEF RunInv, CallsInv
  <2> QED
    BY <2>1, <2>2, <2>3
       DEF RunInv, CallsInv, ConductorTypeOK, JobsInOrder, ProcessesKnown
<1>1. ASSUME NEW u \in Unit
      PROVE  units'[u].process.pid <= spawned'
  <2>1. ProcessEffect(s, u)
    BY DEF Effect
  <2>2. units'[u].process.pid \in {units[u].process.pid, NoPid, job[s].pid}
    <3>1. units[u].process.pid = [units[u].process EXCEPT !.finished = TRUE].pid
      BY ProcessFields DEF RunInv, CallsInv
    <3>2. NoProcess.pid = NoPid
      BY DEF NoProcess
    <3> DEFINE ended == [units[u].process EXCEPT !.finished = TRUE]
               begun == [conductor |-> Id[s], pid |-> job[s].pid, finished |-> FALSE]
    <3>4. units'[u].process \in {units[u].process, NoProcess, begun, ended}
      <4>1. u = job[s].unit /\ units'[u].process = [units[u].process EXCEPT !.finished = TRUE]
              => units'[u].process = ended
        OBVIOUS
      <4> QED
        BY <2>1, <4>1 DEF ProcessEffect
    <3>5. begun.pid = job[s].pid /\ ended.pid = units[u].process.pid
      BY <3>1
    <3> HIDE DEF begun, ended
    <3> QED
      BY <3>2, <3>4, <3>5
  <2>3. \A n \in {units[u].process.pid, NoPid, job[s].pid} : n <= spawned
    BY <1>0 DEF NoPid
  <2>4. units'[u].process.pid <= spawned
    BY <2>2, <2>3
  <2>5. units'[u].process.pid \in Nat
    <3>1. job[s].pid \in Pids \cup {NoPid}
      BY <1>0 DEF Job
    <3> QED
      BY <1>0, <2>2, <3>1, PidNumber DEF NoPid
  <2> QED
    BY <1>0, <2>4, <2>5
<1>2. ASSUME NEW t \in Sessions, RecordedBy(t)'
      PROVE  /\ units'[job'[t].unit].process.conductor = Id[t]
             /\ job'[t].todo # "exit" => units'[job'[t].unit].process.finished
  <2> DEFINE u == job'[t].unit
  <2>1. u \in Unit /\ job'[t].pid # NoPid /\ units'[u].process.pid = job'[t].pid
    BY <1>2 DEF JobEffect, Job, RecordedBy
  <2>2. ProcessEffect(s, u)
    BY <2>1 DEF Effect
  <2>3. \/ t # s /\ job'[t] = job[t]
        \/ t = s /\ job'[s].unit = job[s].unit /\ job'[s].pid = job[s].pid /\ JobMoves(s)
    <3>1. CASE SpawnMoves(s) /\ t = s
      <4>1. units'[u].process.pid <= spawned /\ job'[t].pid = spawned + 1
        BY <1>0, <2>1, <3>1 DEF JobEffect, SpawnMoves, JobMoves
      <4> QED
        BY <1>0, <2>1, <4>1
    <3> QED
      BY <2>1, <3>1 DEF JobEffect, JobMoves, NoJob
  <2>4. job'[t].pid = job[t].pid /\ u = job[t].unit
    BY <2>3
  <2>5. CASE units'[u].process = units[u].process
    <3>1. RecordedBy(t)
      BY <2>1, <2>4, <2>5 DEF RecordedBy
    <3>2. /\ units[u].process.conductor = Id[t]
          /\ job[t].todo # "exit" => units[u].process.finished
      BY <2>4, <3>1 DEF RunInv, ProcessesKnown
    <3>3. CASE job'[t].todo # "exit" /\ job[t].todo = "exit"
      <4>1. t = s /\ <<job[s].at, job'[s].at>> \in Proceeds
        BY <2>1, <2>3, <3>3 DEF JobMoves, NoJob
      <4>2. job[s].at = "exit" /\ job'[s].at = "guard"
        BY <3>3, <4>1 DEF RunInv, JobsInOrder, JobInOrder, Proceeds
      <4>3. RecordProcessExit(Id[s], u)
        BY <2>4, <4>1, <4>2 DEF Coupled
      <4>4. units'[u].process.finished = TRUE
        BY <2>1, <4>3, ExitKeeps, ProcessFields DEF RunInv, CallsInv
      <4> QED
        BY <2>5, <3>2, <4>4
    <3> QED
      BY <2>5, <3>2, <3>3
  <2>6. CASE /\ u = job[s].unit /\ At(s, "record")
             /\ units'[u].process = [conductor |-> Id[s], pid |-> job[s].pid,
                                     finished |-> FALSE]
    <3>1. t = s
      BY <2>1, <2>4, <2>6 DEF RunInv, JobsInOrder
    <3>2. job[s].todo = "exit"
      BY <2>6 DEF RunInv, JobsInOrder, JobInOrder, At
    <3>3. job'[s].todo = "exit"
      BY <2>3, <2>6, <3>1, <3>2 DEF JobMoves, NoJob, At, Proceeds
    <3> QED
      BY <2>6, <3>1, <3>3
  <2>7. CASE /\ u = job[s].unit /\ At(s, "exit")
             /\ units'[u].process = [units[u].process EXCEPT !.finished = TRUE]
    <3>1. /\ units'[u].process.pid = units[u].process.pid
          /\ units'[u].process.conductor = units[u].process.conductor
          /\ units'[u].process.finished
      BY <2>1, <2>7 DEF RunInv, CallsInv, TypeOK, UnitRecord
    <3>2. RecordedBy(t)
      BY <2>1, <2>4, <3>1 DEF RecordedBy
    <3> QED
      BY <2>4, <3>1, <3>2 DEF RunInv, ProcessesKnown
  <2> QED
    BY <2>1, <2>2, <2>5, <2>6, <2>7 DEF ProcessEffect, NoProcess
<1> QED
  BY <1>1, <1>2 DEF ProcessesKnown

LEMMA SessionExits ==
  ASSUME RunInv, NEW s \in Sessions, JobEffect(s), Effect(s)
  PROVE  FinishedMeansExited'
<1> SUFFICES ASSUME NEW u \in Unit, units'[u].process.finished
             PROVE  [pid |-> units'[u].process.pid, unit |-> u] \notin alive'
  BY DEF FinishedMeansExited
<1> DEFINE was == [pid |-> units[u].process.pid, unit |-> u]
           is == [pid |-> units'[u].process.pid, unit |-> u]
<1>0. spawned \in Nat /\ units[u].process.pid \in Nat /\ units[u].process.pid <= spawned
  BY ProcessFields DEF RunInv, CallsInv, ConductorTypeOK, ProcessesKnown
<1>1. ProcessEffect(s, u)
  BY DEF Effect
<1>2. is.pid <= spawned /\ is \notin alive => is \notin alive'
  <2>1. is.pid <= spawned => is # [pid |-> spawned + 1, unit |-> job[s].unit]
    BY <1>0
  <2> QED
    BY <2>1 DEF JobEffect, SpawnMoves
<1>3. CASE units'[u].process = units[u].process
  BY <1>0, <1>2, <1>3 DEF RunInv, FinishedMeansExited
<1>4. CASE /\ u = job[s].unit /\ HasLease(Id[s]) /\ At(s, "exit")
           /\ units'[u].process = [units[u].process EXCEPT !.finished = TRUE]
  <2>1. units'[u].process.pid = units[u].process.pid
    BY <1>4 DEF RunInv, CallsInv, TypeOK, UnitRecord
  <2>2. units[u].process.pid = job[s].pid
    BY <1>4 DEF RunInv, HeldJobs, StillOurs, At
  <2>3. RunnerOf(s) \notin alive
    BY <1>4 DEF RunInv, JobsInOrder, At, Waited
  <2> QED
    BY <1>0, <1>2, <1>4, <2>1, <2>2, <2>3 DEF RunnerOf
<1> QED
  BY <1>1, <1>3, <1>4 DEF ProcessEffect, NoProcess

LEMMA SessionHolds ==
  ASSUME OneSessionPerId, RunInv, NEW s \in Sessions,
         JobEffect(s), Coupled(s), LeaseEffect(s)
  PROVE  HeldJobs'
<1> SUFFICES ASSUME NEW t \in Sessions, HasLease(Id[t])'
             PROVE  /\ job'[t].at \in {"exit", "guard", "usage", "result"} => StillOurs(t)'
                    /\ job'[t].at = "cancel_usage" =>
                         /\ RecordedBy(t)'
                         /\ units'[job'[t].unit].state \in {"failed", "cancelled"}
  BY DEF HeldJobs
<1>0. TypeOK /\ job[t] \in Job /\ job[t].unit \in Unit /\ JobInOrder(job[t])
  BY DEF RunInv, CallsInv, ConductorTypeOK, Job, JobsInOrder
<1>1. CASE t # s
  <2>1. HasLease(Id[t]) /\ job'[t] = job[t]
    BY <1>1, OthersKept DEF JobEffect
  <2>2. CASE UNCHANGED units
    BY <2>1, <2>2 DEF RunInv, HeldJobs, StillOurs, RecordedBy
  <2>3. ASSUME NEW u \in Unit, Surrender(Id[s], u)
        PROVE  job[t].at \in Waited => units'[job[t].unit] = units[job[t].unit] \/ ~RecordedBy(t)
    <3>1. Id[s] # Id[t] /\ units[u].process.conductor = Id[s]
      BY <1>1, <2>3 DEF OneSessionPerId, Surrender
    <3>2. RecordedBy(t) => units[job[t].unit].process.conductor = Id[t]
      BY DEF RunInv, ProcessesKnown
    <3>3. u # job[t].unit => units'[job[t].unit] = units[job[t].unit]
      BY <1>0, <2>3, SurrenderKeeps
    <3> QED
      BY <3>1, <3>2, <3>3
  <2>4. job[t].at \in Waited => job[t].pid # NoPid
    BY <1>0 DEF JobInOrder, Waited, Early
  <2>5. job[t].at \in {"exit", "guard", "usage", "result", "cancel_usage"} =>
          units'[job[t].unit] = units[job[t].unit]
    <3>1. job[t].at \in {"exit", "guard", "usage", "result", "cancel_usage"} =>
            RecordedBy(t) /\ job[t].at \in Waited
      BY <2>1, <2>4 DEF RunInv, HeldJobs, StillOurs, RecordedBy, Waited
    <3> QED
      BY <1>1, <2>3, <3>1, OthersKept
  <2> QED
    BY <2>1, <2>5 DEF RunInv, HeldJobs, StillOurs, RecordedBy
<1>2. CASE t = s
  <2> DEFINE j == job[s]  k == job'[s]
  <2>1. CASE k = j /\ j.at \in {"exit", "guard", "usage", "result", "cancel_usage"}
    <3>1. UNCHANGED <<units, lease>>
      BY <2>1 DEF Coupled, LeaseEffect, At
    <3>2. HasLease(Id[s])
      BY <1>2, <3>1 DEF HasLease
    <3> QED
      BY <1>2, <2>1, <3>1, <3>2 DEF RunInv, HeldJobs, StillOurs, RecordedBy
  <2>2. CASE j.at = "check" /\ k.at = j.todo /\ k.unit = j.unit /\ k.pid = j.pid /\ StillOurs(s)
    <3>1. UNCHANGED units /\ j.todo # "cancel_usage"
      BY <1>0, <1>2, <2>2 DEF Coupled, Job, Stage
    <3> QED
      BY <1>2, <2>2, <3>1 DEF StillOurs
  <2>3. CASE /\ <<j.at, k.at>> \in Proceeds \cup {<<"usage", "cancel_usage">>}
             /\ k.unit = j.unit /\ k.pid = j.pid
    <3>1. UNCHANGED lease /\ HasLease(Id[s])
      <4>1. UNCHANGED lease
        BY <2>3 DEF LeaseEffect, At, Proceeds
      <4> QED
        BY <1>2, <4>1 DEF HasLease
    <3>2. StillOurs(s) /\ j.pid # NoPid /\ j.at \in {"exit", "guard", "usage"}
      BY <1>0, <1>2, <2>3, <3>1 DEF RunInv, HeldJobs, Proceeds, JobInOrder, Early
    <3>3. CASE j.at = "exit"
      <4>1. RecordProcessExit(Id[s], j.unit) /\ k.at = "guard"
        BY <2>3, <3>3 DEF Coupled, Proceeds
      <4>2. /\ SameState(units'[j.unit], units[j.unit])
            /\ units'[j.unit].process.pid = units[j.unit].process.pid
        <5>1. /\ units'[j.unit].process = [units[j.unit].process EXCEPT !.finished = TRUE]
              /\ SameState(units'[j.unit], units[j.unit])
          BY <1>0, <1>2, <4>1, ExitKeeps
        <5>2. [units[j.unit].process EXCEPT !.finished = TRUE].pid = units[j.unit].process.pid
          BY <1>0, <1>2, ProcessFields
        <5> QED
          BY <5>1, <5>2
      <4> QED
        BY <1>2, <2>3, <3>2, <4>1, <4>2 DEF StillOurs, SameState
    <3>4. CASE j.at = "guard"
      <4>1. UNCHANGED units /\ k.at = "usage"
        BY <2>3, <3>4 DEF Coupled, Proceeds
      <4> QED
        BY <1>2, <2>3, <3>2, <4>1 DEF StillOurs
    <3>5. CASE j.at = "usage" /\ k.at = "result"
      <4>1. PICK x \in Charges : RecordUsage(Id[s], j.unit, x) /\ ~(units'[j.unit].cost > CostLimit)
        BY <3>5 DEF Coupled
      <4>2. units'[j.unit].cost \in Nat /\ CostLimit \in Nat
        <5>1. units'[j.unit].cost = Charged(units[j.unit], x).cost
          BY <1>0, <1>2, <4>1, UsageKeeps
        <5>2. units[j.unit] \in UnitRecord /\ CostLimit \in Nat
          BY <1>0, <1>2, BoundAssumption DEF TypeOK
        <5>3. Charged(units[j.unit], x).cost \in Nat
          BY <5>2, ChargedCost
        <5> QED
          BY <5>1, <5>2, <5>3
      <4>3. /\ SameState(units'[j.unit], units[j.unit])
            /\ units'[j.unit].process = units[j.unit].process
        BY <1>0, <1>2, <4>1, <4>2, UsageKeeps
      <4> QED
        BY <1>2, <2>3, <3>2, <3>5, <4>3 DEF StillOurs, SameState
    <3>6. CASE j.at = "usage" /\ k.at = "cancel_usage"
      <4>1. PICK state \in {"failed", "cancelled"} : Transition(Id[s], j.unit, state, "other")
        BY <3>6 DEF Coupled
      <4>2. units'[j.unit].state = state /\ SameAttempts(units'[j.unit], units[j.unit])
        BY <1>0, <1>2, <4>1, TransitionKeeps DEF State, Reason
      <4> QED
        BY <1>2, <2>3, <3>2, <3>6, <4>2 DEF StillOurs, RecordedBy, SameAttempts
    <3> QED
      BY <2>3, <3>2, <3>3, <3>4, <3>5, <3>6 DEF Proceeds
  <2>4. k.at \in {"exit", "guard", "usage", "result", "cancel_usage"} =>
          \/ k = j
          \/ /\ k.unit = j.unit /\ k.pid = j.pid
             /\ \/ j.at = "check" /\ k.at = j.todo /\ StillOurs(s)
                \/ <<j.at, k.at>> \in Proceeds \cup {<<"usage", "cancel_usage">>}
    BY DEF JobEffect, JobMoves, SpawnMoves, NoJob, Early, Moves
  <2> QED
    BY <1>2, <2>1, <2>2, <2>3, <2>4
<1> QED
  BY <1>1, <1>2

LEMMA SessionRuns ==
  ASSUME OneSessionPerId, RunInv, NEW s \in Sessions, SessionStep(s), CallsInv'
  PROVE  RunInv'
<1>1. JobEffect(s) /\ Effect(s) /\ Coupled(s) /\ LeaseEffect(s)
  BY SessionEffect, SessionMoves, SessionCoupled DEF RunInv
<1> QED
  BY <1>1, SessionOrder, SessionKnows, SessionExits, SessionHolds DEF RunInv

\* What is left: a runner's exit, a tick of the clock, a stutter.
Aside ==
  /\ UNCHANGED <<units, job, spawned>> /\ alive' \subseteq alive
  /\ lease'.holder = lease.holder /\ lease'.left <= lease.left

LEMMA StepOrAside ==
  ASSUME CallsInv, [ConductorNext]_allVars
  PROVE  \/ \E s \in Sessions : /\ SessionStep(s) /\ UNCHANGED timely
                                /\ UNCHANGED raises \/ Raises(s)
         \/ Aside /\ UNCHANGED <<timely, raises>> /\ (UNCHANGED lease \/ ClockTick)
<1>0. lease \in [holder : Conductors, left : 0..Ttl] /\ lease.left \in Nat
  BY BoundAssumption DEF CallsInv, TypeOK
<1>1. ASSUME NEW runner \in alive, RunnerExits(runner) PROVE Aside /\ UNCHANGED lease
  BY <1>0, <1>1 DEF RunnerExits, RunUnchanged, Aside
<1>2. ASSUME ClockTick PROVE Aside
  BY <1>0, <1>2 DEF ClockTick, Tick, conductorVars, Aside
<1>3. ASSUME UNCHANGED allVars PROVE Aside
  BY <1>0, <1>3 DEF allVars, Aside
<1> QED
  BY <1>1, <1>2, <1>3 DEF ConductorNext, RegularStep, SessionStep, allVars

LEMMA RunInductive ==
  ASSUME OneSessionPerId
  PROVE  RunInv /\ [ConductorNext]_allVars => RunInv'
<1> SUFFICES ASSUME RunInv, [ConductorNext]_allVars PROVE RunInv'
  OBVIOUS
<1>1. CallsInv'
  BY CallsInductive DEF RunInv
<1>2. CASE Aside
  <2>1. JobsInOrder'
    BY <1>2, ElseOrder DEF RunInv, Aside
  <2>2. ASSUME NEW s \in Sessions, HasLease(Id[s])' PROVE HasLease(Id[s])
    BY <1>1, <1>2, <2>2 DEF Aside, HasLease, RunInv, CallsInv, TypeOK
  <2> QED
    BY <1>1, <1>2, <2>1, <2>2
       DEF RunInv, Aside, ProcessesKnown, FinishedMeansExited, HeldJobs, RecordedBy, StillOurs
<1> QED
  BY <1>1, <1>2, StepOrAside, SessionRuns DEF RunInv

\* A process record marked finished never belongs to a live runner, for every
\* number of sessions, crashes and runners, as long as no two sessions share an
\* id, and whether or not a lease runs out under a live session.
THEOREM ExitsRecordedTruly == OneSessionPerId => (ConductorSpec => []FinishedMeansExited)
<1> SUFFICES ASSUME OneSessionPerId PROVE ConductorSpec => []FinishedMeansExited
  OBVIOUS
<1>1. ConductorInit => RunInv
  BY RunInitially
<1>2. RunInv /\ [ConductorNext]_allVars => RunInv'
  BY RunInductive
<1>3. RunInv => FinishedMeansExited
  BY DEF RunInv
<1> QED
  BY <1>1, <1>2, <1>3, PTL DEF ConductorSpec

(******************** What is recorded of a session's runner ****************)

\* A session's runner is on file only since the session recorded it.
LEMMA StillRecorded ==
  ASSUME RunInv, NEW s \in Sessions, NEW t \in Sessions, JobEffect(s), Effect(s),
         RecordedBy(t)'
  PROVE  /\ job'[t].unit = job[t].unit /\ job'[t].pid = job[t].pid
         /\ IF t = s THEN JobMoves(s) /\ job'[s] # NoJob ELSE job'[t] = job[t]
         /\ \/ RecordedBy(t)
            \/ /\ t = s /\ At(s, "record") /\ HasLease(Id[s])
               /\ SameState(units'[job[s].unit], units[job[s].unit])
<1> DEFINE u == job'[t].unit
<1>0. /\ ConductorTypeOK /\ spawned \in Nat
      /\ \A r \in Sessions : job[r] \in Job /\ job[r].pid <= spawned /\ job[r].unit \in Unit
      /\ \A v \in Unit : units[v].process.pid \in Nat /\ units[v].process.pid <= spawned
  <2>1. \A j \in Job : j.unit \in Unit
    BY DEF Job
  <2> QED
    BY <2>1, ProcessFields
       DEF RunInv, CallsInv, ConductorTypeOK, JobsInOrder, ProcessesKnown
<1>1. u \in Unit /\ job'[t].pid # NoPid /\ units'[u].process.pid = job'[t].pid
  BY DEF JobEffect, Job, RecordedBy
<1>2. CASE SpawnMoves(s) /\ t = s /\ UNCHANGED units
  <2>1. units'[u].process.pid <= spawned /\ job'[t].pid = spawned + 1
    BY <1>0, <1>1, <1>2 DEF SpawnMoves
  <2> QED
    BY <1>0, <1>1, <2>1
<1>3. /\ job'[t].unit = job[t].unit /\ job'[t].pid = job[t].pid
      /\ IF t = s THEN JobMoves(s) /\ job'[s] # NoJob ELSE job'[t] = job[t]
  BY <1>1, <1>2 DEF JobEffect, JobMoves, NoJob
<1>4. ProcessEffect(s, u)
  BY <1>1 DEF Effect
<1>5. CASE units'[u].process = units[u].process
  BY <1>1, <1>3, <1>5 DEF RecordedBy
<1>6. CASE /\ u = job[s].unit /\ At(s, "record") /\ HasLease(Id[s])
           /\ SameState(units'[u], units[u])
           /\ units'[u].process = [conductor |-> Id[s], pid |-> job[s].pid, finished |-> FALSE]
  <2>1. t = s
    BY <1>1, <1>3, <1>6 DEF RunInv, JobsInOrder
  <2> QED
    BY <1>3, <1>6, <2>1
<1>7. CASE units'[u].process = [units[u].process EXCEPT !.finished = TRUE]
  <2>1. units'[u].process.pid = units[u].process.pid
    BY <1>1, <1>7, ProcessFields DEF RunInv, CallsInv
  <2> QED
    BY <1>1, <1>3, <2>1 DEF RecordedBy
<1> QED
  BY <1>1, <1>3, <1>4, <1>5, <1>6, <1>7 DEF ProcessEffect, NoProcess

\* What a session has yet to do of a completion only gets less.
LEMMA TodoShrinks ==
  ASSUME RunInv, NEW s \in Sessions, JobMoves(s), job'[s] # NoJob, job'[s].pid # NoPid,
         job'[s].todo # "result"
  PROVE  job[s].todo # "result"
BY DEF RunInv, JobsInOrder, JobInOrder, JobMoves, NoJob, Proceeds, Early

(************************** Every cost is counted ***************************)

CostsAssumed == OneSessionPerId /\ ~TornTransactions /\ ChargesBounded

LEMMA MostIsMost ==
  ASSUME ChargesBounded
  PROVE  Most \in Nat /\ Most \in Charges \cup {0} /\ \A x \in Charges : x <= Most
<1>1. Most \in Charges \cup {0} /\ \A x \in Charges : x <= Most
  BY DEF ChargesBounded, Most
<1> QED
  BY <1>1, BoundAssumption

\* An attempt more allows one charge more.
LEMMA AttemptAllows ==
  ASSUME NEW m \in Nat, NEW a \in Nat
  PROVE  m * a \in Nat /\ m * (a + 1) = m * a + m
OBVIOUS

\* What happens to a unit's cost and attempts in a session's step.
LEMMA UnitCharged ==
  ASSUME CostsAssumed, RunInv, CostsInv, NEW s \in Sessions, Effect(s), NEW u \in Unit
  PROVE  /\ \/ units'[u].cost = units[u].cost
            \/ /\ u = job[s].unit /\ HasLease(Id[s]) /\ job[s].at \in {"usage", "cancel_usage"}
               /\ RecordedBy(s) /\ Spare(units[u])
               /\ units'[u].cost \in Nat /\ units'[u].cost <= units[u].cost + Most
               /\ units'[u].attempts = units[u].attempts
               /\ units'[u].state # "assigned"
               /\ units'[u].cost > CostLimit =>
                    units'[u].state \notin {"assigned", "running", "verifying"}
         /\ \/ units'[u].attempts = units[u].attempts
            \/ /\ units'[u].attempts = units[u].attempts + 1 /\ units[u].cost < CostLimit
               /\ units'[u].cost = units[u].cost
<1>1. AttemptsEffect(s, u) /\ CostEffect(s, u)
  BY DEF Effect
<1>2. /\ units[u].cost \in Nat /\ units[u] \in UnitRecord /\ CostLimit \in Nat
      /\ JobInOrder(job[s])
  BY BoundAssumption DEF RunInv, CallsInv, TypeOK, UnitRecord, JobsInOrder
<1>3. ASSUME units'[u].cost # units[u].cost
      PROVE  /\ u = job[s].unit /\ HasLease(Id[s]) /\ job[s].at \in {"usage", "cancel_usage"}
             /\ RecordedBy(s) /\ Spare(units[u])
             /\ units'[u].cost \in Nat /\ units'[u].cost <= units[u].cost + Most
             /\ units'[u].attempts = units[u].attempts
             /\ units'[u].state # "assigned"
             /\ units'[u].cost > CostLimit =>
                  units'[u].state \notin {"assigned", "running", "verifying"}
  <2>1. /\ u = job[s].unit /\ HasLease(Id[s]) /\ job[s].at \in {"usage", "cancel_usage"}
        /\ \E x \in Charges : units'[u].cost = Charged(units[u], x).cost
        /\ units'[u].attempts = units[u].attempts
        /\ SameState(units'[u], units[u]) \/ units'[u].state = "needs_user"
        /\ units'[u].cost > CostLimit /\ "needs_user" \in Targets(units[u].state) =>
             units'[u].state = "needs_user"
    BY <1>1, <1>3 DEF CostEffect, CostsAssumed, At
  <2>2. job[s].pid # NoPid /\ job[s].todo = "usage"
    BY <1>2, <2>1 DEF JobInOrder, Early
  <2>3. /\ RecordedBy(s)
        /\ job[s].at = "usage" => units[u].state = "running"
        /\ job[s].at = "cancel_usage" => units[u].state \in {"failed", "cancelled"}
    BY <2>1, <2>2 DEF RunInv, HeldJobs, StillOurs, RecordedBy
  <2>4. Spare(units[u])
    BY <2>1, <2>2, <2>3 DEF CostsInv
  <2>5. units'[u].cost \in Nat /\ units'[u].cost <= units[u].cost + Most
    <3>1. PICK x \in Charges : units'[u].cost = Charged(units[u], x).cost
      BY <2>1
    <3>2. /\ x \in Nat /\ Charged(units[u], x).cost \in Nat
          /\ Charged(units[u], x).cost <= units[u].cost + x
      BY <1>2, ChargedCost
    <3>3. x <= Most /\ Most \in Nat
      BY MostIsMost DEF CostsAssumed
    <3> QED
      BY <1>2, <3>1, <3>2, <3>3
  <2>6. "needs_user" \in Targets("running")
    BY DEF Targets, TERMINAL
  <2> QED
    BY <2>1, <2>3, <2>4, <2>5, <2>6 DEF SameState
<1> QED
  BY <1>1, <1>2, <1>3 DEF AttemptsEffect, CostEffect, At

LEMMA SessionCosts ==
  ASSUME CostsAssumed, RunInv, CostsInv, NEW s \in Sessions, JobEffect(s), Effect(s),
         Coupled(s), LeaseEffect(s), TypeOK', raises'["charged"] = raises["charged"]
  PROVE  CostsInv'
<1>0. /\ OneSessionPerId /\ Most \in Nat /\ TypeOK /\ CostLimit \in Nat
      /\ \A v \in Unit : /\ units[v].cost \in Nat /\ units[v].attempts \in Nat
                         /\ units'[v].cost \in Nat /\ units'[v].attempts \in Nat
      /\ raises["charged"] \in Nat
      /\ \A t \in Sessions : job[t].unit \in Unit /\ JobInOrder(job[t])
  <2>1. \A unit \in UnitRecord : unit.cost \in Nat /\ unit.attempts \in Nat
    BY BoundAssumption DEF UnitRecord
  <2>2. \A j \in Job : j.unit \in Unit
    BY DEF Job
  <2> QED
    BY <2>1, <2>2, MostIsMost, BoundAssumption
       DEF CostsAssumed, RunInv, CallsInv, TypeOK, ConductorTypeOK, JobsInOrder, Aftermath
\* Nothing but a charge uses up what an attempt may still cost.
<1>1. ASSUME NEW u \in Unit, units'[u].cost = units[u].cost
      PROVE  /\ units'[u].cost <= Most * Chargeable(units'[u])
             /\ Spare(units[u]) => Spare(units'[u])
             /\ units'[u].attempts # units[u].attempts => Spare(units'[u])
  <2>1. units[u].cost <= Most * Chargeable(units[u])
    BY DEF CostsInv
  <2>2. units'[u].attempts \in {units[u].attempts, units[u].attempts + 1}
    BY UnitCharged
  <2>3. /\ Chargeable(units[u]) \in Nat /\ Most * Chargeable(units[u]) \in Nat
        /\ Most * (Chargeable(units[u]) + 1) = Most * Chargeable(units[u]) + Most
    <3>1. Chargeable(units[u]) \in Nat
      BY <1>0 DEF Chargeable
    <3> QED
      BY <1>0, <3>1, AttemptAllows
  <2> DEFINE spent == Most * Chargeable(units[u])
  <2>4. CASE units'[u].attempts = units[u].attempts
    <3>1. Chargeable(units'[u]) = Chargeable(units[u])
      BY <2>4 DEF Chargeable
    <3>2. Most * Chargeable(units'[u]) = spent
      BY <3>1
    <3>3. units[u].cost <= spent /\ (Spare(units[u]) => units[u].cost + Most <= spent)
      BY <2>1 DEF Spare
    <3>4. units'[u].cost <= spent /\ (Spare(units[u]) => units'[u].cost + Most <= spent)
      BY <1>1, <3>3, Zenon
    <3>5. Spare(units'[u]) <=> units'[u].cost + Most <= spent
      BY <3>2, Zenon DEF Spare
    <3> HIDE DEF spent
    <3>6. units'[u].cost <= Most * Chargeable(units'[u])
      BY <3>2, <3>4
    <3> QED
      BY <2>4, <3>4, <3>5, <3>6
  <2>5. CASE units'[u].attempts = units[u].attempts + 1
    <3>0. Chargeable(units'[u]) = Chargeable(units[u]) + 1
      <4>1. \A n, m \in Nat : n + 1 + m = n + m + 1
        OBVIOUS
      <4>2. units[u].attempts \in Nat /\ raises["charged"] \in Nat
        BY <1>0
      <4> QED
        BY <2>5, <4>1, <4>2, Zenon DEF Chargeable
    <3>1. Most * Chargeable(units'[u]) = spent + Most /\ spent \in Nat
      BY <2>3, <3>0
    <3>2. units'[u].cost <= spent + Most /\ units'[u].cost + Most <= spent + Most
      <4>1. units'[u].cost <= spent
        BY <1>1, <2>1
      <4> HIDE DEF spent
      <4> QED
        BY <1>0, <3>1, <4>1
    <3> QED
      BY <3>1, <3>2 DEF Spare
  <2> QED
    BY <2>2, <2>4, <2>5
<1>2. ASSUME NEW u \in Unit
      PROVE  /\ units'[u].cost <= Most * Chargeable(units'[u])
             /\ units'[u].state = "assigned" => Spare(units'[u])
             /\ units'[u].cost > CostLimit =>
                  units'[u].state \notin {"assigned", "running", "verifying"}
  <2>1. AttemptsEffect(s, u) /\ StateEffect(s, u)
    BY DEF Effect
  <2>2. CASE units'[u].cost = units[u].cost
    <3>1. units'[u].state = "assigned" => Spare(units'[u])
      BY <1>1, <2>1, <2>2, <1>0 DEF AttemptsEffect, CostsInv
    <3>2. ASSUME units'[u].cost > CostLimit
          PROVE  units'[u].state \notin {"assigned", "running", "verifying"}
      <4>1. units[u].state \notin {"assigned", "running", "verifying"}
        BY <2>2, <3>2 DEF CostsInv
      <4>2. units'[u].state # "assigned"
        BY <1>0, <2>1, <2>2, <3>2, <4>1 DEF AttemptsEffect
      <4> QED
        BY <2>1, <4>1, <4>2 DEF StateEffect, SameState, MoveAllowed
    <3> QED
      BY <1>1, <2>2, <3>1, <3>2
  <2>3. CASE units'[u].cost # units[u].cost
    <3>1. /\ Spare(units[u]) /\ units'[u].cost <= units[u].cost + Most
          /\ units'[u].attempts = units[u].attempts /\ units'[u].state # "assigned"
          /\ units'[u].cost > CostLimit =>
               units'[u].state \notin {"assigned", "running", "verifying"}
      BY <2>3, UnitCharged
    <3>2. Most * Chargeable(units[u]) \in Nat /\ Chargeable(units'[u]) = Chargeable(units[u])
      <4>1. Chargeable(units[u]) \in Nat
        BY <1>0 DEF Chargeable
      <4> QED
        BY <1>0, <3>1, <4>1, AttemptAllows DEF Chargeable
    <3> DEFINE allowed == Most * Chargeable(units[u])
    <3>3. units[u].cost + Most <= allowed /\ allowed \in Nat
      BY <3>1, <3>2 DEF Spare
    <3>4. units'[u].cost <= allowed
      <4> HIDE DEF allowed
      <4> QED
        BY <1>0, <3>1, <3>3
    <3> QED
      BY <3>1, <3>2, <3>4
  <2> QED
    BY <2>2, <2>3
<1>3. ASSUME NEW t \in Sessions, job'[t].at \in {"spawn", "record"}, HasLease(Id[t])'
      PROVE  Spare(units'[job'[t].unit])
  <2>1. CASE t # s
    <3>1. HasLease(Id[t]) /\ job'[t] = job[t] /\ Spare(units[job[t].unit])
      BY <1>0, <1>3, <2>1, OthersKept DEF JobEffect, CostsInv
    <3>2. units'[job[t].unit].cost = units[job[t].unit].cost
      <4>1. CASE UNCHANGED units
        BY <4>1
      <4>2. ASSUME NEW v \in Unit, Surrender(Id[s], v)
            PROVE  units'[job[t].unit].cost = units[job[t].unit].cost
        BY <1>0, <4>2, SurrenderKeeps DEF SameAttempts
      <4> QED
        BY <1>0, <1>3, <2>1, <4>1, <4>2, OthersKept
    <3> QED
      BY <1>0, <1>1, <3>1, <3>2
  <2>2. CASE t = s
    <3> DEFINE u == job[s].unit
    <3>1. /\ job'[s].unit = u
          /\ \/ job[s].at \in {"spawn", "record"} /\ (job'[s].at = job[s].at \/ SpawnMoves(s))
             \/ job[s].at = "launch" /\ job'[s].at = "spawn"
      BY <1>3, <2>2 DEF JobEffect, JobMoves, SpawnMoves, NoJob, Moves, Proceeds, Early, Job,
                        Stage, RunInv, CallsInv, ConductorTypeOK
    <3>2. CASE job[s].at = "launch" /\ job'[s].at = "spawn"
      <4>1. Transition(Id[s], u, "running", "other")
        BY <3>2 DEF Coupled
      <4>2. units[u].state = "assigned"
        <5>1. units[u].state \in State
          BY <1>0 DEF TypeOK, UnitRecord
        <5> QED
          BY <4>1, <5>1 DEF Transition, CanMove, Targets, TERMINAL, State
      <4>3. units'[u].cost = units[u].cost
        BY <1>0, <4>1, TransitionKeeps DEF SameAttempts, State, Reason
      <4>4. Spare(units[u])
        BY <1>0, <4>2 DEF CostsInv
      <4> QED
        BY <1>0, <1>1, <2>2, <3>1, <4>3, <4>4
    <3>3. CASE job[s].at \in {"spawn", "record"}
      <4>1. UNCHANGED units
        BY <3>1, <3>3 DEF Coupled, SpawnMoves
      <4>2. UNCHANGED lease
        BY <3>3 DEF LeaseEffect, At
      <4>3. HasLease(Id[s])
        BY <1>3, <2>2, <4>2 DEF HasLease
      <4>4. Spare(units[u])
        BY <1>0, <3>3, <4>3 DEF CostsInv
      <4> QED
        BY <1>0, <1>1, <2>2, <3>1, <4>1, <4>4
    <3> QED
      BY <3>1, <3>2, <3>3
  <2> QED
    BY <2>1, <2>2
<1>4. ASSUME NEW t \in Sessions, RecordedBy(t)', job'[t].todo # "result"
      PROVE  Spare(units'[job'[t].unit])
  <2> DEFINE u == job[t].unit
  <2>1. /\ job'[t].unit = u /\ job'[t].pid = job[t].pid
        /\ IF t = s THEN JobMoves(s) /\ job'[s] # NoJob ELSE job'[t] = job[t]
        /\ \/ RecordedBy(t)
           \/ t = s /\ At(s, "record") /\ HasLease(Id[s])
    BY <1>4, StillRecorded
  <2>2. Spare(units[u])
    <3>1. CASE RecordedBy(t)
      <4>1. job[t].todo # "result"
        BY <1>4, <2>1, TodoShrinks DEF RecordedBy
      <4> QED
        BY <3>1, <4>1 DEF CostsInv
    <3>2. CASE t = s /\ At(s, "record") /\ HasLease(Id[s])
      BY <3>2 DEF CostsInv, At
    <3> QED
      BY <2>1, <3>1, <3>2
  <2>3. units'[u].cost = units[u].cost
    <3>1. SUFFICES ASSUME units'[u].cost # units[u].cost PROVE FALSE
      OBVIOUS
    <3>2. /\ u = job[s].unit /\ job[s].at \in {"usage", "cancel_usage"} /\ RecordedBy(s)
      BY <1>0, <3>1, UnitCharged
    <3>3. RecordedBy(t)
      BY <2>1, <3>2 DEF At
    <3>4. t = s
      BY <3>2, <3>3 DEF RecordedBy, RunInv, JobsInOrder
    <3>5. job'[s].at \notin {job[s].at, "wait"}
      BY <3>1, <3>2 DEF Coupled
    <3>6. job[s].at = "usage" /\ job'[s].at = "cancel_usage"
      BY <1>4, <2>1, <3>2, <3>4, <3>5 DEF JobMoves, Moves, Proceeds, Early
    <3>7. PICK state \in {"failed", "cancelled"} : Transition(Id[s], u, state, "other")
      BY <3>2, <3>6 DEF Coupled
    <3> QED
      BY <1>0, <3>1, <3>7, TransitionKeeps DEF SameAttempts, State, Reason
  <2> QED
    BY <1>0, <1>1, <2>1, <2>2, <2>3
<1> QED
  <2>1. /\ \A u \in Unit : /\ Spare(units[u])' <=> Spare(units'[u])
                           /\ Chargeable(units[u])' = Chargeable(units'[u])
        /\ \A t \in Sessions : Spare(units[job[t].unit])' <=> Spare(units'[job'[t].unit])
    BY DEF Spare, Chargeable
  <2> QED
    BY <1>2, <1>3, <1>4, <2>1 DEF CostsInv

\* A charge that was appended, and is not noted by the session, is one more that
\* the unit is allowed.
LEMMA UnconfirmedCosts ==
  ASSUME CostsAssumed, RunInv, CostsInv, NEW s \in Sessions, UsageUnconfirmed(s),
         JobEffect(s), Effect(s), TypeOK'
  PROVE  CostsInv'
<1>0. /\ Most \in Nat /\ CostLimit \in Nat
      /\ \A v \in Unit : /\ units[v].cost \in Nat /\ units[v].attempts \in Nat
                         /\ units'[v].cost \in Nat /\ units'[v].attempts \in Nat
      /\ \A t \in Sessions : job[t].unit \in Unit
      /\ raises["charged"] \in Nat /\ raises'["charged"] = raises["charged"] + 1
  <2>1. \A unit \in UnitRecord : unit.cost \in Nat /\ unit.attempts \in Nat
    BY BoundAssumption DEF UnitRecord
  <2>2. \A j \in Job : j.unit \in Unit
    BY DEF Job
  <2>3. raises' = [raises EXCEPT !["charged"] = @ + 1]
    BY DEF UsageUnconfirmed, Raised
  <2> QED
    BY <2>1, <2>2, <2>3, MostIsMost, BoundAssumption
       DEF CostsAssumed, RunInv, CallsInv, TypeOK, ConductorTypeOK, Aftermath
<1>1. job[s].at = "usage" /\ UNCHANGED lease /\ job'[s].at = "wait"
  <2>1. Raises(s)
    BY DEF Raises
  <2> QED
    BY <2>1, RaiseMoves DEF UsageUnconfirmed, RecordUsage, At, RunInv
<1>2. ASSUME NEW u \in Unit
      PROVE  /\ units'[u].cost <= units[u].cost + Most
             /\ units'[u].attempts = units[u].attempts
             /\ units'[u].state = "assigned" => units[u].state = "assigned"
             /\ units'[u].cost > CostLimit =>
                  units'[u].state \notin {"assigned", "running", "verifying"}
  <2>1. AttemptsEffect(s, u) /\ StateEffect(s, u)
    BY DEF Effect
  <2>2. /\ units'[u].attempts = units[u].attempts
        /\ units'[u].state = "assigned" => units[u].state = "assigned"
    BY <1>1, <2>1 DEF AttemptsEffect, At
  <2>3. CASE units'[u].cost = units[u].cost
    <3>1. units'[u].cost > CostLimit =>
            units[u].state \notin {"assigned", "running", "verifying"}
      BY <2>3 DEF CostsInv
    <3> QED
      BY <1>0, <1>1, <2>1, <2>2, <2>3, <3>1 DEF StateEffect, SameState, MoveAllowed, At
  <2>4. CASE units'[u].cost # units[u].cost
    BY <2>2, <2>4, UnitCharged
  <2> QED
    BY <2>3, <2>4
<1>3. ASSUME NEW u \in Unit
      PROVE  /\ units'[u].cost <= Most * (units'[u].attempts + raises'["charged"])
             /\ Spare(units[u]) =>
                  units'[u].cost + Most <= Most * (units'[u].attempts + raises'["charged"])
  <2> DEFINE spent == Most * Chargeable(units[u])
  <2>1. /\ Chargeable(units[u]) \in Nat
        /\ units'[u].attempts + raises'["charged"] = Chargeable(units[u]) + 1
    BY <1>0, <1>2 DEF Chargeable
  <2>2. /\ spent \in Nat
        /\ Most * (units'[u].attempts + raises'["charged"]) = spent + Most
    BY <1>0, <2>1, AttemptAllows
  <2>3. units[u].cost <= spent /\ (Spare(units[u]) => units[u].cost + Most <= spent)
    BY DEF CostsInv, Spare
  <2> HIDE DEF spent
  <2> QED
    BY <1>0, <1>2, <2>2, <2>3
<1>4. ASSUME NEW t \in Sessions,
             \/ job'[t].at \in {"spawn", "record"} /\ HasLease(Id[t])'
             \/ RecordedBy(t)' /\ job'[t].todo # "result"
      PROVE  job'[t].unit = job[t].unit /\ Spare(units[job[t].unit])
  <2>1. CASE job'[t].at \in {"spawn", "record"} /\ HasLease(Id[t])'
    <3>1. t # s
      BY <1>1, <2>1
    <3>2. job'[t] = job[t] /\ HasLease(Id[t])
      BY <1>1, <2>1, <3>1 DEF JobEffect, HasLease
    <3> QED
      BY <2>1, <3>2 DEF CostsInv
  <2>2. CASE RecordedBy(t)' /\ job'[t].todo # "result"
    <3>1. /\ job'[t].unit = job[t].unit /\ job'[t].pid = job[t].pid
          /\ IF t = s THEN JobMoves(s) /\ job'[s] # NoJob ELSE job'[t] = job[t]
          /\ RecordedBy(t)
      BY <1>1, <2>2, StillRecorded DEF At
    <3>2. job[t].todo # "result"
      BY <2>2, <3>1, TodoShrinks DEF RecordedBy
    <3> QED
      BY <3>1, <3>2 DEF CostsInv
  <2> QED
    BY <1>4, <2>1, <2>2
<1>5. ASSUME NEW u \in Unit, units'[u].state = "assigned"
      PROVE  Spare(units[u])
  BY <1>2, <1>5 DEF CostsInv
<1>6. \A t \in Sessions : job'[t].unit = job[t].unit => job'[t].unit \in Unit
  BY <1>0
<1> QED
  BY <1>2, <1>3, <1>4, <1>5, <1>6 DEF CostsInv, Spare, Chargeable

LEMMA CostsInductive ==
  ASSUME CostsAssumed
  PROVE  RunInv /\ CostsInv /\ [ConductorNext]_allVars => (RunInv /\ CostsInv)'
<1> SUFFICES ASSUME RunInv, CostsInv, [ConductorNext]_allVars PROVE (RunInv /\ CostsInv)'
  OBVIOUS
<1>1. RunInv' /\ CallsInv
  BY RunInductive DEF RunInv, CostsAssumed
<1>2. ASSUME NEW s \in Sessions, SessionStep(s), UNCHANGED raises \/ Raises(s)
      PROVE  CostsInv'
  <2>1. JobEffect(s) /\ Effect(s) /\ Coupled(s) /\ LeaseEffect(s)
    BY <1>1, <1>2, SessionEffect, SessionMoves, SessionCoupled
  <2>2. TypeOK'
    BY <1>1 DEF RunInv, CallsInv
  <2>3. raises'["charged"] = raises["charged"] \/ UsageUnconfirmed(s)
    BY <1>1, <1>2 DEF Raises, StepRaises, ExitUnconfirmed, Raised, CallsInv,
                      ConductorTypeOK, Aftermath
  <2> QED
    BY <2>1, <2>2, <2>3, SessionCosts, UnconfirmedCosts
<1>3. CASE Aside /\ UNCHANGED raises
  <2>1. ASSUME NEW s \in Sessions, HasLease(Id[s])' PROVE HasLease(Id[s])
    BY <1>1, <1>3, <2>1 DEF Aside, HasLease, RunInv, CallsInv, TypeOK
  <2> QED
    BY <1>1, <1>3, <2>1 DEF Aside, CostsInv, Spare, Chargeable, RecordedBy
<1> QED
  BY <1>1, <1>2, <1>3, StepOrAside

LEMMA CostsInitially == ASSUME CostsAssumed PROVE ConductorInit => CostsInv
<1> SUFFICES ASSUME ConductorInit PROVE CostsInv
  OBVIOUS
<1>1. ASSUME NEW u \in Unit
      PROVE  /\ units[u].cost = 0 /\ units[u].attempts = 0
             /\ units[u].state \in {"pending", "ready"}
  BY DEF ConductorInit, Init, Created, NewUnit, Moved
<1>2. \A s \in Sessions : job[s].at = "idle" /\ job[s].pid = NoPid
  BY DEF ConductorInit, NoJob
<1>3. Most \in Nat /\ CostLimit \in Nat
  BY MostIsMost, BoundAssumption DEF CostsAssumed
<1>4. Most * 0 = 0
  BY <1>3
<1>5. \A u \in Unit : Chargeable(units[u]) = 0
  BY <1>1 DEF ConductorInit, Chargeable, Aftermath
<1> QED
  BY <1>1, <1>2, <1>3, <1>4, <1>5 DEF CostsInv, RecordedBy

\* Each attempt's cost is charged once at most, but for one charge more for every
\* completion that raised with its charge appended, and a cost above the limit
\* stops the unit, for every number of sessions, crashes, exceptions, attempts and
\* charges, as long as no two sessions share an id and no operation stops half
\* way: half of record_usage is a cost that did not stop its unit.
THEOREM CostsChargedOnce == CostsAssumed => (ConductorSpec => []CostsCounted)
<1> SUFFICES ASSUME CostsAssumed PROVE ConductorSpec => []CostsCounted
  OBVIOUS
<1>1. ConductorInit => RunInv /\ CostsInv
  BY RunInitially, CostsInitially
<1>2. RunInv /\ CostsInv /\ [ConductorNext]_allVars => (RunInv /\ CostsInv)'
  BY CostsInductive
<1>3. CostsInv => CostsCounted
  BY MostIsMost DEF CostsInv, CostsCounted, CostsAssumed, Chargeable
<1> QED
  BY <1>1, <1>2, <1>3, PTL DEF ConductorSpec

(**************** What is reviewed was verified in its attempt ***************)

TimelyInv == RunInv /\ TimelyJobs /\ TimelyReviews

\* What a session finds of its unit while it has the lease, no other changes.
LEMMA OthersLeaveUnit ==
  ASSUME OneSessionPerId, RunInv, NEW s \in Sessions, NEW t \in Sessions, t # s,
         LeaseEffect(s), HasLease(Id[t]), RecordedBy(t)
  PROVE  units'[job[t].unit] = units[job[t].unit]
<1>1. HasLease(Id[t])'
  BY LeaseKept
<1>2. ASSUME NEW u \in Unit, Surrender(Id[s], u)
      PROVE  units'[job[t].unit] = units[job[t].unit]
  <2>1. job[t].unit \in Unit /\ TypeOK
    BY DEF RunInv, CallsInv, ConductorTypeOK, Job
  <2>2. Id[s] # Id[t] /\ units[u].process.conductor = Id[s]
    BY <1>2 DEF OneSessionPerId, Surrender
  <2>3. units[job[t].unit].process.conductor = Id[t]
    BY DEF RunInv, ProcessesKnown
  <2> QED
    BY <1>2, <2>1, <2>2, <2>3, SurrenderKeeps
<1> QED
  BY <1>1, <1>2, OthersKept

LEMMA SessionTimely ==
  ASSUME OneSessionPerId, TimelyInv, timely, NEW s \in Sessions, JobEffect(s), Coupled(s),
         LeaseEffect(s)
  PROVE  TimelyJobs'
<1> USE DEF TimelyInv
<1> SUFFICES ASSUME NEW t \in Sessions
             PROVE  LET j == job'[t]
                    IN /\ j.at \notin Early \/ j.at = "spawn" => HasLease(Id[t])'
                       /\ j.at \in {"accept", "reject", "verify"} => StillOurs(t)'
                       /\ j.at = "verify" => HandoffIs(units'[j.unit])
                       /\ j.at \in {"gates", "judge"} =>
                            /\ RecordedBy(t)' /\ units'[j.unit].state = "verifying"
                            /\ HandoffIs(units'[j.unit])
                       /\ j.at = "judge" => units'[j.unit].verified = units'[j.unit].attempts
  BY DEF TimelyJobs
<1>0. TypeOK /\ job[t] \in Job /\ job[t].unit \in Unit /\ JobInOrder(job[t])
  BY DEF RunInv, CallsInv, ConductorTypeOK, Job, JobsInOrder
<1>1. job[t].at \in {"accept", "reject", "verify", "gates", "judge"} =>
        HasLease(Id[t]) /\ RecordedBy(t)
  BY <1>0 DEF TimelyJobs, StillOurs, RecordedBy, JobInOrder, Early
<1>2. CASE t # s
  <2>1. job'[t] = job[t]
    BY <1>2 DEF JobEffect
  <2>2. job[t].at \notin Early \/ job[t].at = "spawn" => HasLease(Id[t])'
    BY LeaseKept DEF TimelyJobs
  <2>3. job[t].at \in {"accept", "reject", "verify", "gates", "judge"} =>
          units'[job[t].unit] = units[job[t].unit]
    BY <1>1, <1>2, OthersLeaveUnit
  <2> QED
    BY <2>1, <2>2, <2>3 DEF TimelyJobs, StillOurs, RecordedBy
<1>3. CASE t = s
  <2> DEFINE j == job[s]  k == job'[s]  u == job[s].unit
  <2>1. k.at \notin Early \/ k.at = "spawn" => HasLease(Id[s])'
    <3>1. k.at \notin Early \/ k.at = "spawn" =>
            \/ j.at \notin Early \/ j.at = "spawn"
            \/ j.at = "launch" /\ k.at = "spawn"
      BY <1>0, <1>3 DEF JobEffect, JobMoves, SpawnMoves, NoJob, Moves, Proceeds, Early
    <3>2. j.at = "launch" /\ k.at = "spawn" => HasLease(Id[s])
      BY DEF Coupled, Transition
    <3> QED
      BY <3>1, <3>2, LeaseKept DEF TimelyJobs
  <2>2. k.at \in {"accept", "reject", "verify", "gates", "judge"} =>
          /\ k.unit = u /\ k.pid = j.pid
          /\ \/ k.at = j.at
             \/ <<j.at, k.at>> \in {<<"result", "accept">>, <<"accept", "verify">>,
                  <<"accept", "reject">>, <<"verify", "gates">>, <<"gates", "judge">>}
    BY <1>0, <1>3 DEF JobEffect, JobMoves, SpawnMoves, NoJob, Moves, Proceeds, Early, Job, Stage
  <2>3. CASE k.at = j.at /\ k.at \in {"accept", "reject", "verify", "gates", "judge"}
    <3>1. UNCHANGED units
      BY <2>3 DEF Coupled
    <3> QED
      BY <1>3, <2>1, <2>2, <2>3, <3>1 DEF TimelyJobs, StillOurs, RecordedBy
  <2>4. CASE j.at = "result" /\ k.at = "accept"
    <3>1. UNCHANGED units
      BY <2>4 DEF Coupled
    <3>2. StillOurs(s)
      BY <2>4 DEF TimelyJobs, RunInv, HeldJobs, Early
    <3> QED
      BY <1>3, <2>1, <2>2, <2>4, <3>1, <3>2 DEF StillOurs
  <2>5. CASE j.at = "accept" /\ k.at \in {"verify", "reject"}
    <3>1. PICK valid : RecordHandoff(Id[s], u, valid) /\ (k.at = "verify" => valid = TRUE)
      BY <2>5 DEF Coupled
    <3>2. /\ units'[u].handoff = [attempt |-> units[u].attempts, valid |-> valid]
          /\ SameState(units'[u], units[u]) /\ units'[u].attempts = units[u].attempts
          /\ units'[u].process = units[u].process
      BY <1>0, <1>3, <3>1, HandoffKeeps
    <3>3. StillOurs(s)
      BY <2>5 DEF TimelyJobs
    <3> QED
      BY <1>3, <2>1, <2>2, <2>5, <3>1, <3>2, <3>3 DEF StillOurs, SameState, HandoffIs
  <2>6. CASE j.at = "verify" /\ k.at = "gates"
    <3>1. Transition(Id[s], u, "verifying", "other")
      BY <2>6 DEF Coupled
    <3>2. SameAttempts(units'[u], units[u]) /\ units'[u].state = "verifying"
      BY <1>0, <1>3, <3>1, TransitionKeeps DEF State, Reason
    <3>3. HandoffIs(units[u]) /\ RecordedBy(s)
      BY <1>1, <1>3, <2>6 DEF TimelyJobs
    <3> QED
      BY <1>3, <2>1, <2>2, <2>6, <3>2, <3>3 DEF SameAttempts, HandoffIs, RecordedBy
  <2>7. CASE j.at = "gates" /\ k.at = "judge"
    <3>1. AnnotateVerification(Id[s], u)
      BY <1>1, <1>3, <2>7 DEF Coupled
    <3>2. /\ units'[u].verified = units[u].attempts
          /\ SameState(units'[u], units[u]) /\ units'[u].attempts = units[u].attempts
          /\ units'[u].process = units[u].process /\ units'[u].handoff = units[u].handoff
      BY <1>0, <1>3, <3>1, VerificationKeeps
    <3>3. HandoffIs(units[u]) /\ RecordedBy(s) /\ units[u].state = "verifying"
      BY <2>7 DEF TimelyJobs
    <3> QED
      BY <1>3, <2>1, <2>2, <2>7, <3>2, <3>3 DEF SameState, HandoffIs, RecordedBy
  <2> QED
    BY <1>3, <2>1, <2>2, <2>3, <2>4, <2>5, <2>6, <2>7
<1> QED
  BY <1>2, <1>3

LEMMA SessionReviews ==
  ASSUME TimelyInv, timely, NEW s \in Sessions, Effect(s), TypeOK'
  PROVE  TimelyReviews'
<1> USE DEF TimelyInv
<1> SUFFICES ASSUME NEW u \in Unit, Reviewed(units'[u])
             PROVE  units'[u].verified = units'[u].attempts /\ HandoffIs(units'[u])
  BY DEF TimelyReviews
<1>1. /\ StateEffect(s, u) /\ AttemptsEffect(s, u) /\ HandoffEffect(s, u)
      /\ VerifiedEffect(s, u)
  BY DEF Effect
<1>2. units'[u].attempts = units[u].attempts
  BY <1>1 DEF AttemptsEffect, Reviewed
<1>3. units'[u].handoff = units[u].handoff
  <2>1. At(s, "accept") /\ u = job[s].unit => units[u].state = "running"
    BY DEF TimelyJobs, StillOurs, At
  <2> QED
    BY <1>1, <2>1 DEF HandoffEffect, Reviewed, SameState
<1>4. units'[u].verified = units[u].verified
  <2>1. At(s, "gates") /\ u = job[s].unit => units[u].state = "verifying"
    BY DEF TimelyJobs, At
  <2> QED
    BY <1>1, <2>1 DEF VerifiedEffect, Reviewed, SameState
<1>5. \/ Reviewed(units[u])
      \/ At(s, "judge") /\ u = job[s].unit
  BY <1>1 DEF StateEffect, MoveAllowed, SameState, Reviewed
<1>6. units[u].verified = units[u].attempts /\ HandoffIs(units[u])
  BY <1>5 DEF TimelyReviews, TimelyJobs, At
<1> QED
  BY <1>2, <1>3, <1>4, <1>6 DEF HandoffIs

LEMMA TimelyInductive ==
  ASSUME OneSessionPerId
  PROVE  TimelyInv /\ [ConductorNext]_allVars => TimelyInv'
<1> SUFFICES ASSUME TimelyInv, [ConductorNext]_allVars PROVE TimelyInv'
  OBVIOUS
<1> USE DEF TimelyInv
<1>1. RunInv' /\ CallsInv
  BY RunInductive DEF RunInv
<1>2. timely' = timely
  BY DEF ConductorNext, allVars
<1>3. ASSUME NEW s \in Sessions, SessionStep(s) PROVE TimelyJobs' /\ TimelyReviews'
  <2>1. JobEffect(s) /\ Effect(s) /\ Coupled(s) /\ LeaseEffect(s) /\ TypeOK'
    BY <1>1, <1>3, SessionEffect, SessionMoves, SessionCoupled DEF RunInv, CallsInv
  <2> QED
    BY <1>2, <2>1, SessionTimely, SessionReviews DEF TimelyJobs, TimelyReviews
<1>4. ASSUME Aside, UNCHANGED lease \/ ClockTick PROVE TimelyJobs' /\ TimelyReviews'
  <2>1. ASSUME timely, NEW s \in Sessions, job[s].at # "idle", HasLease(Id[s])
        PROVE  HasLease(Id[s])'
    <3>1. lease.left \in Nat /\ lease.holder = Id[s] /\ lease.left > 0
      BY <1>1, <2>1, BoundAssumption DEF HasLease, CallsInv, TypeOK
    <3>2. CASE ClockTick
      <4>1. lease.left # 1
        BY <2>1, <3>1, <3>2 DEF ClockTick, At
      <4>2. lease' = [lease EXCEPT !.left = @ - 1]
        BY <3>2 DEF ClockTick, Tick
      <4>3. lease \in [holder : Conductors, left : 0..Ttl]
        BY <1>1 DEF CallsInv, TypeOK
      <4> QED
        BY <3>1, <4>1, <4>2, <4>3 DEF HasLease
    <3> QED
      BY <1>4, <2>1, <3>2 DEF HasLease
  <2> QED
    BY <1>2, <1>4, <2>1
       DEF Aside, TimelyJobs, TimelyReviews, RecordedBy, StillOurs, Early
<1> QED
  BY <1>1, <1>3, <1>4, StepOrAside

LEMMA TimelyInitially == ConductorInit => TimelyInv
<1> SUFFICES ASSUME ConductorInit PROVE TimelyInv
  OBVIOUS
<1>1. \A u \in Unit : units[u].state \in {"pending", "ready"}
  BY DEF ConductorInit, Init, Created, NewUnit, Moved
<1>2. \A s \in Sessions : job[s].at = "idle"
  BY DEF ConductorInit, NoJob
<1> QED
  BY <1>1, <1>2, RunInitially DEF TimelyInv, TimelyJobs, TimelyReviews, Reviewed, Early

\* What is reviewed or merged was verified in its last attempt and left a valid
\* handoff in it, for every number of sessions, crashes and attempts, as long as
\* no two sessions share an id and no lease runs out under a live session.
THEOREM ReviewsAreCurrent == OneSessionPerId => (ConductorSpec => []ReviewedWorkIsCurrent)
<1> SUFFICES ASSUME OneSessionPerId PROVE ConductorSpec => []ReviewedWorkIsCurrent
  OBVIOUS
<1>1. ConductorInit => TimelyInv
  BY TimelyInitially
<1>2. TimelyInv /\ [ConductorNext]_allVars => TimelyInv'
  BY TimelyInductive
<1>3. TimelyInv => ReviewedWorkIsCurrent
  BY DEF TimelyInv, TimelyReviews, ReviewedWorkIsCurrent, Reviewed, HandoffIs
<1> QED
  BY <1>1, <1>2, <1>3, PTL DEF ConductorSpec

\* Nothing is verified before its recorded runner is known to be finished, for
\* every number of sessions, under the same conditions.
THEOREM VerifiedOnlyAfterExit == OneSessionPerId => (ConductorSpec => VerifiedAfterExit)
<1> SUFFICES ASSUME OneSessionPerId PROVE ConductorSpec => VerifiedAfterExit
  OBVIOUS
<1> DEFINE Verified(v) == timely => \A u \in Unit :
             units[u].state = "running" /\ v[u].state = "verifying" => units[u].process.finished
<1>1. ConductorInit => TimelyInv
  BY TimelyInitially
<1>2. TimelyInv /\ [ConductorNext]_allVars => TimelyInv'
  BY TimelyInductive
<1>3. TimelyInv /\ [ConductorNext]_allVars => Verified(units')
  <2> SUFFICES ASSUME TimelyInv, [ConductorNext]_allVars, timely, NEW u \in Unit,
                      units[u].state = "running", units'[u].state = "verifying"
               PROVE  units[u].process.finished
    OBVIOUS
  <2>1. CallsInv
    BY DEF TimelyInv, RunInv
  <2>2. PICK s \in Sessions : SessionStep(s)
    BY <2>1, StepOrAside DEF Aside
  <2>3. StateEffect(s, u)
    BY <2>1, <2>2, SessionEffect DEF Effect
  <2>4. At(s, "verify") /\ u = job[s].unit
    BY <2>3 DEF StateEffect, SameState, MoveAllowed
  <2>5. StillOurs(s) /\ JobInOrder(job[s])
    BY <2>4 DEF TimelyInv, TimelyJobs, RunInv, JobsInOrder, At
  <2>6. RecordedBy(s) /\ job[s].todo = "result"
    BY <2>4, <2>5 DEF StillOurs, JobInOrder, RecordedBy, At, Early
  <2> QED
    BY <2>4, <2>6 DEF TimelyInv, RunInv, ProcessesKnown
<1>4. TimelyInv /\ [ConductorNext]_allVars =>
        [timely => \A u \in Unit :
           units[u].state = "running" /\ units'[u].state = "verifying" =>
             units[u].process.finished]_allVars
  BY <1>3
<1> QED
  BY <1>1, <1>2, <1>4, PTL DEF ConductorSpec, VerifiedAfterExit

=============================================================================
