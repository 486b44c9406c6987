------------------------------ MODULE Conductor ------------------------------
(***************************************************************************)
(* Conductors at work on a run: runs/conductor.py, with the runner         *)
(* processes it starts and the worktrees it creates.                       *)
(*                                                                         *)
(* A session is one process that drives the run (a CLI command, or a       *)
(* program using the Python API) under a conductor id; two sessions may    *)
(* share an id.  A session does one thing at a time.  Each mutation of the *)
(* run is an operation of RunManager, and between two of them anything     *)
(* else may happen: a tick of the lease, another session's step, the death *)
(* of this session.  What the session knows (the runner's handle, what it  *)
(* has recorded) is its job and dies with it; a runner lives on.           *)
(***************************************************************************)
EXTENDS RunManager, FiniteSets

CONSTANTS
  Sessions,
  Id,          \* Id[s]: the conductor id session s runs under
  MaxCrashes,  \* bound: sessions that die in the middle of a job
  MaxRaises,   \* bound: completions that raise
  Timeliness   \* the values `timely` may have

ASSUME SessionAssumption ==
  /\ Id \in [Sessions -> Conductors]
  /\ MaxCrashes \in Nat
  /\ MaxRaises \in Nat
  /\ Timeliness \subseteq BOOLEAN

VARIABLES
  job,       \* job[s]: what session s is in the middle of
  alive,     \* the live runner processes
  spawned,   \* pids used so far
  worktree,  \* worktree[u]: the unit's worktree directory exists
  crashes,
  timely,    \* in this behaviour no lease runs out under a live session
  raises     \* raises[a]: the completions that raised with aftermath a

conductorVars == <<job, alive, spawned, worktree, crashes>>
allVars == <<units, lease, handoffs, plan, job, alive, spawned, worktree, crashes,
             timely, raises>>

Step == {"idle", "route", "load", "create", "workspace", "launch", "spawn", "record",
         "wait", "check", "exit", "guard", "usage", "cancel_usage", "result",
         "accept", "reject", "verify", "gates", "judge", "outcome"}

\* What _complete has not done yet, for a retry of it (_stages).
Stage == {"exit", "guard", "usage", "result"}

Job == [at : Step, unit : Unit, pid : Pids \cup {NoPid}, todo : Stage,
        cancel : {"no", "failed", "cancelled"}]

\* What an exception left behind: a step that the next call repeats, a cost on
\* file that the session has not noted, or a unit that no call takes up again.
Aftermath == {"retried", "charged", "stranded"}

NoJob == [at |-> "idle", unit |-> 1, pid |-> NoPid, todo |-> "exit",
          cancel |-> "no"]

ConductorTypeOK ==
  /\ job \in [Sessions -> Job]
  /\ alive \subseteq [pid : Pids, unit : Unit]
  /\ spawned \in Nat
  /\ worktree \in [Unit -> BOOLEAN]
  /\ crashes \in 0..MaxCrashes
  /\ timely \in BOOLEAN
  /\ raises \in [Aftermath -> Nat]

\* The steps of _complete that touch the unit for the runner waited for.
Completing == {"exit", "guard", "usage", "result", "accept", "reject", "verify",
               "gates", "judge"}

At(s, step) == job[s].at = step
Goto(s, step) == job' = [job EXCEPT ![s].at = step]
Proceed(s, stage) == job' = [job EXCEPT ![s].at = stage, ![s].todo = stage]
Done(s) == job' = [job EXCEPT ![s] = NoJob]

\* wait_unit returned with the handle kept: the caller waits again, or gives up.
Again(s) == Goto(s, "wait") \/ Done(s)

OnlyJob == UNCHANGED <<alive, spawned, worktree, crashes>>
RunUnchanged == UNCHANGED <<units, lease, handoffs, plan>>

CanTransition(c, u, state) == HasLease(c) /\ CanMove(u, state)

\* The unit is moved without asking whether the lease is still held.
TryTransitionUnleased(c, u, state) ==
  /\ units' = IF CanMove(u, state)
              THEN [units EXCEPT ![u] = Moved(@, state, "other")] ELSE units
  /\ UNCHANGED <<lease, handoffs, plan>>

\* A transition whose refusal the caller does not look at.
TryTransition(c, u, state) ==
  IF CanTransition(c, u, state) THEN Transition(c, u, state, "other")
  ELSE RunUnchanged

(***************************** start_unit **********************************)

Begin(s, u, step) ==
  job' = [job EXCEPT ![s] = [NoJob EXCEPT !.at = step, !.unit = u]]

\* execute_dispatch: assign_unit, then start_unit unless the routing it chose
\* is not the one the operator confirmed.
Dispatch(s, u, w, t) ==
  /\ At(s, "idle")
  /\ Assign(Id[s], u, w, t)
  /\ IF units'[u].state = "assigned" THEN Begin(s, u, "route") ELSE Done(s)
  /\ OnlyJob

RoutingConfirmed(s) ==
  /\ At(s, "route")
  /\ Goto(s, "load")
  /\ OnlyJob /\ RunUnchanged

RoutingChanged(s) ==
  /\ At(s, "route")
  /\ TryTransition(Id[s], job[s].unit, "needs_user")
  /\ Done(s)
  /\ OnlyJob

\* start_unit of a unit assigned earlier, by reassign_unit or before a crash.
StartAssigned(s, u) ==
  /\ At(s, "idle")
  /\ units[u].state = "assigned"
  /\ Begin(s, u, "load")
  /\ OnlyJob /\ RunUnchanged

LoadAssigned(s) ==
  LET u == job[s].unit
  IN /\ At(s, "load")
     /\ IF units[u].state # "assigned" THEN Done(s)
        ELSE Goto(s, IF worktree[u] THEN "launch" ELSE "create")
     /\ OnlyJob /\ RunUnchanged

\* WorktreeManager.create, which refuses an existing path.
CreateWorktree(s) ==
  LET u == job[s].unit
  IN /\ At(s, "create")
     /\ IF worktree[u] THEN Done(s) /\ UNCHANGED worktree
        ELSE Goto(s, "workspace") /\ worktree' = [worktree EXCEPT ![u] = TRUE]
     /\ UNCHANGED <<alive, spawned, crashes>> /\ RunUnchanged

KeepWorkspace(s) ==
  /\ At(s, "workspace")
  /\ IF HasLease(Id[s])
     THEN RecordWorkspace(Id[s], job[s].unit) /\ Goto(s, "launch")
     ELSE RunUnchanged /\ Done(s)
  /\ OnlyJob

\* The shared git state is snapshot (or that fails), then the unit runs.
Launch(s) ==
  /\ At(s, "launch")
  /\ \/ Transition(Id[s], job[s].unit, "running", "other") /\ Goto(s, "spawn")
     \/ RunUnchanged /\ Done(s)
  /\ OnlyJob

Spawn(s) ==
  LET runner == [pid |-> spawned + 1, unit |-> job[s].unit]
  IN /\ At(s, "spawn")
     /\ runner.pid \in Pids
     /\ spawned' = runner.pid
     /\ alive' = alive \cup {runner}
     /\ job' = [job EXCEPT ![s].at = "record", ![s].pid = runner.pid]
     /\ UNCHANGED <<worktree, crashes>> /\ RunUnchanged

SpawnFails(s) ==
  /\ At(s, "spawn")
  /\ TryTransition(Id[s], job[s].unit, "failed")
  /\ Done(s)
  /\ OnlyJob

\* The process is never recorded.
RecordPidForgotten(s) ==
  /\ At(s, "record")
  /\ Goto(s, "wait")
  /\ OnlyJob /\ RunUnchanged

\* The unit runs on when record_process is refused.
RecordPid(s) ==
  /\ At(s, "record")
  /\ IF HasLease(Id[s]) THEN RecordProcess(Id[s], job[s].unit, job[s].pid)
     ELSE RunUnchanged
  /\ Goto(s, "wait")
  /\ OnlyJob

(****************************** wait_unit **********************************)

\* _keep_lease: renew, or take back a lease that ran out unclaimed.
KeepLease(c) ==
  IF HasLease(c) THEN RenewLease(c) ELSE AcquireLease(c)

\* Renewals while waiting for the runner, and the heartbeat of the handoff
\* repair, the skills pass and the gates.
Heartbeat(s) ==
  /\ job[s].at \in {"wait", "accept", "verify", "gates"}
  /\ KeepLease(Id[s])
  /\ UNCHANGED job /\ OnlyJob

\* Another conductor holds the lease: the unit is surrendered, and the handle
\* kept if that is refused.
LoseLease(s) ==
  LET u == job[s].unit
  IN /\ At(s, "wait")
     /\ Blocked(Id[s])
     /\ IF units[u].process.conductor = Id[s] /\ units[u].state \in IN_FLIGHT
        THEN Surrender(Id[s], u) /\ Done(s) ELSE RunUnchanged /\ Again(s)
     /\ OnlyJob

RunnerOf(s) == [pid |-> job[s].pid, unit |-> job[s].unit]

\* cancel_unit with a handle on a live runner: the runner is stopped, and
\* wait_unit follows.
Cancel(s, target) ==
  /\ At(s, "wait")
  /\ RunnerOf(s) \in alive
  /\ alive' = alive \ {RunnerOf(s)}
  /\ job' = [job EXCEPT ![s].cancel = target]
  /\ UNCHANGED <<spawned, worktree, crashes>> /\ RunUnchanged

\* A timeout of the wait is taken for the runner's exit.
ReapEarly(s) ==
  /\ At(s, "wait")
  /\ KeepLease(Id[s])
  /\ Goto(s, "check")
  /\ OnlyJob

\* The runner is gone, and the lease was made sure of.
Reap(s) ==
  /\ At(s, "wait")
  /\ RunnerOf(s) \notin alive
  /\ KeepLease(Id[s])
  /\ Goto(s, "check")
  /\ OnlyJob

(****************************** _complete **********************************)

StillOurs(s) ==
  LET unit == units[job[s].unit]
  IN unit.state = "running" /\ unit.process.pid = job[s].pid

Check(s) ==
  /\ At(s, "check")
  /\ IF StillOurs(s) THEN Goto(s, job[s].todo) ELSE Done(s)
  /\ OnlyJob /\ RunUnchanged

\* The exit is not recorded.
RecordExitSkipped(s) ==
  /\ At(s, "exit")
  /\ Proceed(s, "guard")
  /\ OnlyJob /\ RunUnchanged

RecordExit(s) ==
  /\ At(s, "exit")
  /\ IF HasLease(Id[s])
     THEN RecordProcessExit(Id[s], job[s].unit) /\ Proceed(s, "guard")
     ELSE RunUnchanged /\ Again(s)
  /\ OnlyJob

GitStateUnchanged(s) ==
  /\ At(s, "guard")
  /\ Proceed(s, "usage")
  /\ OnlyJob /\ RunUnchanged

GitStateChanged(s) ==
  LET u == job[s].unit
  IN /\ At(s, "guard")
     /\ IF CanTransition(Id[s], u, "needs_user")
        THEN Transition(Id[s], u, "needs_user", "other") /\ Done(s)
        ELSE RunUnchanged /\ Again(s)
     /\ OnlyJob

\* A cancelled runner: the unit ends where the caller of cancel_unit said.
Cancelled(s) ==
  LET u == job[s].unit
  IN /\ At(s, "usage") /\ job[s].cancel # "no"
     /\ IF CanTransition(Id[s], u, job[s].cancel)
        THEN Transition(Id[s], u, job[s].cancel, "other") /\ Goto(s, "cancel_usage")
        ELSE RunUnchanged /\ Again(s)
     /\ OnlyJob

CancelledUsage(s) ==
  /\ At(s, "cancel_usage")
  /\ IF HasLease(Id[s]) THEN \E x \in Charges : RecordUsage(Id[s], job[s].unit, x)
     ELSE RunUnchanged
  /\ Done(s)
  /\ OnlyJob

\* A retry does not know that the usage was recorded.
UsageAgain(s) ==
  LET u == job[s].unit
  IN /\ At(s, "usage") /\ job[s].cancel = "no"
     /\ IF HasLease(Id[s])
        THEN /\ \E x \in Charges : RecordUsage(Id[s], u, x)
             /\ IF units'[u].cost > CostLimit THEN Done(s) ELSE Goto(s, "result")
        ELSE RunUnchanged /\ Done(s)
     /\ OnlyJob

\* A refused record_usage ends the job, the unit still running.
Usage(s) ==
  LET u == job[s].unit
  IN /\ At(s, "usage") /\ job[s].cancel = "no"
     /\ IF HasLease(Id[s])
        THEN /\ \E x \in Charges : RecordUsage(Id[s], u, x)
             /\ IF units'[u].cost > CostLimit THEN Done(s)
                ELSE Proceed(s, "result")
        ELSE RunUnchanged /\ Done(s)
     /\ OnlyJob

RunnerSucceeded(s) ==
  /\ At(s, "result")
  /\ Goto(s, "accept")
  /\ OnlyJob /\ RunUnchanged

RunnerFailed(s) ==
  LET u == job[s].unit
  IN /\ At(s, "result")
     /\ IF CanTransition(Id[s], u, "failed")
        THEN Transition(Id[s], u, "failed", "other") /\ Goto(s, "outcome")
        ELSE RunUnchanged /\ Again(s)
     /\ OnlyJob

\* _stop_runner: a failure that retrying cannot fix.
RunnerStopped(s) ==
  /\ At(s, "result")
  /\ TryTransition(Id[s], job[s].unit, "needs_user")
  /\ Done(s)
  /\ OnlyJob

(*************************** _accept_handoff *******************************)

\* The worktree's head is read from the recorded workspace: without one the
\* call raises, and keeps the handle.
NoWorkspace(s) ==
  /\ At(s, "accept")
  /\ ~units[job[s].unit].workspace
  /\ Again(s)
  /\ OnlyJob /\ RunUnchanged

HandoffMissing(s) ==
  /\ At(s, "accept")
  /\ units[job[s].unit].workspace
  /\ TryTransition(Id[s], job[s].unit, "failed")
  /\ Goto(s, "outcome")
  /\ OnlyJob

AcceptHandoff(s, valid) ==
  LET u == job[s].unit
  IN /\ At(s, "accept")
     /\ units[u].workspace
     /\ IF HasLease(Id[s])
        THEN RecordHandoff(Id[s], u, valid) /\ Goto(s, IF valid THEN "verify" ELSE "reject")
        ELSE RunUnchanged /\ Again(s)
     /\ OnlyJob

Reject(s) ==
  LET u == job[s].unit
  IN /\ At(s, "reject")
     /\ \/ TryTransition(Id[s], u, "needs_user") /\ Done(s)
        \/ TryTransition(Id[s], u, "failed") /\ Goto(s, "outcome")
     /\ OnlyJob

(******************************* _verify ***********************************)

Verify(s) ==
  LET u == job[s].unit
  IN /\ At(s, "verify")
     /\ IF CanTransition(Id[s], u, "verifying")
        THEN Transition(Id[s], u, "verifying", "other") /\ Goto(s, "gates")
        ELSE RunUnchanged /\ Done(s)
     /\ OnlyJob

WorkUncommitted(s) ==
  /\ At(s, "gates")
  /\ TryTransition(Id[s], job[s].unit, "failed")
  /\ Goto(s, "outcome")
  /\ OnlyJob

\* The verification is recorded, whatever it found and whether or not the
\* record was refused.
GatesRan(s) ==
  /\ At(s, "gates")
  /\ IF HasLease(Id[s]) THEN AnnotateVerification(Id[s], job[s].unit)
     ELSE RunUnchanged
  /\ Goto(s, "judge")
  /\ OnlyJob

Judge(s) ==
  LET u == job[s].unit
  IN /\ At(s, "judge")
     /\ \/ TryTransition(Id[s], u, "reviewing") /\ Done(s)
        \/ TryTransition(Id[s], u, "needs_user") /\ Done(s)
        \/ TryTransition(Id[s], u, "failed") /\ Goto(s, "outcome")
     /\ OnlyJob

\* _record_outcome of a failed attempt: nothing, a stop, or a retry.
Outcome(s) ==
  LET u == job[s].unit
  IN /\ At(s, "outcome")
     /\ \/ RunUnchanged
        \/ TryTransition(Id[s], u, "needs_user")
        \/ units[u].state = "failed" /\ TryTransition(Id[s], u, "ready")
     /\ Done(s)
     /\ OnlyJob

(************************ A completion that raises *************************)

\* wait_unit catches TRANSIENT_ERRORS and keeps the handle, and so does any
\* other exception on its way to the caller, who calls again (or gives up: its
\* session dies then).  What was written before the exception stays written.
Raised(s, aftermath) ==
  /\ raises["retried"] + raises["charged"] + raises["stranded"] < MaxRaises
  /\ raises' = [raises EXCEPT ![aftermath] = @ + 1]
  /\ Goto(s, "wait")
  /\ OnlyJob

\* A step raised before it wrote anything, or after a write that no stage
\* stands for.
StepRaises(s) ==
  /\ job[s].at \in Completing \cup {"check", "cancel_usage", "outcome"}
  /\ Raised(s, IF job[s].at \in {"gates", "judge"} THEN "stranded" ELSE "retried")
  /\ RunUnchanged

\* record_process_exit and record_usage append their event, and then cannot
\* save the run: the stage is not marked, so that the next call does it again.
ExitUnconfirmed(s) ==
  /\ At(s, "exit")
  /\ RecordProcessExit(Id[s], job[s].unit)
  /\ Raised(s, "retried")

UsageUnconfirmed(s) ==
  /\ At(s, "usage") /\ job[s].cancel = "no"
  /\ \E x \in Charges : RecordUsage(Id[s], job[s].unit, x)
  /\ Raised(s, "charged")

Raises(s) == StepRaises(s) \/ ExitUnconfirmed(s) \/ UsageUnconfirmed(s)

(***************************** Idle sessions *******************************)

TakeLease(s) ==
  /\ At(s, "idle")
  /\ AcquireLease(Id[s])
  /\ UNCHANGED conductorVars

\* What the liveness check sees of the recorded process.
Observed(u) ==
  LET proc == units[u].process
  IN IF proc.pid = NoPid \/ proc.finished THEN {"dead"}
     ELSE IF [pid |-> proc.pid, unit |-> u] \in alive THEN {"alive", "unverified"}
     ELSE {"dead", "unverified"}

ResumeRun(s, status) ==
  /\ At(s, "idle")
  /\ \A u \in Unit : status[u] \in Observed(u)
  /\ Resume(Id[s], status)
  /\ UNCHANGED conductorVars

\* The next move for a unit that stopped: the drive's for an interrupted or
\* blocked one, the owner's otherwise.  An owner asked to confirm that the
\* recorded process is gone (verify_worker_process) does so first.
Retry(s, u) ==
  /\ At(s, "idle")
  /\ units[u].state \in {"needs_user", "failed", "blocked", "interrupted"}
  /\ units[u].state = "needs_user" =>
       [pid |-> units[u].process.pid, unit |-> u] \notin alive
  /\ Transition(Id[s], u, "ready", "other")
  /\ UNCHANGED conductorVars

\* Any unit that once was verified goes back to its review.
ReopenReviewAnyReason(s, u) ==
  /\ At(s, "idle")
  /\ units[u].state = "needs_user"
  /\ units[u].verified > 0
  /\ Transition(Id[s], u, "reviewing", "other")
  /\ UNCHANGED conductorVars

\* A review that stalled is reopened when a verification is on file.
ReopenReview(s, u) ==
  /\ At(s, "idle")
  /\ units[u].state = "needs_user" /\ units[u].reason = "review_stall"
  /\ units[u].verified > 0
  /\ Transition(Id[s], u, "reviewing", "other")
  /\ UNCHANGED conductorVars

ReassignStopped(s, u, w, t) ==
  /\ At(s, "idle")
  /\ Reassign(Id[s], u, w, t)
  /\ UNCHANGED conductorVars

\* cancel_unit in a session that has no handle on the runner.
CancelWithoutHandle(s, u, target) ==
  /\ At(s, "idle")
  /\ Transition(Id[s], u, target, "other")
  /\ UNCHANGED conductorVars

\* The review and the merge queue, in their own modules: what they do to the
\* unit.
ReviewOrMerge(s, u) ==
  /\ At(s, "idle")
  /\ \/ /\ units[u].state = "reviewing"
        /\ \/ Transition(Id[s], u, "needs_user", "review_stall")
           \/ \E state \in {"ready", "failed", "needs_user", "queued_for_merge"} :
                Transition(Id[s], u, state, "other")
     \/ /\ units[u].state = "queued_for_merge"
        /\ \E state \in {"merged", "blocked", "failed"} :
             Transition(Id[s], u, state, "other")
  /\ UNCHANGED conductorVars

(************************ Processes and the clock **************************)

RunnerExits(runner) ==
  /\ runner \in alive
  /\ alive' = alive \ {runner}
  /\ UNCHANGED <<job, spawned, worktree, crashes>> /\ RunUnchanged

Crash(s) ==
  /\ ~At(s, "idle")
  /\ crashes < MaxCrashes
  /\ crashes' = crashes + 1
  /\ Done(s)
  /\ UNCHANGED <<alive, spawned, worktree>> /\ RunUnchanged

\* The lease's life is some hundred times the renewal interval, so a live
\* session lets it run out only when it is stopped between two calls (the
\* machine sleeps, a file system hangs).
ClockTick ==
  /\ Tick
  /\ timely /\ lease.left = 1 =>
       \A s \in Sessions : Id[s] = lease.holder => At(s, "idle")
  /\ UNCHANGED conductorVars

(**************************** The specification ****************************)

ConductorInit ==
  /\ Init
  /\ job = [s \in Sessions |-> NoJob]
  /\ alive = {} /\ spawned = 0 /\ crashes = 0
  /\ worktree = [u \in Unit |-> FALSE]
  /\ timely \in Timeliness
  /\ raises = [aftermath \in Aftermath |-> 0]

StartStep(s) ==
  \/ RoutingConfirmed(s) \/ RoutingChanged(s)
  \/ LoadAssigned(s) \/ CreateWorktree(s) \/ KeepWorkspace(s) \/ Launch(s)
  \/ Spawn(s) \/ SpawnFails(s) \/ RecordPid(s)

WaitStep(s) ==
  \/ Heartbeat(s) \/ LoseLease(s) \/ Reap(s)
  \/ \E target \in {"failed", "cancelled"} : Cancel(s, target)

CompleteStep(s) ==
  \/ Check(s) \/ RecordExit(s) \/ GitStateUnchanged(s) \/ GitStateChanged(s)
  \/ Cancelled(s) \/ CancelledUsage(s) \/ Usage(s)
  \/ RunnerSucceeded(s) \/ RunnerFailed(s) \/ RunnerStopped(s)
  \/ NoWorkspace(s) \/ HandoffMissing(s) \/ Reject(s)
  \/ \E valid \in BOOLEAN : AcceptHandoff(s, valid)
  \/ Verify(s) \/ WorkUncommitted(s) \/ GatesRan(s) \/ Judge(s) \/ Outcome(s)

IdleStep(s) ==
  \/ TakeLease(s)
  \/ \E status \in [Unit -> Liveness] : ResumeRun(s, status)
  \/ \E u \in Unit :
       \/ StartAssigned(s, u) \/ Retry(s, u) \/ ReopenReview(s, u) \/ ReviewOrMerge(s, u)
       \/ \E w \in Workers, t \in Tiers \cup {NoTier} :
            Dispatch(s, u, w, t) \/ ReassignStopped(s, u, w, t)
       \/ \E target \in {"failed", "cancelled"} : CancelWithoutHandle(s, u, target)

RegularStep ==
  \/ \E s \in Sessions :
       StartStep(s) \/ WaitStep(s) \/ CompleteStep(s) \/ IdleStep(s) \/ Crash(s)
  \/ \E runner \in alive : RunnerExits(runner)
  \/ ClockTick

ConductorNext ==
  /\ \/ RegularStep /\ UNCHANGED raises
     \/ \E s \in Sessions : Raises(s)
  /\ UNCHANGED timely

ConductorSpec == ConductorInit /\ [][ConductorNext]_allVars

\* A session that is in the middle of a job goes on with it, and a runner
\* exits: it finishes, or its health checks or its time limit end it.
\* Nothing says that anybody dispatches, resumes or retries, nor that a
\* completion raises.
Fairness ==
  /\ \A s \in Sessions :
       /\ WF_allVars(StartStep(s) /\ UNCHANGED <<timely, raises>>)
       /\ WF_allVars(Reap(s) /\ UNCHANGED <<timely, raises>>)
       /\ WF_allVars(CompleteStep(s) /\ UNCHANGED <<timely, raises>>)
  /\ WF_allVars((\E runner \in alive : RunnerExits(runner)) /\ UNCHANGED <<timely, raises>>)

FairConductorSpec == ConductorSpec /\ Fairness

(****************************** Properties *********************************)

\* Every step of a conductor is a step of RunManager's specification: whatever
\* the interleaving of its sessions, their deaths and the lease's expiry, the
\* calls they make are calls RunManager's theorems hold for.
ManagerSpec == Spec

\* A process record marked finished never belongs to a live runner, although
\* the record is read, the runner reaped and the record written in separate
\* calls: resume relies on it to call such a unit's runner dead (_complete).
FinishedMeansExited ==
  \A u \in Unit : units[u].process.finished =>
    [pid |-> units[u].process.pid, unit |-> u] \notin alive

\* Whatever reaches the review was verified in its last attempt, not in an
\* earlier one, and left a valid handoff in that attempt, when the attempt is
\* retried, given to another worker or conductor, or its review is reopened
\* (_accept_handoff, _verify, execute_resume).  Not so when a lease ran out
\* under a live session: CompletionTouchesOurs.
ReviewedWorkIsCurrent ==
  timely => \A u \in Unit : units[u].state \in {"reviewing", "queued_for_merge", "merged"} =>
    /\ units[u].verified = units[u].attempts
    /\ units[u].handoff = [attempt |-> units[u].attempts, valid |-> TRUE]

\* Nothing is verified while its recorded runner is not known to be finished
\* ("record_process_exit marks the process record finished before anything
\* else happens", docs/runtime.md), with the same exception.
VerifiedAfterExit ==
  [][timely => \A u \in Unit :
       units[u].state = "running" /\ units'[u].state = "verifying" =>
         units[u].process.finished]_allVars

\* A runner's cost is recorded once: a completion retried after a refusal or an
\* exception does not charge it again ("Completed steps ... are not repeated",
\* docs/runtime.md), unless the exception left record_usage with its event
\* appended: each such one adds a charge.
\* And once it is too much it stops the unit's work: no retry, takeover or grant
\* begins another attempt.  Each attempt has one runner, which reports one of
\* Charges.
CostsCounted ==
  \A u \in Unit :
    /\ \E most \in Charges \cup {0} :
         /\ \A x \in Charges : x <= most
         /\ units[u].cost <= most * (units[u].attempts + raises["charged"])
    /\ units[u].cost > CostLimit => units[u].state \notin {"assigned", "running", "verifying"}

\* "Expired but unclaimed: taking it back is safe, and completion re-checks
\* that the unit is still ours before touching it" (_keep_lease): what a session
\* changes of a unit it completes belongs to the runner it waited for.
CompletionTouchesOurs ==
  [][\A s \in Sessions :
       LET u == job[s].unit
       IN job[s].at \in Completing /\ job'[s] # job[s] /\ units'[u] # units[u] =>
            units[u].process.pid = job[s].pid]_allVars

\* An attempt that was begun is judged: a unit whose worktree is on file does
\* not stay running or verifying for ever (wait_unit, _complete).  One whose
\* worktree is not, because record_workspace was refused, does: NoWorkspace.
\* Nor is it said of an attempt whose session died: resume is for that.  An
\* exception before the unit is `verifying` is made up for by the next call.
\* One after it is not: _complete asks for a running unit, so the next call
\* forgets the handle and the unit stays verifying.
AttemptJudged ==
  [](timely /\ crashes = 0 /\ raises["stranded"] = 0) =>
    \A u \in Unit :
      units[u].state \in {"running", "verifying"} /\ units[u].workspace ~>
        units[u].state \notin {"running", "verifying"}

\* "parallel workers never share a checkout" (docs/runtime.md): a unit's
\* worktree has one live runner.
NoSharedCheckout == \A r, q \in alive : r.unit = q.unit => r = q

==============================================================================
