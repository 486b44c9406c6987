# Verification of the ECC orchestrator

TLA+ models of `src/src/openclaw_ecc_orchestrator`, the program that drives a plan of
work units through coding agents: it keeps a durable run, starts runners in
worktrees, verifies and reviews what they leave behind, and merges it. File names
below are relative to that package.

## The system

A *run* is a plan of *units* with dependencies. One *conductor* at a time holds the
run's lease and moves its units: assign, run, verify, review, queue, merge. Runs are
files; conductors are processes (CLI commands, the drive, programs using the API)
that come and go. Nothing but the files connects them.

| component | code | state | operations | what makes it hard |
|---|---|---|---|---|
| run store | `runs/store.py`, `runs/fsutil.py` | `run.json`, `events.jsonl`, a lock file per run | create, append, save, load | crashes between and inside writes, torn lines, two processes |
| run manager | `runs/manager.py`, `runs/state.py` | the run document: units, lease, handoffs, plan | 20 mutations under lock and lease | half-written transactions, lease expiry, long legal sequences |
| conductor | `runs/conductor.py` | handles on runners, stages of a completion (memory only) | start, wait, complete, verify, cancel, review, queue | many run mutations per operation, with anything in between; death of the process |
| an attempt's work | `runs/conductor.py`, `runs/repair.py`, `gates/runner.py` | branch, worktree, handoff, verification, last failure | sync, run, repair, skills, gates, judge | several agents' turns between what is read and what is judged |
| supervisor, health | `process/` | one runner process, its group and threads | start, cancel, wait, sample | exit, timeout, cancel and health failure race |
| runner certification | `runners/probes.py`, `runners/base.py`, `runners/cli_adapters.py` | outcomes of the steps, threads, a trial's process group | probe, cancel, certify | late threads, processes that ignore SIGTERM, exits at any moment |
| liveness | `runs/liveness.py` | none | is the recorded process alive, dead, unverified | reused pids, missing records |
| worktrees | `worktrees/manager.py` | one directory and branch per unit, archives | create, inspect, archive, remove | leftovers of a crash, work that is nowhere else |
| shared git state | `worktrees/guard.py` | baselines of refs and config | compare, advance | runners, owner and merges move the same refs |
| plan analysis | `runs/dag.py` | none | cycles, waves | a pure algorithm |
| dispatcher | `merge_queue/dispatch.py` | none | refuse a unit whose scope overlaps one at work | checked at assignment only |
| merge queue | `merge_queue/queue.py` | queue file, target branch | enqueue, process the next | crash between git, queue and run; a target that moves |
| approvals | `plugin/approvals.py` | requests file | request, resolve, use, consume, expire | single use, binding to a commit, late and repeated decisions |
| decision inbox | `plugin/inbox.py`, `cli/inbox_processor.py` | decision files | apply once | at-least-once processing |
| routing | `routing/classify.py`, `routing/selection.py` | none | classify, select, required review | floors that nothing may lower |
| escalation | `routing/escalation.py` | tier, history (memory, replayed from the run) | next action, record an attempt | memory and run disagree |
| drive | `team/drive.py`, `team/plan_check.py` | healing counts, reports, plan check | loop, heal, close | it must stop, and not retry for ever |
| team review | `team/review.py` | reviews and verdicts | review, verify, approve | stale verdicts |
| learning loop | `team/learning.py` | lessons, passes | append, take a pass, land it | death between landing and recording |
| command line | `cli/` | review records | plan, approve, lease, plan again, execute | two invocations under one conductor id |
| notification plugin | `plugin/events.py`, `integrations/openclaw-plugin` | event file, cursor, view | emit, tail, fold, answer | rotation, redelivery, emission out of order |

Interactions: the CLI and the drive call a `Conductor`; it calls `RunManager` for
every change of the run, the supervisor for runners, the worktree manager and the
guard, and for review and merge the approval broker and the merge queue. The dispatcher
is a guard passed to `assign_unit`; the escalation controller is asked after every
attempt. The inbox resolves approvals. The plugin reads emitted events and writes
decision files. `PROJECT.json` lists every component with what is and is not modelled,
and under `hazards` what is hard to test, at the line where it bites.

What makes each one correct:

* store: what is loaded is always a history of whole events, none lost, doubled or
  reordered, whatever died where;
* manager: nothing begins before its dependencies are merged; units and runs change
  hands only with a record; budgets bound attempts and cost;
* conductor: one runner per worktree; what is reviewed finished, handed off and was
  verified in its last attempt; costs are charged once; what was begun is judged;
* an attempt's work: what goes to review is the very commit that passed, and the next
  attempt is told why the last one failed;
* supervisor and health: one result, true, with nothing of the group left, and it comes;
  a busy process is never called hung;
* certification: a certificate says only what was seen, by threads that are done, and
  nothing of the cancelled program is left;
* worktrees and guard: no work is lost; a unit answers for its own changes only;
* plan and dispatcher: the analysis is right, and units at work do not overlap;
* approvals and inbox: a request is decided once and used once; a decision file has one
  consumer, and its recorded answer is true;
* merge queue: one merge at a time, of exactly the approved commit; the queue, the
  approvals, the target branch and the run agree;
* routing, escalation, review: a stricter part makes a stricter whole, a tier is earned by
  failures, a restart changes no decision, and what is queued was reviewed as required;
* drive, commands and learning: an end, caps that hold, records that are used once, grants
  that add up, lessons that are taken once;
* notifications: what is shown is what the log says.

## Modules

| module | models |
|---|---|
| `UnitState` | `runs/state.py`: states and transitions |
| `RunManager` | `runs/manager.py`: one action per mutation of the run document |
| `Conductor` | `runs/conductor.py`: sessions, runners and worktrees; every change of the run is an action of `RunManager`, which it extends |
| `AttemptWork` | one unit's branch, worktree, handoff, gates and failures through `Conductor`'s steps |
| `RunStore` | `runs/store.py`, `runs/fsutil.py`, `_mutate`, `_load_unlocked`, `create_run`, `_replace_run`: the file operations below one mutation |
| `EventLog` | no code: what a run store promises. `RunStore` implements it |
| `Health`, `Supervisor` | `process/health.py`; `process/supervisor.py`, which extends it |
| `Certification` | `runners/probes.py`, the threads and the cancellation of `runners/base.py`, the retries of `runners/cli_adapters.py` |
| `Worktrees` | `worktrees/manager.py`: creation, inspection, archive and cleanup |
| `SharedGitState` | `worktrees/guard.py` and the conductor's use of it |
| `Scopes` | `tasks/scope.py`, overlap in `merge_queue/conflicts.py` and `runs/plan_lint.py` |
| `PlanAnalysis` | `runs/dag.py`, one step per iteration of its loops |
| `Dispatch` | `merge_queue/dispatch.py` on a plan that `PlanAnalysis`, which it extends, let through |
| `ApprovalBroker` | `plugin/approvals.py`, `plugin/inbox.py`, `cli/inbox_processor.py`: requests, decisions and the consumers of decision files |
| `MergeQueue` | `merge_queue/queue.py`, `record_review`, `enqueue_merge` and `process_merge_queue`; extends `ApprovalBroker` and composes it with the queue, the branches and the units |
| `ApprovedTarget` | no code: what queue and approvals promise together. `MergeQueue` implements it |
| `Routing` | `routing/classify.py`, `routing/selection.py`, the profiles of `runners/registry.py`, the panels of `team/config.py`: operators |
| `TeamReview` | `team/review.py` with `Routing`, which it extends |
| `Escalation`, `EscalatedUnit` | the controller of `routing/escalation.py` as operators; its life with a unit, restarts and grants |
| `Drive` | `team/drive.py`, `team/plan_check.py`: the loop, healing, the milestone's start and end |
| `Steward` | `team/learning.py`: lessons and the passes that take them |
| `GatedCommands` | `cli/main.py`, `cli/reviews.py`, the gated commands of `cli/commands.py`, and the drive as one more of them |
| `Notifications` | `plugin/events.py` and the plugin's `tailer.js`, `state.js`, `engine.js`, `decision.js` |
| `RunManager_proofs`, `Conductor_proofs`, `MergeQueue_proofs`, `Progress_proofs`, `Attempt_proofs`, `Planning_proofs`, `Operator_proofs` | theorems |
| `Inductions` | no code: induction over numbers, and what it shows of recursive functions and folds; the proofs use it |
| `MCRunManager`, `MCConductor`, `MCMergeQueue`, `MCEscalatedUnit` | plans, session ids, prices and symmetries of the instances |
| `MCParts`, `MCProgress` | instances of the other modules, several in one run |

### RunManager

`units`, `lease`, `handoffs` and `plan` are the fields of the run document. A unit
record keeps what a guard or a property reads: state, owner, attempts (in all and per
tier), grant, cost, the last handoff's attempt and validity, the attempt the
verification is about, the process record, whether a workspace is on file, and the
handoff it references (a handoff's id is its place in the list). Reasons are reduced to
whether they are one of `REVIEW_STALLS`. A refused mutation writes nothing and is no step.

The lease is its holder and its remaining life in ticks; `Tick` is the passing of time.
Costs saturate one above the limit: nothing tells larger ones apart.

`_mutate` appends the events of a transaction one at a time. A crash, or an append that
fails, makes the prefix written so far the transaction (`RunStore` shows that a reader
sees exactly the prefix). With `TornTransactions` each operation with several events
has its prefixes as outcomes: promotions up to some unit, a reassignment without its
assignment or without its handoff, a cost without the stop, a resume of some units.

`Requested` restricts `transition()` to what callers ask for: it would take a pending
unit to `ready` without looking at its dependencies, and none does.

### Conductor

A session is a process under a conductor id; `job` is the operation it is in the middle
of: where (`at`), the unit, the pid it has a handle on, the stage a retried completion
goes on from, and a cancellation. One action is one step between two calls that read or
write shared state. Runners are `(pid, unit)` pairs in `alive`, and outlive sessions.
`Crash` drops a job. A completion may also raise (`Raises`): `wait_unit` catches
`TRANSIENT_ERRORS` and keeps the handle, and so does any other exception on its way to the
caller. The session is back before `wait_unit`, with what was written before the exception
written. `raises` counts, as a history and by what they left behind (`Aftermath`), the
exceptions that the next call makes up for, the `record_usage` that appended its event and
was not noted, and the units left `verifying`, which no call takes up. The code's own decisions that depend on data (git state changed,
a runner's exit code, a handoff's validity, gates) are choices. An API program with
several handles is several sessions of one id.

The clock: a live session renews its lease every 10 seconds of 300, so in a behaviour
that is `timely` it runs out only when its holder does nothing. In the others (a suspended
machine, a blocked file system) it may run out between any two calls.

The review and the merge queue appear by what they do to the unit (`ReviewOrMerge`).
The repair of a handoff, the skills pass and the merge of the target into the worktree
change nothing this module keeps; they are `AttemptWork`'s.

### AttemptWork

One unit under one conductor that keeps its lease and may die between any two steps. A
commit is reduced to whether the gates pass on a clean checkout of it, whether its
changes keep to the scope, and which tip of the target it contains; the worktree to
whether it is dirty or in the middle of a merge. The runner, the repair turn and the
skills pass are the same kind of step (`Works`): an agent may commit, edit or drop
edits, so whatever one of them read may be stale. `ended` remembers how the last attempt
ended: "judged" when the conductor, the gates or a review said why it failed.

### RunStore

A document is represented by the events it reflects. An append writes a line in one
step, or fails in three ways: nothing written, a fragment, a line without its newline.
`Fail` is an error or the death of the process, which frees the lock: `flock` goes
with its holder. `LoseSnapshot` deletes `run.json` of a run whose log starts with its
creation. `StoredSpec` maps what a process would load to `EventLog`'s `run`.

### Health and Supervisor

A signal's value is not kept, only whether it moved since the last sample and whether
both readings succeeded. `still` counts, as a history, the intervals in which nothing
moved. The supervisor's threads are the caller (`caller`, for the operator and for the
health thread), the monitor (`monitor`), the readers (`streams`) and the health thread
(`watch`); they share `reason`, `cancel` and `evidence`, which are plain attributes. The
child, a helper in its group and a stray that left the group but holds a pipe are the
processes there can be.

### Certification

A probe's steps are taken in the order of `StepOrder`, each in a thread (`workers`) that is
waited for only so long: `Abandon` is the watchdog's verdict, after which the thread goes on
and still records output in `sink`. What the commands of a step print is reduced to whether
`log_inspection` would find a secret in it, what they return to whether the step passes.
The last step is `default_cancel_runner`: `trial` is where it is, `line` the next line its
reader has put in the queue, `group` the processes of the program's group. The program is
the environment: it streams, starts other processes and exits whenever it likes; a "deaf"
process ignores SIGTERM, a "foreign" one runs as another user and cannot be signalled. The
three timers may run out at any moment.

### Worktrees and SharedGitState

`Worktrees` keeps where each piece of work (a commit on the branch, one on a detached
HEAD, an ignored file) can be found. Creation and cleanup are their git commands and
file writes one by one, and their process may die between any two. `done` is all work ever
made, `overwritten` what an archive of the same name replaced, `dropped` what the unit took
off its own branch (`DropTip`: an amend or a reset), `cut` the orphans over `MaxOrphans`
that went with their checkout, `overtaken` whether the unit was started under its cleanup.
`cleanup` lists `orphans[:MAX_ORPHANS]` (`Listed`); which of more it lists depends on the
reflog's order, which is not kept.

`SharedGitState` numbers the commits of the target; a snapshot is what `guard.py` reads,
and `began` remembers the repository as it was when the runner started. Merges of the
queue and their note to the baselines are two steps.

### PlanAnalysis and Dispatch

The search for a cycle and the layering are steps of a state machine, so that their
intermediate states are the code's. `Dispatch` takes the plans that pass and runs
dispatchers that read, decide and assign under the lock; `around` holds the units that
became active again without the dispatcher: a reopened review, a reassignment.

### ApprovalBroker

Every operation of the broker loads, checks, edits and replaces its file under a lock, so
it is one step on `requests`. `Lapse` is the clock reaching a request's `expires_at`;
`Expired` is what the next `resolve` makes of it. Of a request's binding the unit and the
head are kept; run, action, plan and session are compared in the same expression. A
decision that names no head is accepted as one that names the request's.

A consumer of the inbox (the standing processor, a pass of it, a command that decides) is
at one file: opened, claimed (`holding`), resolved, recorded. The claim is an advisory
lock on the opened file, so it outlives the file's name and dies with its consumer.
`Disturb` is a crash or an error at any of these; `SetAside` is what watch mode does with
a file that keeps failing. `accepted` and `disturbed` are histories: nothing in an action
but a bound reads them, except `SetAside`, for which a disturbed file is one with errors.

### MergeQueue

`job[s]` is what a session is in the middle of, one action per step between two accesses
to something shared: the run (`state`, `review`), the broker's file (`requests`), the
queue's file (`items`, `used`), the branches (`tip`, `target`). The queue's lock is held
by whoever is at one of `LockedSteps`. A merge happens aside, from the target's commits as
they were when it began (`job[s].old`), and reaches the target by a compare and swap, or
by a fast-forward in a checkout. A unit's commit is its `(unit, head)`; merging what is
already merged adds nothing. Conflicts, gates and a changed checkout are choices.

`TryTransition` is `RunManager.transition`: refused without the lease (unless `LeaseHeld`)
or without an edge in `UnitState`. `Rework` is everything between a unit that was sent
back and its next review, which `Conductor` models. `ResolveDirectly` is any decision that
does not come through the inbox, the agents' own (`team/review.py`) among them.

`ApprovedTarget` knows only the target's commits and what was approved: the target only
grows, others' commits are kept, and a unit's commit is added once, if it was approved.

### Routing, TeamReview, Escalation

A path is its directory, the signals its words set off and whether policy calls it risky;
tiers are 0 to 2. Models and prices are reduced to the runners a model can be had for, and
the choice by price to a choice among the candidates. `TeamReview` plays the roles a
head's changes call for, each with any eligible provider; meanwhile the branch moves and
the unit is sent back, reworked, queued and reopened by others, and the session goes on
with the head it has.

`Escalation`'s controller is a record and its methods are operators. In `EscalatedUnit` it
lives in memory (`ctrl`), beside the attempts on file, which `return_for_changes` rewrites
for a reviewer or for a merge (`Returner`) and whose writes may be refused; a restart
replays them. A tier without an estimate is left out.

### Drive

The loop, one action per branch of it, over units whose attempts, reviews and merges are
taken in one step each (`Conductor`, `TeamReview` and `MergeQueue` have their insides).
What can go wrong in a behaviour is its set of `troubles`. `heals` is what the state file
counts, `healed` what was done. A drive may be killed anywhere; between drives the owner
resumes, enqueues and merges. The plan check is asked once, from the cache if there is an
approval in it; `ecc plan-check` writes that cache.

### Steward

A lesson is the persona that reviews what is made of it. A pass reads the pending lessons,
takes its branch, lets the steward and the reviewers work, merges on the target as it is
and lands by the queue's fast-forward; only then is it on file. Units land and lessons
arrive at any step, and the drive may die at any.

### GatedCommands

One unit and several invocations. A call builds its plan, is approved by a review record
or at the terminal, takes the lease of its conductor id, builds the plan again, uses up
the record and executes. A plan is what its command reads of the run, so equal plans are
equal hashes. Cleanup takes no lease. A drive looks at the unit, retakes its lease, which
is one step here, and acts on what it saw. `unguarded` remembers that two calls held the
lease under one id, or that a drive acted on what it read before its lease lapsed. Left
out: cleanup of a unit with something to archive, which takes a broker approval, and the
drive's refusal of a plan file that changed.

### Notifications

The runtime saves a change and then emits its event, so two processes' events may be
logged in either order and one may be lost. The plugin polls from a cursor, folds events
into a view and saves both; the file may be rotated or torn, the plugin may die or fail to
write. A decision is taken after a poll and becomes an inbox file.

## Runs

| run | bounds | shows |
|---|---|---|
| `manager` | 3 units, torn transactions; a join and a chain against the id order with 1 conductor and 1 worker, or 1 unit at work with 2 conductors, 2 workers, 1 attempt and 1 grant, 2 handoffs | `TypeOK`, `DependenciesMerged`, `BudgetBound`, `OwnershipChangesByHandoff`, `LeaseTakeoverRecorded` |
| `manager_torn` | 2 units | violation of `PromotedWhenMerged` |
| `conductor` | 1 unit, 2 conductors with a session each, 2 attempts, 2 pids, 1 crash, 1 exception; with timely leases 2 handoffs, without 1 | `FinishedMeansExited`, `CostsCounted`, `ReviewedWorkIsCurrent`, `ManagerSpec`, `VerifiedAfterExit`, `AttemptJudged` |
| `conductor_crash` | one session, one crash | violation of `NoSharedCheckout` |
| `conductor_stale` | two sessions, no crash, leases that may run out anywhere | violation of `CompletionTouchesOurs` |
| `merge_queue` | 1 unit with 2 commits, 2 sessions, 2 requests, 1 move of the target, 1 crash, stops, refusals for want of the lease | `QueueEntriesPaid`, `MergedUnitLanded`, `TargetSpec` |
| `merge_race` | the same without crash, stop or refusal | violation of `LandedIsRecorded` |
| `parts` | see below | 18 properties of 12 parts |
| `cleanup_overwrites` | the same, cleanup lists both detached commits | violation of `WorkKept` |
| `progress` | see below | 8 properties of 3 parts |
| `opinion_escalates` | 2 tiers, the second dearer | violation of `OpinionsDoNotEscalate` |
| `resume_forgets` | 2 tiers that cost more than the budget, 2 grants | violation of `RestartKeepsDecision` |

`MCParts` and `MCProgress` instantiate modules that share no variable. Each behaviour
chooses one `part` at its start and takes steps of that part only, the other variables
keep their initial values; the states are the sum of the parts' states, not their product,
and a property of one part holds in the others because it holds of their initial states.

| part | bounds | properties |
|---|---|---|
| store | 2 processes, 4 events, 2 per mutation | `StoredSpec`, `PartsTypeOK` (of all parts) |
| plugin | 1 request, 3 events, 1 rotation, 1 outage, a feed of 1 | `ViewFollowsLog`, `ViewAgrees` |
| worktree | a commit, 2 detached commits and 1 that cleanup lists, an ignored file, 1 merge, 1 crash; ends when the unit is overtaken | `LossesAccounted` |
| commands | 2 calls, 2 conductor ids, 1 review record, before the first call unused or approved for a cleanup or a drive, 1 own attempt and 1 granted | `GrantsAddUp`, `RecordsUsedOnce` |
| escalation | 2 tiers, 2 attempts per tier, cost 5 of 1 each, 2 grants, a dear and a cheap second tier | `TierEarned`, `RestartKeepsDecision` |
| analysis | every dependency relation of 3 units on 4 ids | `AnalysisIsRight` |
| dispatch | 15 pairs of scopes, and 3 units with an exempt pair; 2 dispatchers | `OverlapsOnlyAround` |
| review | 5 jobs of 1 or 2 heads: security, high risk, mechanical, single provider, human merge | `QueuedIsReviewed`, `TierGrowsWithDiff` |
| guard | 2 units, 3 changes of the repository | `GuardIsRight` |
| steward | 2 lessons, a pass after 1, 3 commits on the target | `LessonsTakenOnce` |
| attempt | 2 attempts worked on, 3 commits, 1 move of the target, 1 repair turn, gates with and without a missing tool | `ReviewedWorkPassed`, `BriefTellsLastFailure` |
| probe | both kinds of runner, groups of 2 processes, 1 late thread at a time | `CertifiedIsProven` |
| supervisor | 1 signal, 1 flat check, with and without a deadline | `BusyNeverHung`, `ResultIsTrue`, `SupervisionEnds` |
| drive | 1 unit with 3 troubles, or 2 with 1; 1 attempt, 1 grant of the owner's | `HealsWithinCaps`, `DriveEnds` |
| inbox | 1 request, 2 decision files, 2 consumers, each file disturbed once | `AnswersAreTrue`, `DecisionsStand`, `InboxDrains` |

Why the bounds are enough to meet the interesting cases: three units are the fewest
with a unit that waits for two others, and the fewest with a cycle behind which others
wait; the lease, ownership and budget rules concern one unit and its owners, and two of
each kind of actor are the fewest that can take over from one another; two attempts are
the fewest with something stale from the one before; four events allow a mutation to
follow a torn one. Two files are the fewest that decide one request twice, two consumers
the fewest that compete for a file; two commits, two requests and two sessions let a stale
approval meet a new head while somebody else merges. One piece of work of each kind tells
whether its kind is lost, a second detached commit what a list that is cut loses. One
exception is the fewest a completion can be repeated after. Two commands are the fewest that can overwrite each other. Two
heads per job let a verdict be older than what it is used for. A program and one process it
started are the fewest of which one may outlive the other. `Ttl = 1` loses nothing: a
lease is alive or has run out, and a renewal resets it. With one signal, all its
readings still come in every order. Actors are symmetric where no property names one and
no liveness is checked. The runs of `Conductor` and `RunManager`
check deadlock: there is always a tick, a retry or a lease to take. The others do not: an
inbox that is empty, a unit that is merged or cancelled, a plan that is analyzed, may
stay so.

`manager` asks two questions, and a plan asks one of them (`Within` in `MCRunManager`): with
a join or a chain, what waits for what, where nothing is put on file that no dependency
looks at; with the lone unit, who holds the lease, who owns the unit and what it may still
spend, by every operation; there a workspace on file, which no guard reads, goes with no
cost and no handoff, and a cost, which can but stop the unit, with one handoff at most. The
theorems are about `Spec`, without that restriction.

`conductor` restricts the behaviours that are not timely to one handoff (`Within`), which
keeps the run small; `AttemptJudged`, the only property that needs fairness there, is about
timely behaviours.

Fairness:

* `conductor`: a session in the middle of a job goes on with it, and a runner exits,
  because it finishes or its health checks or its time limit end it. Nobody is assumed
  to dispatch, resume or retry, and no completion to raise: the fair actions are the
  regular steps, after which `raises` is as before. `AttemptJudged` is about sessions that do not die: a crash
  is followed by `resume`, which is a person's decision.
* supervisor: the monitor, the thread in `cancel` and the health thread are threads of
  a live process, and go on. Time passes. Nothing is assumed of the child, which may
  ignore SIGTERM for ever, of its helper, or of a stray that holds the pipes.
* drive: it is one loop in one process and takes its next step if it has one, unless it
  is killed. An attempt's end, a review's and a merge's are such steps: each has a time
  limit of its own (`SupervisionEnds` for the runner). No ceiling on cost, time or steps is
  assumed, so the drive's end is due to its caps and not to them.
* inbox: a consumer goes on with the file it is at, and a pass over the inbox visits
  every pending file, so a file that is pending again and again is opened (`SF` of `Open`: a
  file may be claimed by another, or its consumer busy, each time). A file's handling
  fails a bounded number of times (once, in `Disturb`); watch mode sets it aside after
  that, and a file that fails for ever in one-shot passes is reported, not dealt with.

In `MCProgress` each fairness condition is stated for its part. The actions of the
other parts are never enabled there, so the condition is the one of the part's module.

## What the violations say

* `manager_torn`: docs/runtime.md:97 promises that a unit becomes ready when its
  dependencies are merged. The promotion is an event of its own after the one that
  merges; when it is lost, nothing repeats it until some other unit merges.
* `merge_race`: docs/runtime.md:316 says that `enqueue_merge` and `process_merge_queue`
  update unit state. `enqueue_merge` lets go of the queue's lock before it marks the unit.
  When another session processes the queue in between, the item is merged while the unit
  is `reviewing`, from where there is no way to `merged`; the refusal is only a warning.
  The first session then marks the unit `queued_for_merge`, and no item is left that would
  ever move it on.
* `conductor_crash`: docs/runtime.md:44 promises one checkout per worker. Between
  `supervisor.start` and `record_process` a crash leaves a runner that is on no record;
  `resume` takes a unit without a process record for dead, and its retry starts another
  runner in the same worktree.
* `conductor_stale`: a comment (`conductor.py:767-768`) says that a completion re-checks that
  the unit is still its session's before touching it. `_complete` compares state and pid
  once, at its start (900-905); a repair or skills turn may take long, with the lease
  renewed by a thread. When the session loses the lease there, another one takes it,
  resumes the unit and begins its next attempt, and then lets its lease run out, the
  first has it back (`_keep_lease`) and goes on: it marks the new attempt failed.
* `opinion_escalates`: routing/escalation.py:8-9 says that a unit goes up a tier only after
  "an objective failure (a failed gate or test), never on a model's opinion".
  `return_for_changes` records an attempt that passed its gates as an objective failure
  when a reviewer model requests changes (`conductor.py:399-402`, `team/review.py:316`), and
  the controller escalates on it. `TierEarned`, which passes, counts the failures that the
  code's flag calls objective and says nothing about that rule.
* `resume_forgets`: `replay` stops at the first attempt when the controller is finished
  (`routing/escalation.py:57-59`). Where even the first tier's estimate is over the budget
  the controller is finished at once; a grant reopens it in memory, attempts are made, and a
  controller rebuilt after a restart has forgotten all of them and their cost.
* `cleanup_overwrites`: docs/runtime.md:47 says that cleanup never loses unique work. Its
  archives are named after the run, the unit and the branch's tip. A unit that is cleaned
  up, started again at the same tip and cleaned up again overwrites what the first archive
  kept of a detached HEAD or of ignored files.

## Observed while modelling

Outside the runs' properties, or what a property had to leave out:

* `RunStore`: `create_run` saves the snapshot before it appends `run.created`
  (`manager.py:357-360`). After a crash in between the run works and is written to, and its
  log never contains its creation, although docs/runtime.md:70 promises that the log alone
  gives the run. `LoseSnapshot` leaves such runs out.
* `Drive`: the heal of a merge conflict makes the unit ready and grants nothing
  (`drive.py:217-224`). When the conflict came with the last attempt the dispatch is
  refused and the unit is set aside, although docs/cli.md:429-430 says that the drive retries
  a conflict on its own; being ready, it is in no state another heal looks at.
* `Certification`: `default_cancel_runner` looks whether the program has exited when the
  first event arrives (`base.py:269`), then counts the group (289) and signals (291). A
  program that exits in between passes as cancelled, where docs/runners.md:64 calls such an
  exit inconclusive. And as long as lines arrive that are no events, neither the clock nor
  the exit is looked at (`base.py:271`), so the wait docs/runners.md:119 bounds has no bound.

* Two sessions under *one* conductor id (every CLI command runs as `ecc-cli` unless
  configured otherwise) share the lease. Then `NoSharedCheckout`, `FinishedMeansExited`
  and the properties of reviewed units do not hold, and grants overwrite each other
  (`unguarded` in `GrantsAddUp`). A drive reads the run before it retakes its lease
  (`team/drive.py:323,335`), with the same effect on a grant made meanwhile.
* `Conductor`: an exception in `_verify` after the unit became `verifying` (`conductor.py:1042`)
  leaves it there for ever, without a crash or a lost lease. The handle is kept for another
  `wait_unit`, but that finds a unit that is not running (900-905), reports
  `unit_still_ours` and forgets the handle; `resume` looks only at assigned and running
  units. docs/runtime.md:113-115 says that "the call can simply be repeated". `AttemptJudged`
  leaves out the behaviours in which this happens (`raises["stranded"]`).
* `Conductor`: a `record_usage` that appends its event and then fails to save raises before
  `stage["usage"]` is set (`conductor.py:968-971`), so the repeated call charges the attempt
  again, where docs/runtime.md:115-116 says that usage is not repeated. `CostsCounted` allows
  one charge for each (`raises["charged"]`).
* A unit whose `record_workspace` was refused can never again be completed: its worktree
  exists, its record does not, and `_accept_handoff` raises (`NoWorkspace`). A refused
  `record_usage` drops the runner's handle and leaves the unit running until a resume.
* `MergeQueue`: a crash after `_finish` leaves the same stuck unit as `merge_race`; the
  item of a unit that was cancelled or stopped is merged all the same, since
  `process_next` does not look at the run; a crash between `consume` and the save of the
  queue loses the approval.
* `ApprovalBroker`: a consumer that dies between recording a result and moving the file
  makes the next one overwrite an `applied` with a refusal, which is why `AnswersAreTrue`
  is about undisturbed files.
* `AttemptWork`: an attempt that ends without evidence (a healed stop over git state, an
  interrupted unit, a stop resumed by the owner, a death between `conductor.py:985` and
  `989`) leaves an older failure in place, and the next brief presents it as the previous
  attempt's (`repair.py:163`). `ended` is then not "judged".
* `Dispatch`: a reopened review and `reassign_unit` do not ask the dispatcher (`around`).
  `patterns_overlap` compares two globs by their fixed prefixes and misses
  `src/core` against `src/*/test`.
* `GuardIsRight` has two exceptions that the code has: a merge whose note is not yet written
  stops a unit (`Unnoted`), and packing the refs does.
* `Steward`: a drive that dies after the pass's branch is made and before the pass is on
  file leaves a branch on which every later attempt at that pass fails
  (`StewardBegins` stops); the merge does not take the queue's lock.
* `Worktrees`: of more than `MAX_ORPHANS` orphans, cleanup with `archive=True` archives the
  first 100 and removes the checkout with the rest (`worktrees/manager.py:294`), although
  docs/runtime.md:47 says that unique work is never lost (`cut`). Commits that were the
  branch's tip once are not looked for (268-282): that is documented (docs/runtime.md:562).
* `Worktrees`: cleanup holds no lease, so the unit may be started under it (`overtaken`); a
  crash between `git worktree add` and the marker leaves a worktree that every later
  cleanup refuses.
* `Notifications`: after a truncated event log the sequence starts at 1 again and the tailer
  drops events up to its last one.
* `TeamReview`: a "pass" from a verifier that reports a blocker but no failed check
  stays a pass; a verdict about an old head can send a newer one back.

## Theorems

Proved by TLAPS for every value of the constants, from the assumptions the modules name
(unit ids are numbers, `None` is no actor, sets that are counted are finite, bounds are
numbers) and, where a theorem states one, from a hypothesis on the instance. The bounds are
constants in the actions' guards, so a theorem holds for every bound. An invariant is proved
by a stronger, inductive one, which TLC checked on an instance of the module first.

### The run and its conductors

`RunManager_proofs`, for every plan, number of units, set of conductors, workers and tiers,
budget, with and without torn transactions:

* `TypeCorrect`: `Spec => []TypeOK`. One lemma per operation.
* `DependenciesStayMerged`: `Spec => []DependenciesMerged`. Each operation satisfies
  `MergedOrBegunStays` (a merged unit stays merged; a unit that begins was promoted), which
  needs `merged` to be terminal and `pending` to be left by promotion or cancellation only.
* `AttemptsBounded`, `OwnershipHandedOver`, `LeaseHandedOver`: `BudgetBound`,
  `OwnershipChangesByHandoff`, `LeaseTakeoverRecorded`, from `TypeOK`: only assigning counts an
  attempt or changes an owner (`NoAssignmentStep`).

`Conductor_proofs`, for every number of sessions, ids, crashes and runners:

* `ConductorTypeCorrect`, and `OnlyManagerCalls`: `ConductorSpec => ManagerSpec`, whether or not
  sessions share an id. So the theorems about `RunManager` hold of every run conductors
  work on. `RunManager`'s guards are weaker than the steps' but for two: a unit is not made
  ready behind its dependencies' back, and a process is recorded with a pid. `CallsInv` has
  the reason: a job is on a unit that was given out before (`JobsWarranted`).
* `ExitsRecordedTruly`: `OneSessionPerId => (ConductorSpec => []FinishedMeansExited)`. A process
  is marked finished by the session that waited for it, which may have been stopped before
  it wrote the exit down. `RunInv` says in which order a job's steps leave the unit
  (`JobsInOrder`), that every pid on record was given out (`ProcessesKnown`), and that what a
  session with the lease holds of its unit is true (`HeldJobs`).
* `CostsChargedOnce`: `CostsAssumed => (ConductorSpec => []CostsCounted)`. `CostsInv` gives each
  attempt room for one charge (`Spare`) from its assignment until its usage is recorded, and
  one more for each exception that left a charge unnoted.
* `ReviewsAreCurrent`, `VerifiedOnlyAfterExit`: `OneSessionPerId` implies
  `ReviewedWorkIsCurrent` and `VerifiedAfterExit`, both about timely behaviours. `TimelyInv` adds
  to `RunInv` that a session past the exit still has the unit as it left it
  (`TimelyJobs`), and what verification and handoff of a reviewed unit are (`TimelyReviews`).

`OneSessionPerId` says that no two sessions share a conductor id. It is needed: docs/cli.md:510
says how two commands under one id get in each other's way, and TLC finds the violations.
`CostsAssumed` adds that no transaction is torn, as half of `record_usage` is a cost that did
not stop its unit, and that charges are bounded (`ChargesBounded`), as they are in the model.
Each of these hypotheses holds in the `conductor` run.

### An attempt, its lessons, its worktree, its tier, the guard

`Attempt_proofs`:

* `AttemptTyped`, `OnlyVerifiedReviewed`, `LastFailureTold`: `AttemptTypeOK`, `ReviewedWorkPassed`,
  `BriefTellsLastFailure`. `ReviewInv` follows the handoff and the verification to where they are
  used (`HandoffHolds` until the gates ran, `Verified` from then on and through a stalled
  review); `BriefInv`: a judged attempt has been noted, unless the conductor is at `note`.
* `LessonsCountOnce`: `StewardSpec => []LessonsTakenOnce`. `StewardInv`: the passes on file and the
  lessons (`LearningInv`), what a pass under way has read (`PassInv`), and that what landed and is
  not on file yet belongs to the pass that is about to put it there (`LandedInv`).
* `WorktreesTyped`, `WorkAccounted`: `WorktreeTypeOK`, `LossesAccounted`: what is gone was replaced
  by an archive of the same name, dropped by the unit itself, or one of more orphans than
  `MaxOrphans`. `CleanupInv` says at each step of a cleanup what is in an archive by then and
  what was not listed (`ListCut`: nothing, up to `MaxOrphans`); it is required only until the
  unit is started under its cleanup (`overtaken`).
* `TiersAreEarned`: `EscalationSpec => []TierEarned`: a controller, replayed or gone on with,
  has a tier no higher than the failures recorded as objective in its history (`Earned`).
* `RestartsDecideAlike`: `FirstAttemptFits => (EscalationSpec => []RestartKeepsDecision)`. `RebuiltInv`
  says that the controller in memory is the replay of its own history. A replay is a fold, so
  the lemmas say what one more attempt adds to it. `FirstAttemptFits` (the first tier's
  estimate is within the budget) is needed: `resume_forgets` is the counterexample.
* `StewardTypeCorrect`, `EscalationTypeCorrect`, `GuardTypeCorrect`: the type invariants. The
  first two follow from `StewardInv` and from `Earned`, which bounds a controller's tier; the
  third needs `Snapshots`: a unit has a baseline while its runner works and at no other time,
  which the type can tell only since `NoSnapshot` is assumed to be no `Repository`.
* `GuardJudgesRight`: `GuardSpec => GuardIsRight`. `SharedInv` says that a baseline is the
  repository its runner found but for merges (`Baselines`), that commits are told apart
  (`Numbered`), and that a merged commit is its unit's only one, whose unit is merged or
  in the merge under way (`MergedOnce`). A commit beyond the baseline in an active
  unit's scope then is either new and no merge, or the merge that is not noted yet.

### Planning and review

`Planning_proofs`:

* `AnalysisTrue`: `AnalysisSpec => []AnalysisIsRight`, for every dependency relation of any finite set
  of units: a cycle is reported exactly when a unit depends on itself, what is reported is
  one, and without it each unit is in the layer right after its dependencies. `SearchInv`
  is the argument for the depth first search: grey units are the stack, each in its
  predecessor's dependencies (`StackInv`), what was tried of a unit is black or its successor
  on the stack (`TriedInv`), and what black units depend on is black and not themselves
  (`BlackInv`). `LayersInv` is the definition of each layer. Without a cycle a layer is
  never empty before the units are used up, since a set of units that each wait for another
  of it would hold one that waits for itself.
* `WorkApart`: `DispatchSpec => []OverlapsOnlyAround`. The guard compares scopes in one order, so
  the comparison of merge_queue/conflicts.py has to be symmetric (`ScopesOverlapSymmetric`).
* `ChosenReviewerSatisfies`: whoever `select_reviewer` may choose is accepted by
  `review_satisfies` at the required tier. The code states the rule twice.
* `QueuedWasReviewed`: `ReviewSpec => []QueuedIsReviewed`. `SessionInv`: those asked so far and those
  still to be asked are the roles this head calls for, the verifier last; before `record` all
  have accepted. `RecordedInv`: what is on file of a review was such a session's.
* `ReviewTypeCorrect`: `ReviewTypeOK`. `ReviewsGrow`: `ReviewSpec => []TierGrowsWithDiff`, for
  every unit, set of changed files and number of lines. Every signal `classify` reads from
  the files can only be raised by more of them (`SignalsGrow`), so the score, the risk, the
  tier with its floor, and the demand for another provider or model can (`ScoreGrows`,
  `RiskGrows`, `TierGrows`, `ClassGrows`). `ClassedInv` says that a session's class is that of a
  head that was verified. `JobsAssumption` is the jobs' type: finite sets of files, at least
  one change, a number of lines.

### Approvals and the merge queue

`MergeQueue_proofs`, for every number of units, sessions, commits, requests, files, consumers
and crashes:

* `BrokerTypeCorrect`, which includes that two consumers are never at work on one file
  (`OneClaim`); `DecidedOnce`: `BrokerSpec => DecisionsStand`; `AnswersTrue`: `BrokerSpec =>
  []AnswersAreTrue`. `AnswersInv` adds what holds of files still in the inbox: the consumer of a
  claimed file knows what the broker did (`ClaimsTrue`), and an applied file that is still
  there has such a consumer (`AppliedAtWork`).
* `MergeTypeCorrect`, `QueuePaid`, `MergedLanded`: `MergeTypeOK`, `QueueEntriesPaid`, `MergedUnitLanded`.
  `MergeInv` adds that a request the broker calls approved was approved by a decision
  (`ApprovalsBacked`), that items name requests on file (`QueueKnown`), and of sessions between two files that what they are about to save was
  paid (`SavesPaid`), and what they are about to merge was approved (`MergesApproved`).
* `TargetKeepsPromise`: `Spec => TargetSpec`, the refinement of `ApprovedTarget`. Only
  `FastForward` and `TargetMoves` change the target; the others stutter.

### Processes and loops

`Progress_proofs`:

* `StoreTypeCorrect`, and `StoreKeepsLog`: `StoreSpec => StoredSpec`: what a process would load from
  the files behaves as an `EventLog`, for any number of processes, events and crashes. Each
  write of the store is a step of the abstract run or leaves what would be loaded as it is.
  `StoreInv` says that the snapshot is never ahead of the log, that a log which starts with
  the run's creation gives without a snapshot what it gives with one (`Rebuilt`, needed for
  `LoseSnapshot`), and that a mutation under way holds the lock and the document its lines
  have led to, with nothing appended by others since it read (`Mutating`). Loading is a fold
  over the lines: that one more line goes on with it (`LoadGoesOn`), and a torn one does not
  change it, are the lemmas.
* `HealsCapped`: `DriveSpec => []HealsWithinCaps`, with no assumption. `HealInv`: what was done and
  what is owed (the drive counted it and stands before it) was counted, within the cap.
* `SupervisorTypeCorrect`, `ReportedTruly`, `OnlyIdleIsHung`: `SupervisorTypeOK`, `ResultIsTrue`,
  `BusyNeverHung`. `SuperInv` adds which of the process group is left, by where the monitor is
  (`GroupInv`), that a cancel for a hang comes after its evidence (`EvidenceInv`), and the
  types of the health checks, with which `BusyNeverHung` is inductive (`StreakInv`).
* `CertificationTypeCorrect`; `GroupsEnd`: `CertificationSpec => []NothingOutlives`: between two
  trials and after the last one nothing that may be signalled is left of the program;
  `CertificatesProven`: `CertificationSpec => []CertifiedIsProven`. `ProvenInv`: a step that passed did
  so by its own thread, which has ended; a passed cancellation means that the group is gone,
  and an empty group starts no process.

### The operator

`Operator_proofs`:

* `ViewKeepsUp`, `ViewTellsTruth`: `ViewFollowsLog`, `ViewAgrees`, for logs of any length. Numbers
  increase along the log, and each that was reached is a line's or was rotated away (`LogOk`). The
  broker holds what an event tells, and has told it unless that was missed (`StatusOk`).
  `SideOk`, which holds of the view in memory, of the one on disk and of an empty one: what a
  cursor has passed is numbered no higher than its last event, and the view reflects all up
  to that event, once and in order, and shows no more than the broker holds. Reading and
  applying are folds over the lines from the cursor (`NewFolded`).
* `NotificationTypeCorrect`: `NotificationTypeOK`. That the log is short enough for a cursor to be
  bounded takes a count: its lines are fewer than the next number and the missed requests
  together (`LogShort`), since each line takes a number but for the fragments of a failed
  append, and a request is missed once. The bound is `MaxLines`; `2 * MaxSeq` holds only where
  there are no more requests than numbers.
* `GatedTypeCorrect`, `GrantsAdd`: `GatedTypeOK`, `GrantsAddUp`. `GrantInv`: while no two calls hold the lease
  under one id, whoever has it would write the unit's present total and its addition
  (`TotalsCurrent`), since the plan was built again under the lease.
* `OneUsePerApproval`: `GatedSpec => []RecordsUsedOnce`. `UseInv` adds the calls that are admitted by
  the record and have not begun (`Admitted`), and the open record, to the uses.

### Induction

The library's induction theorems take a predicate as a parameter, which the installed provers
cannot instantiate. `Inductions` has what the proofs need instead: a set of numbers that is not
empty has a least element (`LeastNatural`, from the well-founded order of the numbers), hence a
set that holds 0 and the successor of each of its elements holds every number
(`NumbersInduct`); a function may be defined by recursion up to a number (`Iterates`), and a fold
over a sequence goes through it element by element (`FoldSteps`). What is said of replays,
views and ancestors rests on these.

### Only model-checked

* Liveness, which the prover cannot express the fairness of: `AttemptJudged`,
  `SupervisionEnds`, `DriveEnds`, `InboxDrains`.
* `PartsTypeOK`: the conjunction of the types of the parts of `MCParts`. Each conjunct is a
  theorem about its part's own specification (`StoreTypeCorrect`, `NotificationTypeCorrect`,
  `WorktreesTyped`, `GatedTypeCorrect`, `EscalationTypeCorrect`, `ReviewTypeCorrect`,
  `GuardTypeCorrect`, `StewardTypeCorrect`, `AttemptTyped`, `CertificationTypeCorrect`); their
  composition in `MCParts`, an instance made for TLC, is not proved.

## Not modelled

Content: prompts, redaction, schemas, lint rules about one unit, the text of evidence,
gate commands, each runner's commands and parsers, rendering. Presentation and
read-only commands of the CLI. The circuit breaker and prices, which decide who is usable
and who is cheapest: both are choices here. Minutes budgets (the same comparison as cost)
and the arithmetic of the drive's ceilings, which may stop it at any turn. Symlinks in the
inbox, which are refused without a claim, and decision files whose name is used again.
A target that moves by commits of which one undoes another: `SharedGitState` takes the paths
of all of them, `guard.py:252` the net difference, which is less; so the model stops a unit
where the code might not. A process group that refuses its signal: `killpg` errors are
swallowed (`supervisor.py:305-309`, `370-373`), and a member that runs as another user then
outlives its runner; `Supervisor` signals members of its own user only, `Certification` has
the others ("foreign"). An agent that leaves its worktree's HEAD off the unit's branch
(`AttemptWork`). Real time beyond the lease and a deadline, and clocks that step back. File systems that
lose completed writes.

Some compositions are abstracted rather than instantiated: the drive over `Conductor`'s
own steps, several units in `MergeQueue`, the inbox at work during a merge. Each side is
modelled by what it does to what they share, but their product is out of TLC's reach at
bounds that mean something.

## Plan

Done: store, manager, conductor, approvals with the inbox, merge queue, the parts of
`MCParts` and `MCProgress`, and the theorems above. What would add most next:

1. `MergeQueue` with two units; `CostsCounted` with torn transactions, which needs a
   statement of what half of `record_usage` may leave.
2. The circuit breaker beside `EscalatedUnit`, and the drive's parallel waits.
