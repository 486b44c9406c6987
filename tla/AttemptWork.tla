----------------------------- MODULE AttemptWork ------------------------------
(***************************************************************************)
(* What becomes of a unit's worktree, its handoff and its failures from one*)
(* attempt to the next: start_unit's merge of the target, the handoff and  *)
(* its repair turn, the skills pass, the gates and the verification of     *)
(* runs/conductor.py, with gates/runner.py, runs/repair.py and the failure *)
(* brief of cli/commands.py.  Conductor.tla has the processes, leases and  *)
(* retries of the same steps; here the conductor holds its lease, and dies *)
(* between any two steps.                                                  *)
(*                                                                         *)
(* A commit of the branch tells whether the acceptance commands pass on a  *)
(* clean checkout of it, whether its changes against the merge base lie in *)
(* the unit's scope, and the newest commit of the target it contains.      *)
(***************************************************************************)
EXTENDS Integers, SequencesExt

CONSTANTS
  GatePlans,   \* the kinds of gates a unit may have, by its plan and the repository's policy
  RepairTurns, \* handoff_repair_turns
  MaxAttempts, \* bound: attempts that are worked on; one more is begun
  MaxCommits, MaxTips  \* bounds

VARIABLES
  newest,   \* the newest commit of the unit's branch
  tree,     \* what is in the worktree besides its head
  tips,     \* commits on the target
  handoff,  \* the handoff file of the attempt
  record,   \* the unit's record: state, attempts and annotations
  at,       \* the conductor: what it does next
  repairs,  \* _repairs_used
  ended     \* history: how the last attempt ended

attemptVars == <<newest, tree, tips, handoff, record, at, repairs, ended>>

GateKinds == {"runnable", "missing", "invalid", "refused"}

ASSUME AttemptAssumption ==
  /\ GatePlans \subseteq SUBSET GateKinds
  /\ {RepairTurns, MaxAttempts, MaxCommits, MaxTips} \subseteq Nat
  /\ MaxCommits > 0

\* "none" cannot be read either, "refused" violates a rule or reports a failure.
HandoffKinds ==
  {"none", "large", "malformed", "refused", "blocked", "good"}
NoHandoff == [kind |-> "none", head |-> 0]
Clean == [dirty |-> FALSE, merging |-> 0]

UnitRecord ==
  [state : {"ready", "running", "verifying", "reviewing", "failed", "needs_user", "interrupted"},
   attempts : 0..MaxAttempts + 1, reason : {"first", "retry", "stall", "other"},
   handoff : [attempt : 0..MaxAttempts + 1, head : 0..MaxCommits, valid : BOOLEAN],
   verification : [head : 0..MaxCommits, passed : BOOLEAN, gates : SUBSET GateKinds],
   failure : 0..MaxAttempts + 1]

AttemptTypeOK ==
  /\ newest \in [n : 1..MaxCommits, ok : BOOLEAN, inScope : BOOLEAN, base : 0..MaxTips]
  /\ tips \in 0..MaxTips
  /\ tree \in [dirty : BOOLEAN, merging : 0..MaxTips] /\ (tree.merging > 0 => tree.dirty)
  /\ handoff \in [kind : HandoffKinds, head : 0..MaxCommits]
  /\ record \in UnitRecord
  /\ repairs \in 0..RepairTurns

AttemptInit ==
  /\ newest = [n |-> 1, ok |-> FALSE, inScope |-> TRUE, base |-> 0]
  /\ tree = Clean /\ tips = 0
  /\ handoff = NoHandoff
  /\ record = [state |-> "ready", attempts |-> 0, reason |-> "first",
               handoff |-> [attempt |-> 0, head |-> 0, valid |-> FALSE],
               verification |-> [head |-> 0, passed |-> FALSE, gates |-> {}], failure |-> 0]
  /\ at = "idle" /\ repairs = 0 /\ ended = "none"

(******************************* The attempt *******************************)

\* The result of a merge of the target's tip into the branch.
TargetMerged(ok) == [newest EXCEPT !.n = @ + 1, !.ok = ok, !.base = tips]

\* _sync_with_target: nothing to do or not possible, a merge, or a conflict that
\* is left to the runner.
Sync ==
  LET mergeable == tree.merging = 0 /\ newest.base # tips
  IN \/ (mergeable => tree.dirty) /\ UNCHANGED <<newest, tree>>
     \/ mergeable /\ UNCHANGED <<newest, tree>>  \* git refuses, and the merge is aborted
     \/ /\ mergeable /\ newest.n < MaxCommits
        /\ \E ok \in BOOLEAN : newest' = TargetMerged(ok)
        /\ UNCHANGED tree
     \/ mergeable /\ tree' = [dirty |-> TRUE, merging |-> tips] /\ UNCHANGED newest

\* retry_brief: the attempt the prompt speaks of, 0 if of none.
Brief == IF record.attempts > 0 /\ record.reason = "retry" THEN record.failure ELSE 0

\* The prompt is made with the Brief, the worktree brought up to date and the old
\* handoff file removed.
StartAttempt ==
  /\ record.state = "ready" /\ at = "idle" /\ record.attempts <= MaxAttempts
  /\ Sync
  /\ record' = [record EXCEPT !.state = "running", !.attempts = @ + 1]
  /\ handoff' = NoHandoff /\ repairs' = 0
  /\ at' = "runner" /\ ended' = "none"
  /\ UNCHANGED tips

\* A turn of an agent in the worktree: it may commit, edit, or drop its edits.
\* That it leaves HEAD off the unit's branch is left out.
Works ==
  \/ UNCHANGED <<newest, tree>>
  \/ /\ newest.n < MaxCommits
     /\ \E ok, inScope, left \in BOOLEAN :
          /\ newest' = [n |-> newest.n + 1, ok |-> ok, inScope |-> inScope,
                         base |-> IF tree.merging > 0 THEN tree.merging ELSE newest.base]
          /\ tree' = [Clean EXCEPT !.dirty = left]
  \/ tree' \in {Clean, [tree EXCEPT !.dirty = TRUE]} /\ UNCHANGED newest

\* It writes the handoff; a good one names a commit, mostly the last.
Writes ==
  \/ UNCHANGED handoff
  \/ \E kind \in HandoffKinds \ {"none"} :
       handoff' \in [kind : {kind}, head : IF kind = "good" THEN {newest'.n, 1} ELSE {0}]

RunnerWorks ==
  /\ at = "runner" /\ record.attempts <= MaxAttempts
  /\ Works /\ Writes
  /\ at' = "exited"
  /\ UNCHANGED <<tips, record, repairs, ended>>

(***************************** Its completion ******************************)

\* Mutant of NoteFailure: an earlier failure stays.
NoteFirstFailure(rec) == IF rec.failure > 0 THEN rec ELSE [rec EXCEPT !.failure = rec.attempts]

\* _note_failure: the evidence of this attempt takes the place of the last.
NoteFailure(rec) == [rec EXCEPT !.failure = rec.attempts]

To(rec, state) == [rec EXCEPT !.state = state, !.reason = "other"]

Conduct(next, how, rec) ==
  /\ record' = rec /\ at' = next /\ ended' = how
  /\ UNCHANGED <<newest, tree, tips, handoff, repairs>>

\* Most failures are noted and then recorded,
FailAttempt(next) == Conduct(next, "judged", NoteFailure(record))
FailNoted ==
  /\ at = "fail"
  /\ Conduct("outcome", ended, To(record, "failed"))

\* those of the runner itself the other way round; some no retry can mend, and
\* they stop the unit.
RunnerFailed == at = "exited" /\ Conduct("note", "judged", To(record, "failed"))
RunnerStopped == at = "exited" /\ Conduct("note", "judged", To(record, "needs_user"))
NoteAfter ==
  /\ at = "note"
  /\ Conduct(IF record.state = "failed" THEN "outcome" ELSE "idle", ended, NoteFailure(record))

\* The guard of shared git state, and the cost budget, leave no evidence.
StoppedSilently == at = "exited" /\ Conduct("idle", "silent", To(record, "needs_user"))

\* _record_outcome
Outcome ==
  /\ at = "outcome"
  /\ \/ Conduct("idle", ended, [record EXCEPT !.state = "ready", !.reason = "retry"])
     \/ Conduct("idle", ended, To(record, "needs_user"))
     \/ Conduct("idle", ended, record)

RunnerSucceeded ==
  /\ at = "exited"
  /\ Conduct("accept", ended, record)

\* _handoff_problems: what a turn that rewrites only the handoff may mend.
Unread(kind) == kind \in {"none", "large"}
Repairable(kind) == kind \in {"none", "malformed"}

\* _repair_handoff: the turn is told to touch nothing else.
RepairHandoff ==
  /\ at = "accept" /\ Repairable(handoff.kind) /\ repairs < RepairTurns
  /\ Works /\ Writes
  /\ repairs' = repairs + 1
  /\ at' = "repaired"
  /\ UNCHANGED <<tips, record, ended>>

ToRecord ==
  \/ at = "accept" /\ ~(Repairable(handoff.kind) /\ repairs < RepairTurns)
  \/ at = "repaired"

HandoffMissing == ToRecord /\ Unread(handoff.kind) /\ FailAttempt("fail")

\* record_handoff: a good handoff names the worktree's head.
RecordHandoff ==
  LET valid == handoff.kind = "good" /\ handoff.head = newest.n
      rec == [record EXCEPT !.handoff = [attempt |-> record.attempts, head |-> newest.n, valid |-> valid]]
  IN /\ ToRecord /\ ~Unread(handoff.kind)
     /\ record' = rec
     /\ at' = IF valid THEN "skills" ELSE IF handoff.kind = "blocked" THEN "ask" ELSE "reject"
     /\ handoff' = NoHandoff /\ repairs' = 0  \* not read again
     /\ UNCHANGED <<newest, tree, tips, ended>>

HandoffInvalid == at = "reject" /\ FailAttempt("fail")
AskUser == at = "ask" /\ Conduct("idle", "silent", To(record, "needs_user"))

\* _run_skills_pass: what it leaves uncommitted is stashed, if git can.
SkillsPass ==
  /\ at = "skills"
  /\ \/ UNCHANGED <<newest, tree>>
     \/ /\ Works
        /\ tree'.merging = 0 => ~tree'.dirty
  /\ at' = "verify"
  /\ UNCHANGED <<tips, handoff, record, repairs, ended>>

BeginVerify ==
  /\ at = "verify" /\ record.handoff.valid /\ record.handoff.attempt = record.attempts
  /\ Conduct("check", ended, To(record, "verifying"))

\* Mutant of Verifiable: what is not committed is let through.
AnyTree == TRUE

\* git status names no file, untracked ones included.
Verifiable == ~tree.dirty

WorkUncommitted == at = "check" /\ ~Verifiable /\ FailAttempt("fail")

(******************************** The gates ********************************)

\* What running a command may end with: on a clean checkout of what is
\* committed it succeeds when the commands pass, unless it is stopped.
Results ==
  {r \in [error : BOOLEAN, hung : BOOLEAN, timedOut : BOOLEAN, exit : {0, 1}] :
     r.exit = 0 => tree.dirty \/ newest.ok}

\* _run_specs: the first thing that is wrong names the status.
GateStatus(kind, result) ==
  CASE kind # "runnable" -> kind
    [] result.error -> "error"
    [] result.hung -> "hung"
    [] result.timedOut -> "timeout"
    [] OTHER -> IF result.exit = 0 THEN "passed" ELSE "failed"

\* run_gates: every gate passed and there is one.
GatesPass(gates, result) == gates # {} /\ \A kind \in gates : GateStatus(kind, result) = "passed"

\* _verify: the gates run, and the head, the scope and the class are looked at.
GatesRan ==
  /\ at = "check" /\ Verifiable
  /\ \E gates \in GatePlans, result \in Results, classified \in BOOLEAN :
       LET passes == GatesPass(gates, result)
           inScope == newest.inScope
           rec == [record EXCEPT !.verification =
                     [head |-> newest.n, passed |-> passes /\ inScope /\ classified, gates |-> gates]]
       IN Conduct(IF ~inScope THEN "verified_fail"
                  ELSE IF ~classified THEN "ask"
                  ELSE IF ~passes THEN "verified_fail" ELSE "pass", ended, rec)

VerifiedFail == at = "verified_fail" /\ FailAttempt("fail")
GatesPassed == at = "pass" /\ Conduct("idle", "passed", To(record, "reviewing"))

(****************************** Between attempts ***************************)

\* return_for_changes, with the findings as evidence; or the review stalls.
SendBack ==
  /\ at = "idle" /\ record.state = "reviewing"
  /\ Conduct("return", "judged", NoteFailure(record))
SentBack ==
  /\ at = "return"
  /\ \/ Conduct("idle", ended, [record EXCEPT !.state = "ready", !.reason = "retry"])
     \/ Conduct("idle", ended, To(record, "needs_user"))
ReviewStalls ==
  /\ at = "idle" /\ record.state = "reviewing"
  /\ Conduct("idle", ended, [record EXCEPT !.state = "needs_user", !.reason = "stall"])

\* The owner's resume and the drive's: back to the review, or another attempt.
Resumed ==
  /\ at = "idle" /\ record.state \in {"failed", "needs_user", "interrupted"}
  /\ Conduct("idle", ended,
       IF record.reason = "stall" /\ record.verification.head > 0 THEN To(record, "reviewing")
       ELSE [record EXCEPT !.state = "ready", !.reason = "retry"])

\* The conductor dies; a later resume finds the unit running, and marks it.
Dies ==
  /\ at # "idle"
  /\ Conduct("idle", IF at \in {"exited", "note"} THEN "dead" ELSE ended,
       IF record.state = "running" THEN To(record, "interrupted") ELSE record)

TargetMoves ==
  /\ tips < MaxTips
  /\ tips' = tips + 1
  /\ UNCHANGED <<newest, tree, handoff, record, at, repairs, ended>>

AttemptNext ==
  \/ StartAttempt \/ RunnerWorks
  \/ RunnerFailed \/ RunnerStopped \/ NoteAfter \/ StoppedSilently \/ RunnerSucceeded
  \/ RepairHandoff \/ HandoffMissing \/ RecordHandoff \/ HandoffInvalid \/ AskUser \/ SkillsPass
  \/ BeginVerify \/ WorkUncommitted \/ GatesRan \/ VerifiedFail \/ GatesPassed
  \/ FailNoted \/ Outcome
  \/ SendBack \/ SentBack \/ ReviewStalls \/ Resumed \/ Dies \/ TargetMoves

AttemptSpec == AttemptInit /\ [][AttemptNext]_attemptVars

(******************************* Properties ********************************)

\* What goes to review is what was verified (_verify; docs/runtime.md:288-291): the
\* branch's last commit, which passes the unit's gates and keeps to its scope,
\* under a valid handoff of the same attempt that names a commit of it, although
\* two more turns may have worked in the worktree since the runner's, edits may
\* lie about, a merge may be unfinished, and the conductor may die anywhere.
ReviewedWorkPassed ==
  record.state = "reviewing" =>
    LET v == record.verification IN
    /\ v.passed /\ v.head = newest.n
    /\ newest.ok /\ newest.inScope
    /\ v.gates = {"runnable"}
    /\ record.handoff.valid /\ record.handoff.attempt = record.attempts
    /\ record.handoff.head \in 1..v.head

\* The next attempt is told why the last one failed (docs/cli.md:345-350):
\* after a failure the conductor or a review judged, its prompt speaks of that
\* attempt and no older one, unless the conductor died before it could note it.
BriefTellsLastFailure ==
  [][at = "idle" /\ at' = "runner" /\ ended = "judged" => Brief = record.attempts]_attemptVars

==============================================================================
