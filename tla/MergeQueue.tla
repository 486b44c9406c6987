----------------------------- MODULE MergeQueue ------------------------------
(***************************************************************************)
(* From a verified unit to the target branch: merge_queue/queue.py, and    *)
(* record_review, enqueue_merge and process_merge_queue of                 *)
(* runs/conductor.py, on top of the approvals.                             *)
(*                                                                         *)
(* Sessions are processes that review, enqueue and process.  One action is *)
(* one step between two accesses to something shared: the run, the         *)
(* broker's file, the queue's file, a branch.  The queue's lock is held    *)
(* from the checks to the save, by the session itself and no longer than   *)
(* the session lives.                                                      *)
(***************************************************************************)
EXTENDS ApprovalBroker, UnitState, SequencesExt

CONSTANTS
  Sessions,
  NoUnit,
  LeaseHeld,    \* the run's lease never keeps a session from writing
  MaxMoves,     \* bound: commits others make on the target
  MaxCrashes,   \* bound: sessions that die
  UnitsStopped  \* units are cancelled or stopped under review or in the queue

ASSUME UnitAssumption == NoUnit \notin Units
ASSUME QueueAssumption ==
  /\ LeaseHeld \in BOOLEAN
  /\ MaxMoves \in Nat /\ MaxCrashes \in Nat /\ UnitsStopped \in BOOLEAN

VARIABLES
  tip,        \* tip[u]: the last commit of the unit's branch
  state,      \* state[u]: the unit's state in the run
  verified,   \* verified[u]: the head its verification recorded
  review,     \* review[u]: the review on record
  items,      \* the queue's items
  used,       \* consumed_approvals of the queue
  target,     \* the commits of the target branch
  job,        \* job[s]: what session s is in the middle of
  crashes

unitVars == <<tip, state, verified, review>>
queueVars == <<items, used>>
vars == <<brokerVars, unitVars, queueVars, target, job, crashes>>

OtherCommit == [unit : {NoUnit}, head : 1..MaxMoves]

NoReview == [head |-> 0, rid |-> 0]

Outcome == {"merged", "stale", "conflict", "gate_failed", "target_dirty"}

Idle == [at |-> "idle", unit |-> NoUnit, head |-> 0, rid |-> 0,
         old |-> << >>, status |-> "none"]

LockedSteps == {"consume", "save", "merge", "forward", "ff", "finish"}

Steps == LockedSteps \cup {"idle", "request", "annotate", "judge", "enqueue", "mark", "report"}

Job == [at : Steps, unit : Units \cup {NoUnit}, head : 0..MaxHead, rid : 0..MaxRequests,
        old : Seq(Binding \cup OtherCommit), status : Outcome \cup {"none"}]

MergeTypeOK ==
  /\ BrokerTypeOK
  /\ tip \in [Units -> 1..MaxHead]
  /\ state \in [Units -> State]
  /\ verified \in [Units -> 1..MaxHead]
  /\ review \in [Units -> [head : 0..MaxHead, rid : 0..MaxRequests]]
  /\ items \in Seq([unit : Units, head : 1..MaxHead, rid : RequestId])
  /\ used \subseteq RequestId
  /\ target \in Seq(Binding \cup OtherCommit)
  /\ job \in [Sessions -> Job]
  /\ \A s, t \in Sessions :
       {job[s].at, job[t].at} \subseteq LockedSteps => s = t

\* Units are as their first verification left them.
Init ==
  /\ BrokerInit
  /\ tip = [u \in Units |-> 1]
  /\ state = [u \in Units |-> "reviewing"]
  /\ verified = [u \in Units |-> 1]
  /\ review = [u \in Units |-> NoReview]
  /\ items = << >>
  /\ used = {}
  /\ target = << >>
  /\ job = [s \in Sessions |-> Idle]
  /\ crashes = 0

(******************************** Helpers **********************************)

QueueFree == \A s \in Sessions : job[s].at \notin LockedSteps

Go(s, at) == job' = [job EXCEPT ![s].at = at]

Leave(s) == job' = [job EXCEPT ![s] = Idle]

\* manager.transition(): refused when the state machine has no such edge, or
\* when somebody else has the lease.
TryTransition(u, to) ==
  \/ state' = [state EXCEPT ![u] = IF to \in Targets(@) THEN to ELSE @]
  \/ ~LeaseHeld /\ UNCHANGED state

(******************************* The review ********************************)

\* record_review(): an approving review names the verified head, and the
\* branch still ends there.
BeginReview(s, u) ==
  /\ job[s] = Idle
  /\ state[u] = "reviewing"
  /\ \/ /\ tip[u] = verified[u]
        /\ Len(requests) < MaxRequests
        /\ job' = [job EXCEPT ![s] =
             [Idle EXCEPT !.at = "request", !.unit = u, !.head = verified[u]]]
     \/ job' = [job EXCEPT ![s] = [Idle EXCEPT !.at = "annotate", !.unit = u]]
  /\ UNCHANGED <<brokerVars, unitVars, queueVars, target, crashes>>

RequestApproval(s) ==
  /\ job[s].at = "request"
  /\ Request([unit |-> job[s].unit, head |-> job[s].head])
  /\ job' = [job EXCEPT ![s].at = "annotate", ![s].rid = Len(requests) + 1]
  /\ UNCHANGED <<inboxVars, accepted, unitVars, queueVars, target, crashes>>

AnnotateReview(s) ==
  /\ job[s].at = "annotate"
  /\ \/ /\ review' = [review EXCEPT ![job[s].unit] =
             [head |-> job[s].head, rid |-> job[s].rid]]
        /\ IF job[s].rid = 0 THEN Go(s, "judge") ELSE Leave(s)
     \/ ~LeaseHeld /\ UNCHANGED review /\ Leave(s)
  /\ UNCHANGED <<brokerVars, tip, state, verified, queueVars, target, crashes>>

\* A review that does not approve sends the unit back or fails it.
Judge(s) ==
  /\ job[s].at = "judge"
  /\ \E to \in {"ready", "failed"} : TryTransition(job[s].unit, to)
  /\ Leave(s)
  /\ UNCHANGED <<brokerVars, tip, verified, review, queueVars, target, crashes>>

(******************************** Enqueue **********************************)

\* enqueue_merge(): what it reads of the run before it takes the queue's lock.
BeginEnqueue(s, u) ==
  /\ job[s] = Idle
  /\ state[u] = "reviewing"
  /\ review[u].head = verified[u]
  /\ job' = [job EXCEPT ![s] =
       [Idle EXCEPT !.at = "enqueue", !.unit = u, !.head = verified[u],
                    !.rid = review[u].rid]]
  /\ UNCHANGED <<brokerVars, unitVars, queueVars, target, crashes>>

MayEnqueue(u, head, rid) ==
  /\ tip[u] = head
  /\ Usable(rid, [unit |-> u, head |-> head])
  /\ rid \notin used
  /\ \A i \in DOMAIN items : items[i].rid # rid /\ items[i].unit # u

\* enqueue() under the queue's lock.  Scope and review tier are judged anew
\* from the actual diff, and may refuse.
CheckEnqueue(s) ==
  /\ job[s].at = "enqueue"
  /\ QueueFree
  /\ \/ MayEnqueue(job[s].unit, job[s].head, job[s].rid) /\ Go(s, "consume")
     \/ Leave(s)
  /\ UNCHANGED <<brokerVars, unitVars, queueVars, target, crashes>>

\* The broker checks again: the approval may have run out meanwhile.
ConsumeApproval(s) ==
  LET b == [unit |-> job[s].unit, head |-> job[s].head] IN
  /\ job[s].at = "consume"
  /\ IF Usable(job[s].rid, b)
     THEN requests' = Consumed(job[s].rid) /\ Go(s, "save")
     ELSE UNCHANGED requests /\ Leave(s)
  /\ UNCHANGED <<inboxVars, accepted, unitVars, queueVars, target, crashes>>

SaveItem(s) ==
  /\ job[s].at = "save"
  /\ items' = Append(items, [unit |-> job[s].unit, head |-> job[s].head,
                             rid |-> job[s].rid])
  /\ used' = used \cup {job[s].rid}
  /\ Go(s, "mark")
  /\ UNCHANGED <<brokerVars, unitVars, target, crashes>>

MarkQueued(s) ==
  /\ job[s].at = "mark"
  /\ TryTransition(job[s].unit, "queued_for_merge")
  /\ Leave(s)
  /\ UNCHANGED <<brokerVars, tip, verified, review, queueVars, target, crashes>>

(******************************** Process **********************************)

\* process_next(): the first item, if its branch is where it was verified.
BeginProcess(s) ==
  /\ job[s] = Idle
  /\ QueueFree
  /\ items # << >>
  /\ LET item == Head(items)
         fresh == tip[item.unit] = item.head
     IN job' = [job EXCEPT ![s] =
          IF fresh
          THEN [Idle EXCEPT !.at = "merge", !.unit = item.unit, !.head = item.head,
                            !.old = target]
          ELSE [Idle EXCEPT !.at = "finish", !.unit = item.unit, !.status = "stale"]]
  /\ UNCHANGED <<brokerVars, unitVars, queueVars, target, crashes>>

Ended(s, status) ==
  job' = [job EXCEPT ![s] =
    [Idle EXCEPT !.at = "finish", !.unit = job[s].unit, !.status = status]]

\* The merge in a throwaway worktree, from the commits read before, and the
\* gates on its result.
MergeAside(s) ==
  /\ job[s].at = "merge"
  /\ Go(s, "forward") \/ Ended(s, "conflict") \/ Ended(s, "gate_failed")
  /\ UNCHANGED <<brokerVars, unitVars, queueVars, target, crashes>>

\* A branch that is already merged merges into nothing new.
WithMerged(old, c) == IF Contains(old, c) THEN old ELSE Append(old, c)

Forwarded(s) ==
  WithMerged(job[s].old, [unit |-> job[s].unit, head |-> job[s].head])

\* Mutant of Forward: update-ref without the old value.
ForwardOver(s) ==
  /\ job[s].at = "forward"
  /\ \/ Ended(s, "target_dirty") /\ UNCHANGED target
     \/ target' = Forwarded(s) /\ Ended(s, "merged")
  /\ UNCHANGED <<brokerVars, unitVars, queueVars, crashes>>

\* Mutant of Forward: a failed update-ref goes unnoticed.
ForwardUnchecked(s) ==
  /\ job[s].at = "forward"
  /\ target' = IF target = job[s].old THEN Forwarded(s) ELSE target
  /\ Ended(s, "merged")
  /\ UNCHANGED <<brokerVars, unitVars, queueVars, crashes>>

\* _fast_forward(): where the target is checked out, a look at its checkout
\* first; otherwise compare and swap of the ref.
Forward(s) ==
  /\ job[s].at = "forward"
  /\ \/ Ended(s, "target_dirty") /\ UNCHANGED target
     \/ target # job[s].old /\ Ended(s, "stale") /\ UNCHANGED target
     \/ target = job[s].old /\ Go(s, "ff") /\ UNCHANGED target
     \/ target = job[s].old /\ target' = Forwarded(s) /\ Ended(s, "merged")
  /\ UNCHANGED <<brokerVars, unitVars, queueVars, crashes>>

\* git merge --ff-only in the checkout: an error when the target has moved on.
FastForward(s) ==
  /\ job[s].at = "ff"
  /\ IF target = job[s].old
     THEN target' = Forwarded(s) /\ Ended(s, "merged")
     ELSE UNCHANGED target /\ Leave(s)
  /\ UNCHANGED <<brokerVars, unitVars, queueVars, crashes>>

\* _finish(): the item goes, unless only the checkout was in the way.
Finish(s) ==
  /\ job[s].at = "finish"
  /\ items' = IF job[s].status = "target_dirty" THEN items ELSE Tail(items)
  /\ Go(s, "report")
  /\ UNCHANGED <<brokerVars, unitVars, used, target, crashes>>

\* process_merge_queue(): the unit follows its item.
Report(s) ==
  LET u == job[s].unit IN
  /\ job[s].at = "report"
  /\ CASE job[s].status = "merged" -> TryTransition(u, "merged")
       [] job[s].status \in {"conflict", "stale"} -> TryTransition(u, "blocked")
       [] job[s].status = "gate_failed" -> TryTransition(u, "failed")
       [] job[s].status = "target_dirty" -> UNCHANGED state
  /\ Leave(s)
  /\ UNCHANGED <<brokerVars, tip, verified, review, queueVars, target, crashes>>

(************************** Everybody else *********************************)

\* Agents that decide for themselves resolve without the inbox
\* (team/review.py).
ResolveDirectly(d) ==
  /\ requests' = Decided(d)
  /\ accepted' = accepted \cup AcceptedNow(NoFile, d)
  /\ requests' # requests
  /\ UNCHANGED <<inboxVars, unitVars, queueVars, target, job, crashes>>

\* Another attempt at a unit that went back: new commits or none, verified
\* and under review again (complete_unit and its prelude, module Conductor).
\* A stalled review is resumed as it was.
Rework(u) ==
  /\ state[u] \in {"ready", "failed", "blocked", "interrupted", "needs_user"}
  /\ state' = [state EXCEPT ![u] = "reviewing"]
  /\ \E new \in tip[u]..MaxHead :
       /\ tip' = [tip EXCEPT ![u] = new]
       /\ verified' = [verified EXCEPT ![u] = new]
  /\ UNCHANGED <<brokerVars, review, queueVars, target, job, crashes>>

\* Something commits to the unit's branch after its verification.
BranchMoves(u) ==
  /\ tip[u] < MaxHead
  /\ tip' = [tip EXCEPT ![u] = @ + 1]
  /\ UNCHANGED <<brokerVars, state, verified, review, queueVars, target, job, crashes>>

\* Others commit to the target branch.
TargetMoves ==
  LET moves == Cardinality({i \in DOMAIN target : target[i].unit = NoUnit}) IN
  /\ moves < MaxMoves
  /\ target' = Append(target, [unit |-> NoUnit, head |-> moves + 1])
  /\ UNCHANGED <<brokerVars, unitVars, queueVars, job, crashes>>

\* cancel_unit() of a unit without a runner, or a stop for the user.
StopUnit(u) ==
  /\ UnitsStopped
  /\ \E to \in {"cancelled", "failed", "needs_user"} :
       /\ state[u] \in {"reviewing", "queued_for_merge"}
       /\ TryTransition(u, to)
  /\ UNCHANGED <<brokerVars, tip, verified, review, queueVars, target, job, crashes>>

\* A session dies, having written something: every file stays as it is, and
\* the queue's lock is free.  One that dies earlier might not have begun.
Crash(s) ==
  /\ job[s].at \in {"annotate", "judge", "save", "mark", "finish", "report"}
  /\ crashes < MaxCrashes
  /\ crashes' = crashes + 1
  /\ Leave(s)
  /\ UNCHANGED <<brokerVars, unitVars, queueVars, target>>

SessionNext(s) ==
  \/ \E u \in Units : BeginReview(s, u) \/ BeginEnqueue(s, u)
  \/ RequestApproval(s) \/ AnnotateReview(s) \/ Judge(s)
  \/ CheckEnqueue(s) \/ ConsumeApproval(s) \/ SaveItem(s) \/ MarkQueued(s)
  \/ BeginProcess(s) \/ MergeAside(s) \/ Forward(s) \/ FastForward(s)
  \/ Finish(s) \/ Report(s) \/ Crash(s)

Next ==
  \/ \E s \in Sessions : SessionNext(s)
  \/ InboxNext /\ UNCHANGED <<unitVars, queueVars, target, job, crashes>>
  \/ \E d \in Decision : ResolveDirectly(d)
  \/ \E u \in Units : Rework(u) \/ BranchMoves(u) \/ StopUnit(u)
  \/ TargetMoves

Spec == Init /\ [][Next]_vars

(******************************* Properties ********************************)

\* Every item in the queue was paid for: its approval is consumed, in the
\* broker's file and in the queue's own list, and was given for this unit at
\* this head; whichever process died between the two files.
QueueEntriesPaid ==
  /\ \A i \in DOMAIN items :
       /\ requests[items[i].rid].status = "consumed"
       /\ requests[items[i].rid].for = [unit |-> items[i].unit, head |-> items[i].head]
       /\ items[i].rid \in used
  /\ \A r \in used : requests[r].status = "consumed"

\* A unit the run calls merged has a commit in the target branch.
MergedUnitLanded ==
  \A u \in Units : state[u] = "merged" => \E i \in DOMAIN target : target[i].unit = u

\* docs/runtime.md: "`enqueue_merge` and `process_merge_queue` drive the queue
\* and update unit state".  When nobody is at work and nothing was interrupted
\* or stopped, a unit whose commit is in the target is merged in the run.
LandedIsRecorded ==
  ~UnitsStopped /\ crashes = 0 /\ (\A s \in Sessions : job[s] = Idle) =>
    \A i \in DOMAIN target : target[i].unit \in Units => state[target[i].unit] = "merged"

\* The target branch and the approvals behave as promised, whatever crashes,
\* moves or runs out between the steps of the queue.
Promise ==
  INSTANCE ApprovedTarget WITH
    UnitCommit <- Binding,
    approved <- {a.decision.for : a \in {x \in accepted : x.decision.say = "approved"}}

TargetSpec == Promise!Spec

==============================================================================
