----------------------------- MODULE RunManager ------------------------------
(***************************************************************************)
(* The durable run document and the operations of runs/manager.py on it.   *)
(*                                                                         *)
(* Every operation is one critical section of RunManager._mutate: under    *)
(* the run's file lock it loads the document, checks the lease, lets the   *)
(* operation edit a copy and collect events, and appends the events one by *)
(* one before it saves.  A refused operation writes nothing, so it is a    *)
(* stutter here.  When an append fails or the process dies, the events     *)
(* already appended are the operation (module RunStore): with              *)
(* TornTransactions an operation may therefore take effect in any prefix   *)
(* of its events.                                                          *)
(*                                                                         *)
(* Time is the lease's remaining life: `left` is expires_at minus now.     *)
(***************************************************************************)
EXTENDS UnitState, Integers, Sequences

CONSTANTS
  N,                \* units are 1..N; their order is the sort order of unit ids
  Plans,            \* the dependency functions a plan may have
  Conductors, Workers, None,
  Tiers, NoTier,    \* NoTier: the routing record is invalid
  AttemptLimit,     \* budget.attempts of a unit, per tier
  CostLimit,        \* budget.maximum_cost_usd of a unit
  Charges,          \* costs one attempt can report
  Pids,             \* runner processes
  Ttl,              \* the lease's life, in ticks
  MaxGrant,         \* bound: attempts an owner may add to a unit's budget
  MaxHandoffs,      \* bound: handoffs a run records
  TornTransactions  \* whether appending a transaction can stop half way

Unit == 1..N

ASSUME SizeAssumption == N \in Nat \ {0}
ASSUME PlanAssumption == Plans \subseteq [Unit -> SUBSET Unit]
\* analyze_plan refuses a cyclic plan.
ASSUME AcyclicAssumption ==
  \A plan \in Plans : \E rank \in [Unit -> Unit] :
    \A u \in Unit : \A d \in plan[u] : rank[d] < rank[u]
ASSUME ActorAssumption == None \notin Conductors \cup Workers
ASSUME TierAssumption == NoTier \notin Tiers
ASSUME BoundAssumption ==
  /\ AttemptLimit \in Nat /\ CostLimit \in Nat /\ Charges \subseteq Nat
  /\ Pids \subseteq Nat \ {0}
  /\ Ttl \in Nat \ {0} /\ MaxGrant \in Nat /\ MaxHandoffs \in Nat
  /\ TornTransactions \in BOOLEAN

VARIABLES
  units,     \* run["units"]
  lease,     \* run["lease"]
  handoffs,  \* run["handoffs"]
  plan       \* run["plan"]: what each unit depends on

vars == <<units, lease, handoffs, plan>>

(***************************** Unit records ********************************)

\* last_reason: whether it is one of REVIEW_STALLS is all that anyone asks.
Reason == {"review_stall", "other"}

NoPid == 0
NoProcess == [conductor |-> None, pid |-> NoPid, finished |-> FALSE]

NoHandoff == 0      \* handoff_ref is None
Dangling == -1      \* handoff_ref names a handoff the log lost

NewUnit ==
  [state |-> "pending", reason |-> "other", owner |-> None,
   attempts |-> 0, byTier |-> [t \in Tiers |-> 0], grant |-> 0, cost |-> 0,
   handoff |-> [attempt |-> 0, valid |-> FALSE],   \* annotations.handoff
   verified |-> 0,          \* the attempt annotations.verification is about
   process |-> NoProcess,
   workspace |-> FALSE, handoffRef |-> NoHandoff]

UnitRecord ==
  [state : State, reason : Reason, owner : Workers \cup {None},
   attempts : Nat, byTier : [Tiers -> Nat], grant : 0..MaxGrant,
   cost : 0..(CostLimit + 1),
   handoff : [attempt : Nat, valid : BOOLEAN], verified : Nat,
   process : [conductor : Conductors \cup {None}, pid : Pids \cup {NoPid},
              finished : BOOLEAN],
   workspace : BOOLEAN, handoffRef : Int]

HandoffRecord ==
  [kind : {"conductor"}, from : Conductors, to : Conductors] \cup
  [kind : {"unit"}, unit : Unit, from : Workers \cup {None}, to : Workers]

TypeOK ==
  /\ units \in [Unit -> UnitRecord]
  /\ lease \in [holder : Conductors, left : 0..Ttl]
  /\ handoffs \in Seq(HandoffRecord)
  /\ plan \in Plans

(******************************* Leases ************************************)

Fresh(c) == [holder |-> c, left |-> Ttl]

\* require_lease
HasLease(c) == lease.holder = c /\ lease.left > 0

\* A lease in its last tick no longer protects its holder.
BlockedEarly(c) == lease.holder # c /\ lease.left > 1

\* _lease_blocker: somebody else's unexpired lease.
Blocked(c) == lease.holder # c /\ lease.left > 0

\* The handoff recorded when the lease passes to c, if it changes hands.
HandOver(c) ==
  IF lease.holder = c THEN handoffs
  ELSE Append(handoffs, [kind |-> "conductor", from |-> lease.holder, to |-> c])

RoomFor(c) == lease.holder # c => Len(handoffs) < MaxHandoffs

(*************************** Unit transitions ******************************)

\* How far along the sorted units a run of events got before it was cut off.
Cut == IF TornTransactions THEN 0..N ELSE {N}

CanMove(u, s) ==
  /\ s \in Targets(units[u].state)
  /\ s = "verifying" =>
       units[u].handoff = [attempt |-> units[u].attempts, valid |-> TRUE]

Moved(unit, s, why) == [unit EXCEPT !.state = s, !.reason = why]

\* One merged dependency is taken for all of them.
PromotableAnyMerged(us, v) ==
  us[v].state = "pending" /\ \E d \in plan[v] : us[d].state = "merged"

\* A pending unit whose dependencies are all merged, in run document us.
Promotable(us, v) ==
  us[v].state = "pending" /\ \A d \in plan[v] : us[d].state = "merged"

\* _promote_ready, of which the events of the units up to k were appended.
Promoted(us, k) ==
  [v \in Unit |-> IF v <= k /\ Promotable(us, v)
                  THEN Moved(us[v], "ready", "other") ELSE us[v]]

(************************ Creating and replacing ***************************)

\* The roots of plan p are promoted, up to k.
Created(p, k) ==
  [v \in Unit |-> IF v <= k /\ p[v] = {} THEN Moved(NewUnit, "ready", "other")
                  ELSE NewUnit]

Init ==
  /\ plan \in Plans
  /\ \E k \in Cut : units = Created(plan, k)
  /\ \E c \in Conductors : lease = Fresh(c)
  /\ handoffs = << >>

ReplaceRun(c, p) ==
  /\ \A u \in Unit : /\ units[u].state \in {"pending", "ready"}
                     /\ units[u].attempts = 0 /\ ~units[u].workspace
  /\ ~Blocked(c)
  /\ plan' = p
  /\ \E k \in Cut : units' = Created(p, k)
  /\ lease' = Fresh(c)
  /\ handoffs' = << >>

(************************** Lease operations *******************************)

AcquireLease(c) ==
  /\ ~Blocked(c)
  /\ RoomFor(c)
  /\ lease' = Fresh(c)
  /\ handoffs' = HandOver(c)
  /\ UNCHANGED <<units, plan>>

\* Renewing adds a term instead of starting one.
RenewLeaseExtends(c) ==
  /\ HasLease(c)
  /\ lease' = [lease EXCEPT !.left = @ + Ttl]
  /\ UNCHANGED <<units, handoffs, plan>>

RenewLease(c) ==
  /\ HasLease(c)
  /\ lease' = Fresh(c)
  /\ UNCHANGED <<units, handoffs, plan>>

ReleaseLease(c) ==
  /\ HasLease(c)
  /\ lease' = [lease EXCEPT !.left = 0]
  /\ UNCHANGED <<units, handoffs, plan>>

\* transfer_lease records the handoff even when the holder names itself.
TransferLease(c, d) ==
  /\ HasLease(c)
  /\ Len(handoffs) < MaxHandoffs
  /\ lease' = Fresh(d)
  /\ handoffs' = Append(handoffs, [kind |-> "conductor", from |-> c, to |-> d])
  /\ UNCHANGED <<units, plan>>

Tick ==
  /\ lease.left > 0
  /\ lease' = [lease EXCEPT !.left = @ - 1]
  /\ UNCHANGED <<units, handoffs, plan>>

(*************************** Unit operations *******************************)

Transition(c, u, s, why) ==
  /\ HasLease(c)
  /\ s # "assigned"
  /\ CanMove(u, s)
  /\ LET moved == [units EXCEPT ![u] = Moved(@, s, why)]
     IN IF s = "merged" THEN \E k \in Cut : units' = Promoted(moved, k)
        ELSE units' = moved
  /\ UNCHANGED <<lease, handoffs, plan>>

\* Budgets compared one attempt late.
ExhaustedLate(unit, t) ==
  \/ unit.byTier[t] > AttemptLimit + unit.grant
  \/ unit.cost >= CostLimit

\* _budget_exhausted: attempts at tier t, or cost.
Exhausted(unit, t) ==
  \/ unit.byTier[t] >= AttemptLimit + unit.grant
  \/ unit.cost >= CostLimit

\* _assign: worker w gets the next attempt at tier t, or the unit waits for
\* the owner.
AssignOutcome(unit, w, t) ==
  IF t = NoTier \/ Exhausted(unit, t) THEN Moved(unit, "needs_user", "other")
  ELSE [Moved(unit, "assigned", "other") EXCEPT
          !.attempts = @ + 1, !.byTier[t] = @ + 1, !.owner = w]

\* The owner is not asked about.
AssignAnyOwner(c, u, w, t) ==
  /\ HasLease(c)
  /\ units[u].state = "ready"
  /\ units' = [units EXCEPT ![u] = AssignOutcome(@, w, t)]
  /\ UNCHANGED <<lease, handoffs, plan>>

\* Whatever the dispatcher's guard vetoes is simply not requested here.
Assign(c, u, w, t) ==
  /\ HasLease(c)
  /\ units[u].state = "ready"
  /\ units[u].owner \in {None, w}
  /\ units' = [units EXCEPT ![u] = AssignOutcome(@, w, t)]
  /\ UNCHANGED <<lease, handoffs, plan>>

\* The id of the next handoff: its place in the list.
HandoffId == Len(handoffs) + 1

Reassign(c, u, w, t) ==
  LET old == units[u]
      parked == [IF old.state = "ready" THEN old ELSE Moved(old, "ready", "other")
                 EXCEPT !.process = NoProcess]
      given == [parked EXCEPT !.owner = w, !.handoffRef = HandoffId]
      recorded == Append(handoffs, [kind |-> "unit", unit |-> u,
                                    from |-> old.owner, to |-> w])
  IN /\ HasLease(c)
     /\ old.state \in STOPPED
     /\ Len(handoffs) < MaxHandoffs
     /\ \/ /\ units' = [units EXCEPT ![u] = AssignOutcome(given, w, t)]
           /\ handoffs' = recorded
        \* Cut off before the assignment's event.
        \/ /\ TornTransactions
           /\ units' = [units EXCEPT ![u] = given]
           /\ handoffs' = recorded
        \* Cut off before handoff.recorded: the unit names a handoff that was lost.
        \/ /\ TornTransactions /\ old.state # "ready"
           /\ units' = [units EXCEPT ![u] = [parked EXCEPT !.handoffRef = Dangling]]
           /\ UNCHANGED handoffs
     /\ UNCHANGED <<lease, plan>>

RecordProcess(c, u, pid) ==
  /\ HasLease(c)
  /\ units' = [units EXCEPT ![u].process =
                 [conductor |-> c, pid |-> pid, finished |-> FALSE]]
  /\ UNCHANGED <<lease, handoffs, plan>>

RecordProcessExit(c, u) ==
  /\ HasLease(c)
  /\ units' = [units EXCEPT ![u].process.finished = TRUE]
  /\ UNCHANGED <<lease, handoffs, plan>>

\* surrender_unit needs no lease, only to be the conductor of the process.
Surrender(c, u) ==
  /\ units[u].process.conductor = c
  /\ units[u].state \in IN_FLIGHT
  /\ units' = [units EXCEPT ![u] = Moved(@, "needs_user", "other")]
  /\ UNCHANGED <<lease, handoffs, plan>>

RecordHandoff(c, u, valid) ==
  /\ HasLease(c)
  /\ units' = [units EXCEPT ![u].handoff =
                 [attempt |-> units[u].attempts, valid |-> valid]]
  /\ UNCHANGED <<lease, handoffs, plan>>

RecordWorkspace(c, u) ==
  /\ HasLease(c)
  /\ units' = [units EXCEPT ![u].workspace = TRUE]
  /\ UNCHANGED <<lease, handoffs, plan>>

\* annotate_unit "verification" and "budget_grant": the keys a guard reads.
AnnotateVerification(c, u) ==
  /\ HasLease(c)
  /\ units' = [units EXCEPT ![u].verified = units[u].attempts]
  /\ UNCHANGED <<lease, handoffs, plan>>

AnnotateGrant(c, u, g) ==
  /\ HasLease(c)
  /\ units' = [units EXCEPT ![u].grant = g]
  /\ UNCHANGED <<lease, handoffs, plan>>

\* Costs above the limit are all alike, so they saturate one above it.
Charged(unit, x) ==
  [unit EXCEPT !.cost = IF @ + x > CostLimit THEN CostLimit + 1 ELSE @ + x]

RecordUsage(c, u, x) ==
  LET charged == Charged(units[u], x)
      over == charged.cost > CostLimit /\ "needs_user" \in Targets(units[u].state)
  IN /\ HasLease(c)
     /\ \/ units' = [units EXCEPT ![u] = IF over THEN Moved(charged, "needs_user", "other")
                                         ELSE charged]
        \* Cut off between unit.updated and the state change.
        \/ TornTransactions /\ over /\ units' = [units EXCEPT ![u] = charged]
     /\ UNCHANGED <<lease, handoffs, plan>>

(******************************* Resume ************************************)

Liveness == {"alive", "dead", "unverified"}

\* What the liveness check may answer for the unit's recorded process: a
\* finished or absent process counts as dead without asking.
LivenessOf(unit) ==
  IF unit.process = NoProcess \/ unit.process.finished THEN {"dead"} ELSE Liveness

\* resume, of which the events of the units up to k were appended.
AfterResume(status, k) ==
  [u \in Unit |->
     CASE u > k \/ units[u].state \notin IN_FLIGHT \/ status[u] = "alive" -> units[u]
       [] OTHER -> Moved(units[u],
                         IF status[u] = "dead" THEN "interrupted" ELSE "needs_user",
                         "other")]

Resume(c, status) ==
  /\ ~Blocked(c)
  /\ RoomFor(c)
  /\ lease' = Fresh(c)
  /\ handoffs' = HandOver(c)
  /\ \E k \in Cut : units' = AfterResume(status, k)
  /\ UNCHANGED plan

(**************************** The specification ****************************)

\* The transitions the callers in src/ request. A pending unit is only ever
\* promoted or cancelled: transition() itself would take it to `ready` or
\* `blocked` without a look at its dependencies, and no caller asks for that.
\* The review-stall reasons come with needs_user.
Requested(u, s, why) ==
  /\ s \in {"ready", "blocked"} => units[u].state # "pending"
  /\ why = "review_stall" => s = "needs_user"

\* What a runner's attempt leaves on file.  The caller looked at the unit's
\* state some calls ago, so it may have moved on since.
RecordStep(c, u) ==
  \/ \E pid \in Pids : RecordProcess(c, u, pid)
  \/ RecordProcessExit(c, u)
  \/ \E valid \in BOOLEAN : RecordHandoff(c, u, valid)
  \/ RecordWorkspace(c, u)
  \/ AnnotateVerification(c, u)
  \/ \E x \in Charges : RecordUsage(c, u, x)

UnitStep(c, u) ==
  \/ \E s \in State, why \in Reason : Requested(u, s, why) /\ Transition(c, u, s, why)
  \/ \E w \in Workers, t \in Tiers \cup {NoTier} :
       Assign(c, u, w, t) \/ Reassign(c, u, w, t)
  \/ Surrender(c, u)
  \/ units[u].attempts > 0 /\ RecordStep(c, u)
  \/ \E g \in 1..MaxGrant : AnnotateGrant(c, u, g)

LeaseStep(c) ==
  \/ AcquireLease(c) \/ RenewLease(c) \/ ReleaseLease(c)
  \/ \E d \in Conductors : TransferLease(c, d)
  \/ \E status \in [Unit -> Liveness] :
       (\A u \in Unit : status[u] \in LivenessOf(units[u])) /\ Resume(c, status)

Next ==
  \/ \E c \in Conductors :
       \/ LeaseStep(c)
       \/ \E p \in Plans : ReplaceRun(c, p)
       \/ \E u \in Unit : UnitStep(c, u)
  \/ Tick

Spec == Init /\ [][Next]_vars

(***************************** Properties **********************************)

\* A unit leaves `pending` (other than to be cancelled) only once everything
\* it depends on is merged, and stays that way: no retry, healing step,
\* reassignment, resume or half-written transaction starts work whose
\* dependencies are missing from the target branch (_promote_ready, the only
\* way out of pending besides cancelling).
DependenciesMerged ==
  \A u \in Unit : units[u].state \notin {"pending", "cancelled"} =>
    \A d \in plan[u] : units[d].state = "merged"

\* "Pending units become ready automatically once all dependencies are
\* merged" (docs/runtime.md): no unit with dependencies is left pending when
\* they are all merged.
PromotedWhenMerged ==
  \A u \in Unit : units[u].state = "pending" /\ plan[u] # {} =>
    \E d \in plan[u] : units[d].state # "merged"

\* A unit passes from one owner to another only with a handoff from the old
\* owner to the new one recorded in the same step, which the unit references:
\* assign_unit never takes a unit over silently.
OwnershipChangesByHandoff ==
  [][\A u \in Unit :
       units[u].owner # None /\ units'[u].owner \notin {units[u].owner, None} =>
         /\ handoffs' # << >>
         /\ units'[u].handoffRef = Len(handoffs')
         /\ handoffs'[Len(handoffs')] =
              [kind |-> "unit", unit |-> u,
               from |-> units[u].owner, to |-> units'[u].owner]]_vars

\* The lease passes to another conductor only when it has run out or its
\* holder gives it away, and a conductor handoff records it. Replacing the
\* plan of an undispatched run starts its history over instead.
LeaseTakeoverRecorded ==
  [][lease'.holder # lease.holder =>
       \/ /\ handoffs' = Append(handoffs, [kind |-> "conductor",
                                 from |-> lease.holder, to |-> lease'.holder])
          /\ lease.left = 0 \/ TransferLease(lease.holder, lease'.holder)
       \/ lease.left = 0 /\ handoffs' = << >>]_vars

\* No tier of a unit gets more attempts than its budget plus what the owner
\* may grant, however failures, reassignments, takeovers, half-written
\* transactions and resumes interleave (_budget_exhausted).
BudgetBound ==
  \A u \in Unit, t \in Tiers : units[u].byTier[t] <= AttemptLimit + MaxGrant

==============================================================================
