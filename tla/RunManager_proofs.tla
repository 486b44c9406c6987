-------------------------- MODULE RunManager_proofs --------------------------
(***************************************************************************)
(* Theorems about RunManager, for every plan, number of units, set of      *)
(* conductors and workers, budget and bound: what a run is made of, what a *)
(* merged unit rests on, who owns a unit and a run, and what an owner may  *)
(* spend.                                                                  *)
(***************************************************************************)
EXTENDS RunManager, TLAPS

USE SizeAssumption, PlanAssumption, ActorAssumption, TierAssumption, BoundAssumption

(************************ Records and their updates ************************)

\* A new unit's record is a unit record.
LEMMA NewUnitType == NewUnit \in UnitRecord
BY DEF NewUnit, UnitRecord, State, Reason, NoProcess, NoPid, NoHandoff

\* So is one whose state was set (_set_state).
LEMMA MovedType ==
  ASSUME NEW unit \in UnitRecord, NEW s \in State, NEW why \in Reason
  PROVE  Moved(unit, s, why) \in UnitRecord
BY DEF Moved, UnitRecord

\* ... or whose attempts were counted and owner set (_assign).
LEMMA AttemptCountedType ==
  ASSUME NEW unit \in UnitRecord, NEW n \in Nat, NEW tiers \in [Tiers -> Nat],
         NEW w \in Workers
  PROVE  [unit EXCEPT !.attempts = n, !.byTier = tiers, !.owner = w] \in UnitRecord
BY DEF UnitRecord

\* Whatever comes of an assignment is a unit record.
LEMMA AssignOutcomeType ==
  ASSUME NEW unit \in UnitRecord, NEW w \in Workers, NEW t \in Tiers \cup {NoTier}
  PROVE  AssignOutcome(unit, w, t) \in UnitRecord
<1>1. CASE t = NoTier \/ Exhausted(unit, t)
  BY <1>1, MovedType DEF AssignOutcome, State, Reason
<1>2. CASE ~(t = NoTier \/ Exhausted(unit, t))
  <2> DEFINE moved == Moved(unit, "assigned", "other")
             tiers == [moved.byTier EXCEPT ![t] = @ + 1]
  <2>1. moved \in UnitRecord
    BY MovedType DEF State, Reason
  <2>2. tiers \in [Tiers -> Nat] /\ moved.attempts + 1 \in Nat
    BY <1>2, <2>1 DEF UnitRecord
  <2>3. AssignOutcome(unit, w, t) =
          [moved EXCEPT !.attempts = moved.attempts + 1, !.byTier = tiers, !.owner = w]
    BY <1>2, Zenon DEF AssignOutcome
  <2> HIDE DEF moved, tiers
  <2>4. [moved EXCEPT !.attempts = moved.attempts + 1, !.byTier = tiers, !.owner = w]
          \in UnitRecord
    BY <2>1, <2>2, AttemptCountedType, Zenon
  <2> QED
    BY <2>3, <2>4, Zenon
<1> QED
  BY <1>1, <1>2

\* Charging a cost keeps the record, and the cost within its saturated range
\* (record_usage).
LEMMA ChargedType ==
  ASSUME NEW unit \in UnitRecord, NEW x \in Charges
  PROVE  Charged(unit, x) \in UnitRecord
BY DEF Charged, UnitRecord

\* Transitions lead to states.
LEMMA TargetsType == \A s \in State : Targets(s) \subseteq State
BY DEF Targets, State, TERMINAL

\* Promoting keeps the units well formed, wherever it is cut off.
LEMMA PromotedType ==
  ASSUME NEW us \in [Unit -> UnitRecord], NEW k
  PROVE  Promoted(us, k) \in [Unit -> UnitRecord]
BY MovedType DEF Promoted, State, Reason

\* A new document's units are well formed, wherever creating it is cut off.
LEMMA CreatedType ==
  ASSUME NEW p \in Plans, NEW k
  PROVE  Created(p, k) \in [Unit -> UnitRecord]
BY MovedType, NewUnitType DEF Created, State, Reason

(*************************** Type correctness ******************************)

\* A change of conductors adds a well-formed handoff.
LEMMA HandOverType ==
  ASSUME TypeOK, NEW c \in Conductors
  PROVE  HandOver(c) \in Seq(HandoffRecord)
BY DEF HandOver, TypeOK, HandoffRecord

\* A new lease is a lease.
LEMMA FreshType == \A c \in Conductors : Fresh(c) \in [holder : Conductors, left : 0..Ttl]
BY DEF Fresh

\* A run is created well formed.
LEMMA InitType == Init => TypeOK
BY CreatedType, FreshType DEF Init, TypeOK

\* Replacing the plan keeps the document well formed.
LEMMA ReplaceRunType ==
  TypeOK /\ (\E c \in Conductors, p \in Plans : ReplaceRun(c, p)) => TypeOK'
BY CreatedType, FreshType DEF ReplaceRun, TypeOK

\* So do the lease's operations and the clock.
LEMMA LeaseType ==
  ASSUME TypeOK, NEW c \in Conductors,
         \/ AcquireLease(c) \/ RenewLease(c) \/ ReleaseLease(c) \/ Tick
         \/ \E d \in Conductors : TransferLease(c, d)
  PROVE  TypeOK'
<1>1. CASE AcquireLease(c)
  BY <1>1, FreshType, HandOverType DEF AcquireLease, TypeOK
<1>2. CASE RenewLease(c)
  BY <1>2, FreshType DEF RenewLease, TypeOK
<1>3. CASE ReleaseLease(c) \/ Tick
  BY <1>3 DEF ReleaseLease, Tick, TypeOK
<1>4. ASSUME NEW d \in Conductors, TransferLease(c, d)
      PROVE  TypeOK'
  BY <1>4, FreshType DEF TransferLease, HandoffRecord, TypeOK
<1> QED
  BY <1>1, <1>2, <1>3, <1>4

\* So does a transition, with the promotions a merge brings.
LEMMA TransitionType ==
  ASSUME TypeOK, NEW c \in Conductors, NEW u \in Unit, NEW s \in State,
         NEW why \in Reason, Transition(c, u, s, why)
  PROVE  TypeOK'
<1> DEFINE moved == [units EXCEPT ![u] = Moved(@, s, why)]
<1>1. moved \in [Unit -> UnitRecord]
  BY MovedType DEF TypeOK
<1>2. units' = moved \/ \E k \in Cut : units' = Promoted(moved, k)
  BY DEF Transition
<1> HIDE DEF moved
<1>3. units' \in [Unit -> UnitRecord]
  BY <1>1, <1>2, PromotedType
<1> QED
  BY <1>3 DEF Transition, TypeOK

\* So does assign_unit.
LEMMA AssignType ==
  ASSUME TypeOK, NEW c \in Conductors, NEW u \in Unit, NEW w \in Workers,
         NEW t \in Tiers \cup {NoTier}, Assign(c, u, w, t)
  PROVE  TypeOK'
BY AssignOutcomeType DEF Assign, TypeOK

\* So does reassign_unit, in whole and cut off at either place.
LEMMA ReassignType ==
  ASSUME TypeOK, NEW c \in Conductors, NEW u \in Unit, NEW w \in Workers,
         NEW t \in Tiers \cup {NoTier}, Reassign(c, u, w, t)
  PROVE  TypeOK'
<1> DEFINE old == units[u]
           ready == IF old.state = "ready" THEN old ELSE Moved(old, "ready", "other")
           parked == [ready EXCEPT !.process = NoProcess]
           given == [parked EXCEPT !.owner = w, !.handoffRef = HandoffId]
           lost == [parked EXCEPT !.handoffRef = Dangling]
           handoff == [kind |-> "unit", unit |-> u, from |-> old.owner, to |-> w]
<1>1. old \in UnitRecord /\ ready \in UnitRecord
  BY MovedType DEF TypeOK, State, Reason
<1>2. HandoffId \in Int
  BY DEF HandoffId, TypeOK
<1>3. /\ parked \in UnitRecord
      /\ given \in UnitRecord
      /\ lost \in UnitRecord
  <2> HIDE DEF ready
  <2>1. parked \in UnitRecord
    BY <1>1 DEF UnitRecord, NoProcess, NoPid
  <2> HIDE DEF parked
  <2>2. given \in UnitRecord
    BY <1>2, <2>1 DEF UnitRecord
  <2>3. lost \in UnitRecord
    BY <2>1 DEF UnitRecord, Dangling
  <2> QED
    BY <2>1, <2>2, <2>3
<1>4. Append(handoffs, handoff) \in Seq(HandoffRecord)
  BY <1>1 DEF TypeOK, HandoffRecord, UnitRecord
<1>5. /\ \/ units' = [units EXCEPT ![u] = AssignOutcome(given, w, t)]
         \/ units' = [units EXCEPT ![u] = given]
         \/ units' = [units EXCEPT ![u] = lost]
      /\ handoffs' \in {Append(handoffs, handoff), handoffs}
      /\ UNCHANGED <<lease, plan>>
  BY DEF Reassign
<1> HIDE DEF parked, given, lost, handoff
<1>6. AssignOutcome(given, w, t) \in UnitRecord
  BY <1>3, AssignOutcomeType
<1>7. units' \in [Unit -> UnitRecord]
  BY <1>3, <1>5, <1>6 DEF TypeOK
<1> QED
  BY <1>4, <1>5, <1>7 DEF TypeOK

\* So does surrender_unit.
LEMMA SurrenderType ==
  ASSUME TypeOK, NEW c \in Conductors, NEW u \in Unit, Surrender(c, u)
  PROVE  TypeOK'
BY MovedType DEF Surrender, TypeOK, State, Reason

\* So does what an attempt leaves on file.
LEMMA RecordType ==
  ASSUME TypeOK, NEW c \in Conductors, NEW u \in Unit, RecordStep(c, u)
  PROVE  TypeOK'
<1>0. units[u] \in UnitRecord
  BY DEF TypeOK
<1>1. ASSUME NEW pid \in Pids, RecordProcess(c, u, pid)
      PROVE  TypeOK'
  <2>1. [units[u] EXCEPT !.process = [conductor |-> c, pid |-> pid, finished |-> FALSE]]
          \in UnitRecord
    BY <1>0 DEF UnitRecord
  <2> QED
    BY <1>1, <2>1 DEF RecordProcess, TypeOK
<1>2. CASE RecordProcessExit(c, u)
  <2>1. [units[u] EXCEPT !.process.finished = TRUE] \in UnitRecord
    BY <1>0 DEF UnitRecord
  <2> QED
    BY <1>2, <2>1 DEF RecordProcessExit, TypeOK
<1>3. ASSUME NEW valid \in BOOLEAN, RecordHandoff(c, u, valid)
      PROVE  TypeOK'
  <2>1. [units[u] EXCEPT !.handoff = [attempt |-> units[u].attempts, valid |-> valid]]
          \in UnitRecord
    BY <1>0 DEF UnitRecord
  <2> QED
    BY <1>3, <2>1 DEF RecordHandoff, TypeOK
<1>4. CASE RecordWorkspace(c, u)
  <2>1. [units[u] EXCEPT !.workspace = TRUE] \in UnitRecord
    BY <1>0 DEF UnitRecord
  <2> QED
    BY <1>4, <2>1 DEF RecordWorkspace, TypeOK
<1>5. CASE AnnotateVerification(c, u)
  <2>1. [units[u] EXCEPT !.verified = units[u].attempts] \in UnitRecord
    BY <1>0 DEF UnitRecord
  <2> QED
    BY <1>5, <2>1 DEF AnnotateVerification, TypeOK
<1>6. ASSUME NEW x \in Charges, RecordUsage(c, u, x)
      PROVE  TypeOK'
  BY <1>6, ChargedType, MovedType DEF RecordUsage, TypeOK, State, Reason
<1> QED
  BY <1>1, <1>2, <1>3, <1>4, <1>5, <1>6 DEF RecordStep

\* So does the owner's grant.
LEMMA GrantType ==
  ASSUME TypeOK, NEW c \in Conductors, NEW u \in Unit, NEW g \in 1..MaxGrant,
         AnnotateGrant(c, u, g)
  PROVE  TypeOK'
<1>0. units[u] \in UnitRecord
  BY DEF TypeOK
<1>1. [units[u] EXCEPT !.grant = g] \in UnitRecord
  BY <1>0 DEF UnitRecord
<1> QED
  BY <1>1 DEF AnnotateGrant, TypeOK

\* So does resume, wherever it is cut off.
LEMMA ResumeType ==
  ASSUME TypeOK, NEW c \in Conductors, NEW status \in [Unit -> Liveness],
         Resume(c, status)
  PROVE  TypeOK'
<1>1. \A k : AfterResume(status, k) \in [Unit -> UnitRecord]
  BY MovedType DEF AfterResume, TypeOK, State, Reason
<1> QED
  BY <1>1, FreshType, HandOverType DEF Resume, TypeOK

\* Every operation on a unit keeps the document well formed.
LEMMA UnitStepType ==
  ASSUME TypeOK, NEW c \in Conductors, NEW u \in Unit, UnitStep(c, u)
  PROVE  TypeOK'
BY TransitionType, AssignType, ReassignType, SurrenderType, RecordType, GrantType
   DEF UnitStep

\* Every operation on the lease keeps the document well formed.
LEMMA LeaseStepType ==
  ASSUME TypeOK, NEW c \in Conductors, LeaseStep(c)
  PROVE  TypeOK'
BY LeaseType, ResumeType DEF LeaseStep

\* Every step keeps the document well formed.
LEMMA TypeInductive == TypeOK /\ [Next]_vars => TypeOK'
<1> SUFFICES ASSUME TypeOK, [Next]_vars PROVE TypeOK'
  OBVIOUS
<1>1. CASE UNCHANGED vars
  BY <1>1 DEF vars, TypeOK
<1>2. ASSUME NEW c \in Conductors, LeaseStep(c) PROVE TypeOK'
  BY <1>2, LeaseStepType
<1>3. ASSUME NEW c \in Conductors, NEW p \in Plans, ReplaceRun(c, p) PROVE TypeOK'
  BY <1>3, ReplaceRunType
<1>4. ASSUME NEW c \in Conductors, NEW u \in Unit, UnitStep(c, u) PROVE TypeOK'
  BY <1>4, UnitStepType
<1>5. CASE Tick
  BY <1>5 DEF Tick, TypeOK
<1> QED
  BY <1>1, <1>2, <1>3, <1>4, <1>5 DEF Next

\* Every reachable document is well formed.
THEOREM TypeCorrect == Spec => []TypeOK
BY TypeInductive, InitType, PTL DEF Spec

(************************ Dependencies are merged **************************)

\* A merged unit stays merged, and a unit is begun only by promoting it.
Begun(state) == state \notin {"pending", "cancelled"}

MergedOrBegunStays ==
  \A u \in Unit :
    /\ units[u].state = "merged" => units'[u].state = "merged"
    /\ Begun(units'[u].state) =>
         \/ Begun(units[u].state)
         \/ \A d \in plan[u] : units'[d].state = "merged"

\* A step that keeps the plan and satisfies this keeps the invariant.
LEMMA MergedOrBegunSuffices ==
  ASSUME TypeOK, DependenciesMerged, MergedOrBegunStays, UNCHANGED plan
  PROVE  DependenciesMerged'
BY DEF TypeOK, DependenciesMerged, MergedOrBegunStays, Begun

\* Steps that leave every unit other than u alone, and u neither merged nor
\* about to begin.
LEMMA OneUnitStays ==
  ASSUME TypeOK, NEW u \in Unit, NEW record, units' = [units EXCEPT ![u] = record],
         \/ record.state = units[u].state
         \/ record.state = "cancelled" /\ units[u].state # "merged"
         \/ units[u].state \notin {"pending", "cancelled", "merged"}
  PROVE  MergedOrBegunStays
BY DEF TypeOK, MergedOrBegunStays, Begun

\* A step that changes no state satisfies it.
LEMMA SameStates ==
  ASSUME \A u \in Unit : units'[u].state = units[u].state
  PROVE  MergedOrBegunStays
BY DEF MergedOrBegunStays

\* A moved unit is in the state it was moved to.
LEMMA MovedState == \A unit \in UnitRecord, s \in State, why \in Reason :
                      Moved(unit, s, why).state = s
BY DEF Moved, UnitRecord

\* Promoting leaves a unit as it is or, if promotable, makes it ready.
LEMMA PromotedState ==
  ASSUME NEW us \in [Unit -> UnitRecord], NEW k, NEW v \in Unit
  PROVE  \/ Promoted(us, k)[v] = us[v]
         \/ Promotable(us, v) /\ Promoted(us, k)[v].state = "ready"
BY MovedState DEF Promoted, State, Reason

\* A transition begins no unit, and its promotions only ones whose
\* dependencies are merged (transition, _promote_ready).
LEMMA TransitionStays ==
  ASSUME TypeOK, NEW c \in Conductors, NEW u \in Unit, NEW s \in State,
         NEW why \in Reason, Requested(u, s, why), Transition(c, u, s, why)
  PROVE  MergedOrBegunStays
<1> DEFINE moved == [units EXCEPT ![u] = Moved(@, s, why)]
<1>1. moved \in [Unit -> UnitRecord] /\ moved[u].state = s
  BY MovedType, MovedState DEF TypeOK
<1>2. /\ units[u].state # "merged"
      /\ Begun(s) => Begun(units[u].state)
  BY DEF Transition, Requested, CanMove, Targets, TERMINAL, Begun, State, TypeOK, UnitRecord
<1>3. \A v \in Unit : v # u => moved[v] = units[v]
  BY DEF TypeOK
<1>4. units' = moved \/ \E k \in Cut : units' = Promoted(moved, k)
  BY DEF Transition
<1> HIDE DEF moved
<1>5. CASE units' = moved
  BY <1>1, <1>2, <1>3, <1>5 DEF MergedOrBegunStays
<1>6. ASSUME NEW k \in Cut, units' = Promoted(moved, k)
      PROVE  MergedOrBegunStays
  <2> SUFFICES ASSUME NEW v \in Unit
               PROVE  /\ units[v].state = "merged" => units'[v].state = "merged"
                      /\ Begun(units'[v].state) =>
                           \/ Begun(units[v].state)
                           \/ \A d \in plan[v] : units'[d].state = "merged"
    BY DEF MergedOrBegunStays
  <2>1. \A d \in Unit : moved[d].state = "merged" => units'[d].state = "merged"
    BY <1>1, <1>6, PromotedState DEF Promotable
  <2>2. CASE units'[v] = moved[v]
    BY <1>1, <1>2, <1>3, <2>2
  <2>3. CASE Promotable(moved, v) /\ units'[v].state = "ready"
    BY <1>1, <1>2, <1>3, <2>1, <2>3, PlanAssumption DEF Promotable, TypeOK
  <2> QED
    BY <1>1, <1>6, <2>2, <2>3, PromotedState
<1> QED
  BY <1>4, <1>5, <1>6

\* assign_unit starts from `ready`.
LEMMA AssignStays ==
  ASSUME TypeOK, NEW c \in Conductors, NEW u \in Unit, NEW w \in Workers,
         NEW t \in Tiers \cup {NoTier}, Assign(c, u, w, t)
  PROVE  MergedOrBegunStays
BY OneUnitStays DEF Assign

\* reassign_unit starts from a stopped state.
LEMMA ReassignStays ==
  ASSUME TypeOK, NEW c \in Conductors, NEW u \in Unit, NEW w \in Workers,
         NEW t \in Tiers \cup {NoTier}, Reassign(c, u, w, t)
  PROVE  MergedOrBegunStays
<1>1. units[u].state \notin {"pending", "cancelled", "merged"}
  BY DEF Reassign, STOPPED
<1>2. PICK record : units' = [units EXCEPT ![u] = record]
  BY DEF Reassign
<1> QED
  BY <1>1, <1>2, OneUnitStays

\* surrender_unit starts from a state in flight.
LEMMA SurrenderStays ==
  ASSUME TypeOK, NEW c \in Conductors, NEW u \in Unit, Surrender(c, u)
  PROVE  MergedOrBegunStays
BY OneUnitStays DEF Surrender, IN_FLIGHT

\* What an attempt leaves on file changes no state, except that a cost overrun
\* stops a unit that was begun.
LEMMA RecordStays ==
  ASSUME TypeOK, NEW c \in Conductors, NEW u \in Unit, RecordStep(c, u)
  PROVE  MergedOrBegunStays
<1>0. units[u] \in UnitRecord
  BY DEF TypeOK
<1>1. ASSUME NEW pid \in Pids, RecordProcess(c, u, pid)
      PROVE  \A v \in Unit : units'[v].state = units[v].state
  BY <1>0, <1>1 DEF RecordProcess, TypeOK, UnitRecord
<1>2. ASSUME RecordProcessExit(c, u)
      PROVE  \A v \in Unit : units'[v].state = units[v].state
  BY <1>0, <1>2 DEF RecordProcessExit, TypeOK, UnitRecord
<1>3. ASSUME NEW valid \in BOOLEAN, RecordHandoff(c, u, valid)
      PROVE  \A v \in Unit : units'[v].state = units[v].state
  BY <1>0, <1>3 DEF RecordHandoff, TypeOK, UnitRecord
<1>4. ASSUME RecordWorkspace(c, u)
      PROVE  \A v \in Unit : units'[v].state = units[v].state
  BY <1>0, <1>4 DEF RecordWorkspace, TypeOK, UnitRecord
<1>5. ASSUME AnnotateVerification(c, u)
      PROVE  \A v \in Unit : units'[v].state = units[v].state
  BY <1>0, <1>5 DEF AnnotateVerification, TypeOK, UnitRecord
<1>6. ASSUME NEW x \in Charges, RecordUsage(c, u, x)
      PROVE  MergedOrBegunStays
  <2>1. PICK charged \in UnitRecord : charged = Charged(units[u], x)
    BY <1>0, ChargedType
  <2>2. charged.state = units[u].state
    BY <1>0, <2>1 DEF Charged, UnitRecord
  <2>3. \/ units' = [units EXCEPT ![u] = charged]
        \/ /\ units' = [units EXCEPT ![u] = Moved(charged, "needs_user", "other")]
           /\ "needs_user" \in Targets(units[u].state)
    BY <1>6, <2>1 DEF RecordUsage
  <2>4. "needs_user" \in Targets(units[u].state) =>
          units[u].state \notin {"pending", "cancelled", "merged"}
    BY <1>0 DEF Targets, TERMINAL, UnitRecord, State
  <2> QED
    BY <2>2, <2>3, <2>4, OneUnitStays
<1> QED
  BY <1>1, <1>2, <1>3, <1>4, <1>5, <1>6, SameStates DEF RecordStep

\* A grant changes no state.
LEMMA GrantStays ==
  ASSUME TypeOK, NEW c \in Conductors, NEW u \in Unit, NEW g \in 1..MaxGrant,
         AnnotateGrant(c, u, g)
  PROVE  MergedOrBegunStays
<1>1. \A v \in Unit : units'[v].state = units[v].state
  BY DEF AnnotateGrant, TypeOK, UnitRecord
<1> QED
  BY <1>1, SameStates

\* resume moves only units in flight.
LEMMA ResumeStays ==
  ASSUME TypeOK, NEW c \in Conductors, NEW status \in [Unit -> Liveness],
         Resume(c, status)
  PROVE  MergedOrBegunStays
<1>1. PICK k \in Cut : units' = AfterResume(status, k)
  BY DEF Resume
<1>2. \A u \in Unit : units'[u] = units[u] \/ units[u].state \in IN_FLIGHT
  BY <1>1 DEF AfterResume
<1> QED
  BY <1>2 DEF IN_FLIGHT, MergedOrBegunStays, Begun

\* In a new document only units without dependencies are begun.
LEMMA CreatedDependencies ==
  ASSUME NEW p \in Plans, NEW k, NEW u \in Unit, Begun(Created(p, k)[u].state)
  PROVE  p[u] = {}
BY DEF Created, NewUnit, Begun

\* Work is begun only on what is merged, whatever transaction is cut off
\* where: the only way out of pending besides cancelling is a promotion, and
\* merged is terminal.
THEOREM DependenciesStayMerged == Spec => []DependenciesMerged
<1>1. Init => DependenciesMerged
  BY CreatedDependencies DEF Init, DependenciesMerged, Begun
<1>2. TypeOK /\ DependenciesMerged /\ [Next]_vars => DependenciesMerged'
  <2> SUFFICES ASSUME TypeOK, DependenciesMerged, [Next]_vars
               PROVE  DependenciesMerged'
    OBVIOUS
  <2>1. CASE UNCHANGED vars
    BY <2>1 DEF vars, DependenciesMerged
  <2>2. ASSUME NEW c \in Conductors, LeaseStep(c)
        PROVE  DependenciesMerged'
    <3>1. CASE UNCHANGED units
      BY <2>2, <3>1 DEF LeaseStep, AcquireLease, RenewLease, ReleaseLease, TransferLease,
                        Resume, DependenciesMerged
    <3>2. ASSUME NEW status \in [Unit -> Liveness], Resume(c, status)
          PROVE  DependenciesMerged'
      BY <3>2, ResumeStays, MergedOrBegunSuffices DEF Resume
    <3> QED
      BY <2>2, <3>1, <3>2 DEF LeaseStep, AcquireLease, RenewLease, ReleaseLease,
                              TransferLease
  <2>3. ASSUME NEW c \in Conductors, NEW p \in Plans, ReplaceRun(c, p)
        PROVE  DependenciesMerged'
    BY <2>3, CreatedDependencies DEF ReplaceRun, DependenciesMerged, Begun
  <2>4. ASSUME NEW c \in Conductors, NEW u \in Unit, UnitStep(c, u)
        PROVE  DependenciesMerged'
    <3>1. MergedOrBegunStays
      BY <2>4, TransitionStays, AssignStays, ReassignStays, SurrenderStays, RecordStays,
         GrantStays DEF UnitStep
    <3>2. UNCHANGED plan
      BY <2>4 DEF UnitStep, Transition, Assign, Reassign, Surrender, RecordStep,
                  RecordProcess, RecordProcessExit, RecordHandoff, RecordWorkspace,
                  AnnotateVerification, RecordUsage, AnnotateGrant
    <3> QED
      BY <3>1, <3>2, MergedOrBegunSuffices
  <2>5. CASE Tick
    BY <2>5 DEF Tick, DependenciesMerged
  <2> QED
    BY <2>1, <2>2, <2>3, <2>4, <2>5 DEF Next
<1> QED
  BY <1>1, <1>2, TypeCorrect, PTL DEF Spec

(****************** What only an assignment changes ************************)

\* What an assignment changes in a unit's record.
SameAssignment(r, q) ==
  r.byTier = q.byTier /\ r.owner = q.owner /\ r.handoffRef = q.handoffRef

KeepsAssignments == \A v \in Unit : SameAssignment(units'[v], units[v])

\* Setting a unit's state assigns nothing.
LEMMA MovedAssignment ==
  \A unit \in UnitRecord, s \in State, why \in Reason :
    SameAssignment(Moved(unit, s, why), unit)
BY DEF Moved, UnitRecord, SameAssignment

\* A transition and its promotions assign nothing.
LEMMA TransitionAssignment ==
  ASSUME TypeOK, NEW c \in Conductors, NEW u \in Unit, NEW s \in State,
         NEW why \in Reason, Transition(c, u, s, why)
  PROVE  KeepsAssignments
<1> DEFINE moved == [units EXCEPT ![u] = Moved(@, s, why)]
<1>1. moved \in [Unit -> UnitRecord]
  BY MovedType DEF TypeOK
<1>2. \A v \in Unit : SameAssignment(moved[v], units[v])
  BY MovedAssignment DEF TypeOK, SameAssignment
<1>3. units' = moved \/ \E k \in Cut : units' = Promoted(moved, k)
  BY DEF Transition
<1> HIDE DEF moved
<1>4. \A k : \A v \in Unit : SameAssignment(Promoted(moved, k)[v], moved[v])
  BY <1>1, MovedAssignment DEF Promoted, SameAssignment, State, Reason
<1> QED
  BY <1>2, <1>3, <1>4 DEF KeepsAssignments, SameAssignment

\* What an attempt leaves on file assigns nothing.
LEMMA RecordAssignment ==
  ASSUME TypeOK, NEW c \in Conductors, NEW u \in Unit, RecordStep(c, u)
  PROVE  KeepsAssignments
<1>0. units[u] \in UnitRecord
  BY DEF TypeOK
<1>1. ASSUME NEW pid \in Pids, RecordProcess(c, u, pid)
      PROVE  KeepsAssignments
  BY <1>0, <1>1 DEF RecordProcess, TypeOK, UnitRecord, KeepsAssignments, SameAssignment
<1>2. ASSUME RecordProcessExit(c, u)
      PROVE  KeepsAssignments
  BY <1>0, <1>2 DEF RecordProcessExit, TypeOK, UnitRecord, KeepsAssignments, SameAssignment
<1>3. ASSUME NEW valid \in BOOLEAN, RecordHandoff(c, u, valid)
      PROVE  KeepsAssignments
  BY <1>0, <1>3 DEF RecordHandoff, TypeOK, UnitRecord, KeepsAssignments, SameAssignment
<1>4. ASSUME RecordWorkspace(c, u)
      PROVE  KeepsAssignments
  BY <1>0, <1>4 DEF RecordWorkspace, TypeOK, UnitRecord, KeepsAssignments, SameAssignment
<1>5. ASSUME AnnotateVerification(c, u)
      PROVE  KeepsAssignments
  BY <1>0, <1>5 DEF AnnotateVerification, TypeOK, UnitRecord, KeepsAssignments,
                    SameAssignment
<1>6. ASSUME NEW x \in Charges, RecordUsage(c, u, x)
      PROVE  KeepsAssignments
  <2>1. PICK charged \in UnitRecord : charged = Charged(units[u], x)
    BY <1>0, ChargedType
  <2>2. SameAssignment(charged, units[u])
    BY <1>0, <2>1 DEF Charged, UnitRecord, SameAssignment
  <2>3. SameAssignment(Moved(charged, "needs_user", "other"), units[u])
    BY <2>2, MovedAssignment DEF SameAssignment, State, Reason
  <2>4. \/ units' = [units EXCEPT ![u] = charged]
        \/ units' = [units EXCEPT ![u] = Moved(charged, "needs_user", "other")]
    BY <1>6, <2>1 DEF RecordUsage
  <2> QED
    BY <2>2, <2>3, <2>4 DEF TypeOK, KeepsAssignments, SameAssignment
<1> QED
  BY <1>1, <1>2, <1>3, <1>4, <1>5, <1>6 DEF RecordStep

\* A grant assigns nothing.
LEMMA GrantAssignment ==
  ASSUME TypeOK, NEW c \in Conductors, NEW u \in Unit, NEW g \in 1..MaxGrant,
         AnnotateGrant(c, u, g)
  PROVE  KeepsAssignments
<1>0. units[u] \in UnitRecord
  BY DEF TypeOK
<1> QED
  BY <1>0 DEF AnnotateGrant, TypeOK, UnitRecord, KeepsAssignments, SameAssignment

\* Surrendering assigns nothing.
LEMMA SurrenderAssignment ==
  ASSUME TypeOK, NEW c \in Conductors, NEW u \in Unit, Surrender(c, u)
  PROVE  KeepsAssignments
BY MovedAssignment DEF Surrender, TypeOK, KeepsAssignments, SameAssignment, State, Reason

\* Leases and resume assign nothing.
LEMMA LeaseStepAssignment ==
  ASSUME TypeOK, NEW c \in Conductors, LeaseStep(c)
  PROVE  KeepsAssignments
<1>1. CASE UNCHANGED units
  BY <1>1 DEF KeepsAssignments, SameAssignment
<1>2. ASSUME NEW status \in [Unit -> Liveness], Resume(c, status)
      PROVE  KeepsAssignments
  <2>1. PICK k \in Cut : units' = AfterResume(status, k)
    BY <1>2 DEF Resume
  <2> QED
    BY <2>1, MovedAssignment DEF AfterResume, TypeOK, KeepsAssignments, SameAssignment,
                                 State, Reason
<1> QED
  BY <1>1, <1>2 DEF LeaseStep, AcquireLease, RenewLease, ReleaseLease, TransferLease

\* Only replacing the plan, assigning and reassigning change an assignment.
LEMMA NoAssignmentStep ==
  ASSUME TypeOK, [Next]_vars,
         ~ \E c \in Conductors, p \in Plans : ReplaceRun(c, p),
         ~ \E c \in Conductors, u \in Unit, w \in Workers, t \in Tiers \cup {NoTier} :
             Assign(c, u, w, t) \/ Reassign(c, u, w, t)
  PROVE  KeepsAssignments
<1>1. CASE UNCHANGED vars \/ Tick
  BY <1>1 DEF vars, Tick, KeepsAssignments, SameAssignment
<1>2. ASSUME NEW c \in Conductors, LeaseStep(c)
      PROVE  KeepsAssignments
  BY <1>2, LeaseStepAssignment
<1>3. ASSUME NEW c \in Conductors, NEW u \in Unit, UnitStep(c, u)
      PROVE  KeepsAssignments
  BY <1>3, TransitionAssignment, SurrenderAssignment, RecordAssignment, GrantAssignment
     DEF UnitStep
<1> QED
  BY <1>1, <1>2, <1>3 DEF Next

(************************** What assigning does ****************************)

\* The next attempt is within the budget of its tier, and no other tier's
\* attempts change.
LEMMA OutcomeBudget ==
  ASSUME NEW unit \in UnitRecord, NEW w \in Workers, NEW t \in Tiers \cup {NoTier},
         \A s \in Tiers : unit.byTier[s] <= AttemptLimit + MaxGrant
  PROVE  \A s \in Tiers : AssignOutcome(unit, w, t).byTier[s] <= AttemptLimit + MaxGrant
<1>1. CASE t = NoTier \/ Exhausted(unit, t)
  BY <1>1, MovedAssignment DEF AssignOutcome, SameAssignment, State, Reason
<1>2. CASE ~(t = NoTier \/ Exhausted(unit, t))
  <2> DEFINE moved == Moved(unit, "assigned", "other")
             tiers == [moved.byTier EXCEPT ![t] = @ + 1]
  <2>1. moved \in UnitRecord /\ moved.byTier = unit.byTier
    BY MovedType, MovedAssignment DEF SameAssignment, State, Reason
  <2>2. /\ t \in Tiers /\ unit.byTier \in [Tiers -> Nat] /\ unit.grant \in 0..MaxGrant
        /\ unit.byTier[t] < AttemptLimit + unit.grant
    BY <1>2 DEF Exhausted, UnitRecord
  <2>3. \A s \in Tiers : tiers[s] <= AttemptLimit + MaxGrant
    <3>1. unit.byTier[t] + 1 <= AttemptLimit + MaxGrant
      BY <2>2
    <3>2. tiers = [unit.byTier EXCEPT ![t] = @ + 1]
      BY <2>1
    <3> HIDE DEF tiers
    <3> QED
      BY <2>2, <3>1, <3>2
  <2>4. AssignOutcome(unit, w, t) =
          [moved EXCEPT !.attempts = moved.attempts + 1, !.byTier = tiers, !.owner = w]
    BY <1>2, Zenon DEF AssignOutcome
  <2> HIDE DEF moved, tiers
  <2>5. [moved EXCEPT !.attempts = moved.attempts + 1, !.byTier = tiers, !.owner = w].byTier
          = tiers
    BY <2>1 DEF UnitRecord
  <2> QED
    BY <2>3, <2>4, <2>5, Zenon
<1> QED
  BY <1>1, <1>2

\* Whoever owned the unit or the named worker owns it afterwards.
LEMMA OutcomeOwner ==
  ASSUME NEW unit \in UnitRecord, NEW w \in Workers, NEW t \in Tiers \cup {NoTier}
  PROVE  /\ AssignOutcome(unit, w, t).owner \in {unit.owner, w}
         /\ AssignOutcome(unit, w, t).handoffRef = unit.handoffRef
<1>1. CASE t = NoTier \/ Exhausted(unit, t)
  BY <1>1, MovedAssignment DEF AssignOutcome, SameAssignment, State, Reason
<1>2. CASE ~(t = NoTier \/ Exhausted(unit, t))
  <2> DEFINE moved == Moved(unit, "assigned", "other")
             tiers == [moved.byTier EXCEPT ![t] = @ + 1]
  <2>1. moved \in UnitRecord /\ moved.handoffRef = unit.handoffRef
    BY MovedType, MovedAssignment DEF SameAssignment, State, Reason
  <2>2. AssignOutcome(unit, w, t) =
          [moved EXCEPT !.attempts = moved.attempts + 1, !.byTier = tiers, !.owner = w]
    BY <1>2, Zenon DEF AssignOutcome
  <2> HIDE DEF moved, tiers
  <2>3. LET q == [moved EXCEPT !.attempts = moved.attempts + 1, !.byTier = tiers, !.owner = w]
        IN q.owner = w /\ q.handoffRef = moved.handoffRef
    BY <2>1 DEF UnitRecord
  <2> QED
    BY <2>1, <2>2, <2>3, Zenon
<1> QED
  BY <1>1, <1>2

\* Reassigning u: its record becomes `given`, or what assigning that yields, and
\* the handoff it references is recorded.
GivenTo(u, w, t, given) ==
  /\ units'[u] \in {given, AssignOutcome(given, w, t)}
  /\ given.byTier = units[u].byTier
  /\ given.owner = w
  /\ given.handoffRef = Len(handoffs')
  /\ handoffs' = Append(handoffs, [kind |-> "unit", unit |-> u,
                                  from |-> units[u].owner, to |-> w])

\* A reassigned unit's record: what it was, parked, given to the new worker.
LEMMA ReassignOutcome ==
  ASSUME TypeOK, NEW c \in Conductors, NEW u \in Unit, NEW w \in Workers,
         NEW t \in Tiers \cup {NoTier}, Reassign(c, u, w, t)
  PROVE  /\ \A v \in Unit \ {u} : units'[v] = units[v]
         /\ \/ \E given \in UnitRecord : GivenTo(u, w, t, given)
            \/ /\ units'[u].byTier = units[u].byTier
               /\ units'[u].owner = units[u].owner
<1> DEFINE old == units[u]
           ready == IF old.state = "ready" THEN old ELSE Moved(old, "ready", "other")
           parked == [ready EXCEPT !.process = NoProcess]
           given == [parked EXCEPT !.owner = w, !.handoffRef = HandoffId]
           lost == [parked EXCEPT !.handoffRef = Dangling]
           recorded == Append(handoffs, [kind |-> "unit", unit |-> u,
                                         from |-> old.owner, to |-> w])
<1>1. /\ ready \in UnitRecord
      /\ ready.byTier = old.byTier /\ ready.owner = old.owner
  BY MovedType, MovedAssignment DEF TypeOK, SameAssignment, State, Reason
<1>2. HandoffId \in Int /\ Len(recorded) = HandoffId
  BY DEF HandoffId, TypeOK
<1>3. \/ /\ \/ units' = [units EXCEPT ![u] = AssignOutcome(given, w, t)]
            \/ units' = [units EXCEPT ![u] = given]
         /\ handoffs' = recorded
      \/ /\ TornTransactions
         /\ units' = [units EXCEPT ![u] = lost]
         /\ UNCHANGED handoffs
  BY DEF Reassign
<1> HIDE DEF ready, recorded
<1>4. /\ parked \in UnitRecord
      /\ parked.byTier = old.byTier /\ parked.owner = old.owner
  BY <1>1 DEF UnitRecord, NoProcess, NoPid
<1> HIDE DEF parked
<1>5. /\ given \in UnitRecord
      /\ given.byTier = old.byTier /\ given.owner = w /\ given.handoffRef = HandoffId
      /\ lost.byTier = old.byTier /\ lost.owner = old.owner
  BY <1>2, <1>4 DEF UnitRecord, Dangling
<1> HIDE DEF given, lost
<1>6. \A v \in Unit \ {u} : units'[v] = units[v]
  BY <1>3 DEF TypeOK
<1>7. \/ /\ units'[u] \in {given, AssignOutcome(given, w, t)}
         /\ handoffs' = recorded
      \/ /\ TornTransactions
         /\ units'[u] = lost
         /\ UNCHANGED handoffs
  BY <1>3 DEF TypeOK
<1> QED
  BY <1>2, <1>5, <1>6, <1>7 DEF recorded, GivenTo

\* A unit of a new document belongs to nobody and was never attempted.
LEMMA CreatedAssignment ==
  ASSUME NEW p \in Plans, NEW k, NEW v \in Unit
  PROVE  /\ Created(p, k)[v].owner = None
         /\ Created(p, k)[v].byTier = [t \in Tiers |-> 0]
<1>1. SameAssignment(Created(p, k)[v], NewUnit)
  BY MovedAssignment, NewUnitType DEF Created, SameAssignment, State, Reason
<1> QED
  BY <1>1 DEF NewUnit, SameAssignment

(******************************* Budgets ***********************************)

\* However often a unit fails, is handed over, interrupted or taken over, no
\* tier of it gets more attempts than its budget and the owner's grants.
THEOREM AttemptsBounded == Spec => []BudgetBound
<1>1. Init => BudgetBound
  BY CreatedAssignment DEF Init, BudgetBound
<1>2. TypeOK /\ BudgetBound /\ [Next]_vars => BudgetBound'
  <2> SUFFICES ASSUME TypeOK, BudgetBound, [Next]_vars
               PROVE  BudgetBound'
    OBVIOUS
  <2>1. CASE KeepsAssignments
    BY <2>1 DEF KeepsAssignments, SameAssignment, BudgetBound
  <2>2. ASSUME NEW c \in Conductors, NEW p \in Plans, ReplaceRun(c, p)
        PROVE  BudgetBound'
    BY <2>2, CreatedAssignment DEF ReplaceRun, BudgetBound
  <2>3. ASSUME NEW c \in Conductors, NEW u \in Unit, NEW w \in Workers,
               NEW t \in Tiers \cup {NoTier}, Assign(c, u, w, t)
        PROVE  BudgetBound'
    BY <2>3, OutcomeBudget DEF Assign, TypeOK, BudgetBound
  <2>4. ASSUME NEW c \in Conductors, NEW u \in Unit, NEW w \in Workers,
               NEW t \in Tiers \cup {NoTier}, Reassign(c, u, w, t)
        PROVE  BudgetBound'
    <3>0. \A v \in Unit \ {u} : units'[v] = units[v]
      BY <2>4, ReassignOutcome, Zenon
    <3>1. \A v \in Unit \ {u}, s \in Tiers : units'[v].byTier[s] <= AttemptLimit + MaxGrant
      BY <3>0 DEF BudgetBound
    <3>2. ASSUME NEW given \in UnitRecord, GivenTo(u, w, t, given)
          PROVE  \A s \in Tiers : units'[u].byTier[s] <= AttemptLimit + MaxGrant
      BY <3>2, OutcomeBudget DEF BudgetBound, GivenTo
    <3>3. ASSUME units'[u].byTier = units[u].byTier
          PROVE  \A s \in Tiers : units'[u].byTier[s] <= AttemptLimit + MaxGrant
      BY <3>3 DEF BudgetBound
    <3>4. (\E given \in UnitRecord : GivenTo(u, w, t, given)) \/ units'[u].byTier = units[u].byTier
      BY <2>4, ReassignOutcome, Zenon
    <3> QED
      BY <3>1, <3>2, <3>3, <3>4 DEF BudgetBound
  <2> QED
    BY <2>1, <2>2, <2>3, <2>4, NoAssignmentStep
<1> QED
  BY <1>1, <1>2, TypeCorrect, PTL DEF Spec

(****************************** Ownership **********************************)

\* No unit changes hands silently: only reassign_unit gives an owned unit to
\* another worker, and it records the handoff the unit then references.
THEOREM OwnershipHandedOver == Spec => OwnershipChangesByHandoff
<1> DEFINE Silent(u) ==
      /\ units[u].owner # None
      /\ units'[u].owner \notin {units[u].owner, None}
      /\ ~ /\ handoffs' # << >>
           /\ units'[u].handoffRef = Len(handoffs')
           /\ handoffs'[Len(handoffs')] =
                [kind |-> "unit", unit |-> u,
                 from |-> units[u].owner, to |-> units'[u].owner]
<1>1. TypeOK /\ [Next]_vars => \A v \in Unit : ~Silent(v)
  <2> SUFFICES ASSUME TypeOK, [Next]_vars, NEW v \in Unit
               PROVE  ~Silent(v)
    OBVIOUS
  <2>1. CASE KeepsAssignments
    BY <2>1 DEF KeepsAssignments, SameAssignment
  <2>2. ASSUME NEW c \in Conductors, NEW p \in Plans, ReplaceRun(c, p)
        PROVE  ~Silent(v)
    <3>1. units'[v].owner = None
      BY <2>2, CreatedAssignment DEF ReplaceRun
    <3> QED
      BY <3>1
  <2>3. ASSUME NEW c \in Conductors, NEW u \in Unit, NEW w \in Workers,
               NEW t \in Tiers \cup {NoTier}, Assign(c, u, w, t)
        PROVE  ~Silent(v)
    <3>1. units[u] \in UnitRecord /\ units[u].owner \in {None, w}
      BY <2>3 DEF Assign, TypeOK
    <3>2. AssignOutcome(units[u], w, t).owner \in {units[u].owner, w}
      BY <3>1, OutcomeOwner
    <3>3. units' = [units EXCEPT ![u] = AssignOutcome(units[u], w, t)]
      BY <2>3 DEF Assign
    <3> QED
      BY <3>1, <3>2, <3>3 DEF TypeOK
  <2>4. ASSUME NEW c \in Conductors, NEW u \in Unit, NEW w \in Workers,
               NEW t \in Tiers \cup {NoTier}, Reassign(c, u, w, t)
        PROVE  ~Silent(v)
    <3>1. CASE units'[v].owner = units[v].owner
      BY <3>1
    <3>2. ASSUME NEW given \in UnitRecord, v = u, GivenTo(u, w, t, given)
          PROVE  ~Silent(v)
      <4>1. units'[u].owner = w /\ units'[u].handoffRef = Len(handoffs')
        BY <3>2, OutcomeOwner DEF GivenTo
      <4>2. /\ handoffs' # << >>
            /\ handoffs'[Len(handoffs')] = [kind |-> "unit", unit |-> u,
                                            from |-> units[u].owner, to |-> w]
        BY <3>2 DEF TypeOK, GivenTo
      <4> QED
        BY <3>2, <4>1, <4>2
    <3>3. CASE v # u
      <4>1. units'[v] = units[v]
        BY <2>4, <3>3, ReassignOutcome, Zenon
      <4> QED
        BY <4>1
    <3>4. (\E given \in UnitRecord : GivenTo(u, w, t, given)) \/ units'[u].owner = units[u].owner
      BY <2>4, ReassignOutcome, Zenon
    <3> QED
      BY <3>1, <3>2, <3>3, <3>4
  <2> QED
    BY <2>1, <2>2, <2>3, <2>4, NoAssignmentStep
<1>2. (\A v \in Unit : ~Silent(v)) =>
      \A u \in Unit :
        units[u].owner # None /\ units'[u].owner \notin {units[u].owner, None} =>
          /\ handoffs' # << >>
          /\ units'[u].handoffRef = Len(handoffs')
          /\ handoffs'[Len(handoffs')] =
               [kind |-> "unit", unit |-> u,
                from |-> units[u].owner, to |-> units'[u].owner]
  OBVIOUS
<1> QED
  BY <1>1, <1>2, TypeCorrect, PTL DEF Spec, OwnershipChangesByHandoff

\* No conductor takes the run from another one that still holds its lease,
\* and no takeover goes unrecorded.
THEOREM LeaseHandedOver == Spec => LeaseTakeoverRecorded
<1> DEFINE Recorded ==
      lease'.holder # lease.holder =>
        \/ /\ handoffs' = Append(handoffs, [kind |-> "conductor",
                                  from |-> lease.holder, to |-> lease'.holder])
           /\ lease.left = 0 \/ TransferLease(lease.holder, lease'.holder)
        \/ lease.left = 0 /\ handoffs' = << >>
<1>1. TypeOK /\ [Next]_vars => Recorded
  <2> SUFFICES ASSUME TypeOK, [Next]_vars PROVE Recorded
    OBVIOUS
  <2>1. CASE lease'.holder = lease.holder
    BY <2>1
  <2>2. ASSUME NEW c \in Conductors, AcquireLease(c) \/ RenewLease(c) \/ ReleaseLease(c)
        PROVE  Recorded
    BY <2>2 DEF AcquireLease, RenewLease, ReleaseLease, Blocked, HasLease, HandOver, Fresh,
                TypeOK
  <2>3. ASSUME NEW c \in Conductors, NEW d \in Conductors, TransferLease(c, d)
        PROVE  Recorded
    <3>1. lease.holder = c /\ lease'.holder = d
      BY <2>3 DEF TransferLease, HasLease, Fresh
    <3>2. handoffs' = Append(handoffs, [kind |-> "conductor", from |-> c, to |-> d])
      BY <2>3 DEF TransferLease
    <3> QED
      BY <2>3, <3>1, <3>2
  <2>4. ASSUME NEW c \in Conductors, NEW status, Resume(c, status)
        PROVE  Recorded
    BY <2>4 DEF Resume, Blocked, HandOver, Fresh, TypeOK
  <2>5. ASSUME NEW c \in Conductors, NEW p \in Plans, ReplaceRun(c, p)
        PROVE  Recorded
    BY <2>5 DEF ReplaceRun, Blocked, Fresh, TypeOK
  <2>6. ASSUME NEW c \in Conductors, NEW u \in Unit, UnitStep(c, u)
        PROVE  Recorded
    BY <2>6 DEF UnitStep, Transition, Assign, Reassign, Surrender, RecordStep,
                RecordProcess, RecordProcessExit, RecordHandoff, RecordWorkspace,
                AnnotateVerification, RecordUsage, AnnotateGrant
  <2>7. CASE UNCHANGED vars \/ Tick
    BY <2>7 DEF vars, Tick, TypeOK
  <2> QED
    BY <2>2, <2>3, <2>4, <2>5, <2>6, <2>7 DEF Next, LeaseStep
<1> QED
  BY <1>1, TypeCorrect, PTL DEF Spec, LeaseTakeoverRecorded

==============================================================================
