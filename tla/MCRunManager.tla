---------------------------- MODULE MCRunManager -----------------------------
(***************************************************************************)
(* Instances of RunManager for TLC.                                        *)
(***************************************************************************)
EXTENDS RunManager, FiniteSets, TLC

\* Unit 3 waits for both others, or the units form a chain against the sort
\* order of their ids (3, then 2, then 1).
DiamondPlans ==
  { <<{}, {}, {1, 2}>>, <<{2}, {3}, {}>> }

\* The first unit goes before the others, and only it is worked on.
LonePlans == { <<{}, {1}, {2}>> }

SomePlans == DiamondPlans \cup LonePlans

\* Unit 1 waits for unit 2.
PairPlans == { <<{2}, {}>> }

\* Conductors and workers are interchangeable.
ActorSymmetry == Permutations(Conductors) \cup Permutations(Workers)

(***************************************************************************)
(* One run asks two questions of three units, and a plan asks one of them. *)
(* With a diamond or a chain it is what waits for what: one conductor and  *)
(* one worker, and nothing on file that no dependency looks at.  With the  *)
(* lone unit it is who holds the lease, who owns the unit and what it may  *)
(* still spend: two conductors and two workers, every operation.  A unit   *)
(* whose workspace is on file, which no guard reads, has no cost and the   *)
(* run no handoff; and one handoff at most goes with a cost, which can but *)
(* stop the unit.                                                          *)
(***************************************************************************)

OneActorEach ==
  /\ lease'.holder = lease.holder /\ handoffs' = << >>
  /\ Cardinality({units'[u].owner : u \in Unit} \ {None}) <= 1
  /\ \A u \in Unit : /\ units'[u].process = NoProcess /\ ~units'[u].workspace
                      /\ units'[u].grant = 0 /\ units'[u].cost = 0 /\ units'[u].verified = 0

OneUnit ==
  /\ \A u \in Unit \ {1} : units'[u] \in {NewUnit, Moved(NewUnit, "ready", "other")}
  /\ units'[1].workspace => handoffs' = << >> /\ units'[1].cost = 0
  /\ units'[1].cost > 0 => Len(handoffs') <= 1

Within ==
  \/ {plan, plan'} \subseteq DiamondPlans /\ OneActorEach
  \/ {plan, plan'} \subseteq LonePlans /\ OneUnit

NextWithin == Next /\ Within

ManagerRun == Init /\ [][NextWithin]_vars

==============================================================================
