----------------------------- MODULE MCConductor -----------------------------
(***************************************************************************)
(* Instances of Conductor for TLC.                                         *)
(***************************************************************************)
EXTENDS Conductor, TLC

CONSTANTS c1, c2, s1, s2

SinglePlan == { <<{}>> }

\* Two sessions of different conductors, or one.
TwoConductors == s1 :> c1 @@ s2 :> c2
OneSession == s1 :> c1

\* Where leases may run out at any time, one handoff is recorded at most, and
\* none where a completion raises, which no crash goes with.
Within ==
  /\ timely \/ Len(handoffs) <= 1
  /\ \A aftermath \in Aftermath : raises[aftermath] > 0 =>
       crashes = 0 /\ (timely \/ handoffs = << >>)
MCConductorNext == ConductorNext /\ Within'
MCConductorSpec == ConductorInit /\ [][MCConductorNext]_allVars /\ Fairness

==============================================================================
