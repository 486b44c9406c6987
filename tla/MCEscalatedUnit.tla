---------------------------- MODULE MCEscalatedUnit ----------------------------
(***************************************************************************)
(* The escalation controller of one unit, by what its tiers cost.          *)
(***************************************************************************)
EXTENDS EscalatedUnit

\* All cost more than the unit's budget: the controller stops it before its first
\* attempt, until the owner grants it one.
DearTiers == {[t \in Tier |-> MaxCost + 1]}

\* A tier costs one more than the one below it.
RisingTiers == {[t \in Tier |-> t + 1]}

================================================================================
