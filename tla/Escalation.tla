------------------------------ MODULE Escalation ------------------------------
(***************************************************************************)
(* The escalation controller of routing/escalation.py.                     *)
(*                                                                         *)
(* After every attempt it decides whether the unit is done, is repaired at *)
(* its tier, goes up a tier or stops.  Here it is a record, and its methods*)
(* are operators from records to records; est is tier_costs.               *)
(***************************************************************************)
EXTENDS Integers, Sequences, SequencesExt

CONSTANTS
  MaxTier,       \* classification.maximum_tier; a unit starts at tier 0
  Budget,        \* budget.attempts
  MaxCost,       \* budget.maximum_cost_usd
  AttemptCosts   \* what an attempt may turn out to cost

Tier == 0..MaxTier

ASSUME EscalationAssumption ==
  /\ MaxTier \in Nat /\ Budget \in Nat \ {0} /\ MaxCost \in Nat
  /\ AttemptCosts \subseteq Nat

\* Who sends an attempt that passed its gates back: a reviewer that requests
\* changes, or the merge, which conflicted or failed its gates.
Returner == {"reviewer", "merge"}

\* An attempt as the "escalation" annotation keeps it.
Attempt == [passed : BOOLEAN, objective : BOOLEAN, cost : AttemptCosts,
            returned : Returner \cup {"no"}]

(***************************** The controller ******************************)

NewController(reserve) ==
  [tier |-> 0, at |-> 0, spent |-> 0, here |-> 0, extra |-> 0,
   reserve |-> reserve, action |-> "attempt", history |-> << >>]

Finished(c) == c.action \in {"done", "stop"}

\* attempts_per_tier
Cap(c) ==
  (IF c.tier >= MaxTier \/ Budget < 2 THEN Budget ELSE 2) + c.extra

Fits(c, tier, est) == est[tier] <= MaxCost - c.spent

\* __init__: the first attempt must fit the budget.
Start(reserve, est) ==
  [NewController(reserve) EXCEPT !.action = IF est[0] <= MaxCost THEN "attempt" ELSE "stop"]

\* _escalate
MoveUp(c, est) ==
  IF Fits(c, c.tier + 1, est)
  THEN [c EXCEPT !.tier = @ + 1, !.at = 0, !.here = 0, !.action = "escalate"]
  ELSE [c EXCEPT !.action = "stop"]

\* Any failure may take the unit up a tier.
DecideOnAnyFailure(c, a, est) ==
  LET canEscalate == c.tier < MaxTier
      dearer == c.tier < MaxTier /\ c.here + est[c.tier] > est[c.tier + 1]
  IN CASE a.passed -> [c EXCEPT !.action = "done"]
       [] ~a.passed /\ c.spent >= MaxCost -> [c EXCEPT !.action = "stop"]
       [] ~a.passed /\ c.spent < MaxCost /\ c.at < Cap(c) ->
            IF canEscalate /\ dearer THEN MoveUp(c, est)
            ELSE [c EXCEPT !.action = IF Fits(c, c.tier, est) THEN "repair" ELSE "stop"]
       [] OTHER -> IF canEscalate THEN MoveUp(c, est) ELSE [c EXCEPT !.action = "stop"]

\* _decide, after attempt a was added to the controller's counts.
Decide(c, a, est) ==
  LET canEscalate == a.objective /\ c.tier < MaxTier
      dearer == c.tier < MaxTier /\ c.here + est[c.tier] > est[c.tier + 1]
  IN CASE a.passed -> [c EXCEPT !.action = "done"]
       [] ~a.passed /\ c.spent >= MaxCost -> [c EXCEPT !.action = "stop"]
       [] ~a.passed /\ c.spent < MaxCost /\ c.at < Cap(c) ->
            IF canEscalate /\ dearer THEN MoveUp(c, est)
            ELSE [c EXCEPT !.action = IF Fits(c, c.tier, est) THEN "repair" ELSE "stop"]
       [] OTHER -> IF canEscalate THEN MoveUp(c, est) ELSE [c EXCEPT !.action = "stop"]

\* spend_reserve and grant: the first stop is turned into a repair.
SpendReserve(c) ==
  IF c.reserve > 0 /\ c.action = "stop"
  THEN [c EXCEPT !.extra = @ + c.reserve, !.reserve = 0, !.action = "repair"]
  ELSE c

\* record
Record(c, a, est) ==
  LET counted == [c EXCEPT !.at = @ + 1, !.spent = @ + a.cost, !.here = @ + a.cost,
                           !.history = Append(@, a)]
  IN SpendReserve(Decide(counted, a, est))

\* replay: attempts after a terminal action are not looked at.
ReplayOne(c, a, est) == IF Finished(c) THEN c ELSE Record(c, a, est)

Replayed(attempts, granted, est) ==
  FoldLeft(LAMBDA c, a : ReplayOne(c, a, est), Start(granted, est), attempts)

Replay(attempts, granted, est) == SpendReserve(Replayed(attempts, granted, est))

(**************************** Work sent back *******************************)

REJECTION_CAP == 3

\* The last attempt becomes an objective failure, whoever returned it.
Returned(attempts, by) ==
  IF attempts = << >> \/ ~Last(attempts).passed THEN attempts
  ELSE Append(Front(attempts),
              [Last(attempts) EXCEPT !.passed = FALSE, !.objective = TRUE,
                                     !.returned = by])

\* The same reviewer's rejections at the end of the list.  Merges are not capped.
Streak(attempts) ==
  Cardinality({i \in 1..Len(attempts) :
                 \A j \in i..Len(attempts) : attempts[j].returned = "reviewer"})

Repeated(attempts) == Streak(attempts) >= REJECTION_CAP

==============================================================================
