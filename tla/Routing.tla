------------------------------- MODULE Routing --------------------------------
(***************************************************************************)
(* Which tier a unit is worked on and reviewed at, and by whom:            *)
(* routing/classify.py, routing/selection.py, runners/registry.py and the  *)
(* panels of team/config.py, as operators.                                 *)
(*                                                                         *)
(* A path is a record: its directory, the signals its words set off, and   *)
(* whether it matches the policy's high_risk_paths.  A diff is a set of    *)
(* paths and a number of lines.  Models, prices and the catalog are reduced*)
(* to the set `policy.available` of runners a model can be resolved for.   *)
(***************************************************************************)
EXTENDS Integers, Sequences, FiniteSets, FiniteSetsExt

\* A tier is named by its class: 0 economical, 1 standard, 2 advanced.
RoutingTier == 0..2

ReviewSensitive == {"security", "database", "architecture"}

WordSignals == ReviewSensitive \cup {"concurrency"}

SignalPoints ==
  [mechanical_small |-> -2, fixture_generation |-> -2, many_files |-> 1,
   many_modules |-> 2, large_diff |-> 1, database |-> 3, security |-> 4,
   concurrency |-> 3, architecture |-> 3, no_acceptance_test |-> 2,
   previous_attempt_failed |-> 2]

LargeDiff == 300
SmallDiff == 50

RiskFloor == [low |-> 0, medium |-> 1, high |-> 2]

Larger(a, b) == IF a >= b THEN a ELSE b

(****************************** classify() *********************************)

\* count_basis: what was changed, or the scope before anything is.
CountBasis(unit, diff) == IF diff.files # {} THEN diff.files ELSE unit.scope

Touched(unit, diff) == unit.scope \cup diff.files

\* The comparison the wrong way round.
MechanicalLarge(unit, count) == "mechanical" \in unit.traits /\ count > 3
MechanicalSmall(unit, count) == "mechanical" \in unit.traits /\ count <= 3

SignalsOf(unit, diff) ==
  LET count == Cardinality(CountBasis(unit, diff))
      modules == {p.dir : p \in CountBasis(unit, diff)}
      if(holds, signal) == IF holds THEN {signal} ELSE {}
  IN  UNION {
        if(MechanicalSmall(unit, count), "mechanical_small"),
        if("fixture_generation" \in unit.traits, "fixture_generation"),
        if(count > 3, "many_files"),
        if(Cardinality(modules) >= 3, "many_modules"),
        if(diff.lines > LargeDiff, "large_diff"),
        if(unit.secrets, "security"),
        if(~unit.acceptance, "no_acceptance_test"),
        if("previous_attempt_failed" \in unit.traits, "previous_attempt_failed"),
        {s \in WordSignals : s \in unit.traits \/ \E p \in Touched(unit, diff) : s \in p.signals}}

ScoreTier(signals) ==
  LET score == MapThenSumSet(LAMBDA s : SignalPoints[s], signals)
  IN  IF score <= 0 THEN 0 ELSE IF score <= 5 THEN 1 ELSE 2

RiskOf(unit, diff) ==
  IF \E p \in Touched(unit, diff) : p.risky THEN "high" ELSE unit.risk

\* small_deterministic
SmallDeterministic(unit, diff) ==
  /\ RiskOf(unit, diff) = "low"
  /\ unit.acceptance
  /\ Cardinality(CountBasis(unit, diff)) <= 3
  /\ \/ diff.lines <= SmallDiff /\ diff.files # {}
     \/ unit.traits \cap {"mechanical", "fixture_generation"} # {}
  /\ SignalsOf(unit, diff) \cap ReviewSensitive = {}

Classify(unit, diff) ==
  LET signals == SignalsOf(unit, diff)
      risk == RiskOf(unit, diff)
      wanted == Larger(ScoreTier(signals), Larger(RiskFloor[risk], unit.initial))
      chosen == IF wanted > unit.maximum THEN unit.maximum ELSE wanted
      review == IF signals \cap ReviewSensitive # {} \/ risk = "high" \/ chosen = 2 THEN 2
                ELSE IF SmallDeterministic(unit, diff) THEN 0 ELSE 1
  IN  [ok |-> RiskFloor[risk] <= unit.maximum, risk |-> risk, signals |-> signals,
       chosen |-> chosen, review |-> review,
       mustDiffer |-> review = 2 \/ unit.mustDiffer]

(***************************** select_runner() *****************************)

\* runners/registry.py.  groq and openrouter host models of other families.
Profiles ==
  [claude |-> [family |-> "anthropic", author |-> {1, 2}, review |-> {1, 2},
               roles |-> {"author", "review", "coordination"}, highRisk |-> TRUE,
               cli |-> TRUE, large |-> FALSE],
   codex |-> [family |-> "openai", author |-> {0, 1, 2}, review |-> {0, 1, 2},
              roles |-> {"author", "review"}, highRisk |-> TRUE, cli |-> TRUE,
              large |-> FALSE],
   gemini |-> [family |-> "google", author |-> {0, 1, 2}, review |-> {0, 1, 2},
               roles |-> {"author", "review"}, highRisk |-> TRUE, cli |-> FALSE,
               large |-> FALSE],
   groq |-> [family |-> "meta", author |-> {0}, review |-> {0},
             roles |-> {"author", "review"}, highRisk |-> FALSE, cli |-> FALSE,
             large |-> FALSE],
   openrouter |-> [family |-> "meta", author |-> {0, 1, 2}, review |-> {0, 1, 2},
                   roles |-> {"fallback", "review"}, highRisk |-> TRUE, cli |-> FALSE,
                   large |-> FALSE],
   kimi |-> [family |-> "moonshot", author |-> {1}, review |-> {1, 2},
             roles |-> {"author", "review"}, highRisk |-> TRUE, cli |-> FALSE,
             large |-> TRUE]]

Runners == DOMAIN Profiles

\* review_independence: the default is "provider".
ByPersona(policy) == policy.independence = "persona"

\* The classes a runner serves in a role; a single-provider team names models
\* for further ones.
Serves(r, tier, role, policy) ==
  \/ tier \in (IF role = "author" THEN Profiles[r].author ELSE Profiles[r].review)
  \/ ByPersona(policy) /\ <<r, tier>> \in policy.models

\* select_runner's candidates.  `usable` are certified and without an open
\* circuit breaker.
Candidates(tier, role, risk, policy, usable, notRunners, notFamilies) ==
  {r \in usable \cap Runners :
     /\ r \in policy.allowed
     /\ r \notin notRunners
     /\ IF role = "author"
        THEN r \in policy.authors /\ Profiles[r].roles \cap {"author", "fallback"} # {}
        ELSE role \in Profiles[r].roles
     /\ Serves(r, tier, role, policy)
     /\ risk = "high" => Profiles[r].highRisk
     /\ Profiles[r].large => role = "review"
     /\ r \in policy.available
     /\ Profiles[r].family \notin notFamilies}

\* Whom it may choose as author: by price, but a fallback only without others.
AuthorChoices(tier, risk, policy, usable) ==
  LET all == Candidates(tier, "author", risk, policy, usable, {}, {})
      primary == {r \in all : "author" \in Profiles[r].roles}
  IN  IF primary # {} THEN primary ELSE all

(********************************* Reviews *********************************)

\* required_review: the tier, and whether the family must differ as well.
RequiredReview(author, class) ==
  LET tier == IF author.tier = 2 THEN 2 ELSE class.review
  IN  [tier |-> tier, strict |-> tier = 2 \/ class.risk = "high"]

\* review_satisfies
ReviewSatisfies(review, author, class, policy, usable) ==
  LET required == RequiredReview(author, class)
      apart == (required.strict \/ class.mustDiffer) /\ ~ByPersona(policy)
  IN  /\ class.ok
      /\ review.tier >= required.tier
      /\ review.runner \in
           Candidates(review.tier, "review", class.risk, policy, usable,
                      IF apart THEN {author.runner} ELSE {},
                      IF apart /\ required.strict THEN {Profiles[author.runner].family} ELSE {})

\* select_reviewer: whom it may choose; a different family is preferred.
ReviewerChoices(author, class, policy, usable) ==
  LET required == RequiredReview(author, class)
      others == IF required.strict \/ class.mustDiffer THEN {author.runner} ELSE {}
      from(notRunners, notFamilies) ==
        Candidates(required.tier, "review", class.risk, policy, usable, notRunners, notFamilies)
      apart == from(others, {Profiles[author.runner].family})
  IN  IF ~class.ok THEN {}
      ELSE IF ByPersona(policy) THEN from({}, {})
      ELSE IF apart # {} \/ required.strict THEN apart ELSE from(others, {})

(****************************** team/config.py *****************************)

\* panel_for, with the default panels.
Panel(role, tier) ==
  CASE role = "pr_reviewer" /\ tier = 0 -> {"gemini", "groq", "kimi", "codex", "claude"}
    [] role = "pr_reviewer" /\ tier = 1 -> {"kimi", "gemini", "codex", "claude"}
    [] role = "pr_reviewer" /\ tier = 2 -> {"kimi", "codex", "claude"}
    [] role = "security_reviewer" -> {"codex", "kimi", "claude"}
    [] role = "architect" -> {"kimi", "codex", "gemini", "claude"}
    [] role = "designer" -> {"gemini", "codex", "claude"}
    [] role = "verifier" -> {"codex", "claude"}

\* role_class, as a tier.
RoleTier(role, reviewTier) ==
  CASE role = "pr_reviewer" -> reviewTier
    [] role \in {"security_reviewer", "architect"} -> 2
    [] role \in {"designer", "verifier"} -> 1

==============================================================================
