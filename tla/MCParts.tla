------------------------------- MODULE MCParts --------------------------------
(***************************************************************************)
(* One instance for TLC of each module of which the runs ask only what may *)
(* never happen.  The modules share no variable: a behaviour exercises one *)
(* of them, `part`, and the others stay as they began.                     *)
(***************************************************************************)
EXTENDS RunStore, Notifications, Worktrees, GatedCommands, EscalatedUnit, Dispatch, TeamReview,
        SharedGitState, Steward, AttemptWork, Certification

VARIABLE part

(**************************** Tasks to escalate ****************************)

CostsOfTiers == {[t \in Tier |-> IF t = 0 THEN 1 ELSE k] : k \in {1, 3}}

(**************************** Plans to analyze *****************************)

\* Every dependency relation of three units, of which some may be on a fourth that
\* is unknown.
AnyDependencies == [deps : [1..3 -> SUBSET (1..4)], scope : {<<{}, {}, {}>>}, exempt : {{}}]

SomeScopes ==
  <<{}, {<<"src">>}, {<<"src", "*">>}, {<<"lib", "a">>}, {<<"**", "a">>}>>

\* Two units that differ in their scopes alone; their order does not matter.
AnyScopes ==
  [deps : {<<{}, {}>>}, exempt : {{}},
   scope : {<<SomeScopes[p[1]], SomeScopes[p[2]]>> :
              p \in {q \in (1..5) \X (1..5) : q[1] <= q[2]}}]

\* Three units of which two overlap, the third waits, and the overlap is exempt.
Waiting ==
  [deps : {<<{}, {}, {1}>>},
   scope : {<<{<<"src">>}, {<<"src", "*">>}, {<<"lib">>}>>,
            <<{<<"src">>}, {<<"lib", "*">>}, {<<"lib">>}>>},
   exempt : {{1, 2}}]

SomePlans == AnyDependencies \cup AnyScopes \cup Waiting

(***************************** Units to review *****************************)

File(dir, signals, nature) ==
  [dir |-> dir, signals |-> signals, risky |-> nature = "risky",
   contract |-> nature = "contract", design |-> nature = "design"]

Code == File("src", {}, "plain")
Threads == File("src", {"concurrency"}, "plain")
Login == File("src", {"security"}, "plain")
Payment == File("pay", {}, "risky")
Contract == File("src", {}, "contract")
Screen == File("src", {}, "design")

WorkUnit(traits, risk, acceptance, scope) ==
  [scope |-> scope, traits |-> traits, risk |-> risk, initial |-> 0, maximum |-> 2,
   secrets |-> FALSE, acceptance |-> acceptance, mustDiffer |-> FALSE]

MakeJob(spec, changes, runner, tier, independence, usable, merging) ==
  [unit |-> spec, changes |-> changes, author |-> [runner |-> runner, tier |-> tier],
   policy |-> [independence |-> independence, allowed |-> Runners, authors |-> Runners,
               available |-> Runners, models |-> {}],
   usable |-> usable, merging |-> merging, unfit |-> {}]

Diff(files, size) == [files |-> files, lines |-> size]

SomeJobs ==
  { MakeJob(WorkUnit({}, "low", TRUE, {Code}), <<Diff({Code}, 40), Diff({Code, Login}, 60)>>,
             "codex", 1, "provider", {"claude", "codex"}, "agents"),
     MakeJob(WorkUnit({}, "low", TRUE, {Code}), <<Diff({Code, Login}, 60)>>,
             "codex", 1, "persona", {"claude", "codex"}, "agents"),
     MakeJob(WorkUnit({"mechanical"}, "low", FALSE, {Code}),
             <<Diff({Code, Threads, Screen, Contract}, 310), Diff({Code, Contract}, 400)>>,
             "groq", 0, "provider", {"claude"}, "agents"),
     MakeJob(WorkUnit({}, "medium", FALSE, {Code, Payment}),
             <<Diff({Code, Screen}, 10), Diff({Payment}, 400)>>,
             "claude", 2, "provider", {"claude", "codex"}, "agents"),
     MakeJob(WorkUnit({"mechanical"}, "low", TRUE, {Code}), <<Diff({Code}, 10)>>,
             "groq", 0, "provider", {"gemini", "claude"}, "human") }

(**************************** Records to use ********************************)

\* Before the first call only commands that take no lease, or act on the unit
\* more than once, have been approved.
ApprovedBefore(r) == reviewed[r].open /\ reviewed[r].plan.cmd.op \in {"cleanup", "drive"}

(************************************ Parts *********************************)

Parts == {"store", "plugin", "worktree", "commands", "escalation", "analysis", "dispatch",
          "review", "guard", "steward", "attempt", "probe"}

allVars == <<storeVars, notificationVars, worktreeVars, gatedVars, escalationVars,
             dispatchVars, reviewVars, guardVars, stewardVars, attemptVars, certificationVars, part>>

PartsInit ==
  /\ part \in Parts
  /\ StoreInit /\ NotificationInit /\ WorktreeInit
  /\ GatedInit /\ \A r \in Records : reviewed[r] = NoReview \/ (part = "commands" /\ ApprovedBefore(r))
  /\ EscalationInit /\ (part # "escalation" => estimate = CHOOSE c \in CostsOfTiers : TRUE)
  /\ ReviewInit /\ (part # "review" => job = CHOOSE j \in SomeJobs : TRUE)
  /\ DispatchInit /\ GuardInit /\ StewardInit /\ AttemptInit
  /\ CertificationInit /\ (part # "probe" => kind = "api" /\ certificate = "not_configured")
  /\ (part = "dispatch") <=> (Len(unitScope) = 2 \/ exempt # {})
  /\ part \notin {"analysis", "dispatch"} => deps = [i \in 1..3 |-> {}]

PartsNext ==
  /\ \/ part = "store" /\ StoreNext
        /\ UNCHANGED <<notificationVars, worktreeVars, gatedVars, escalationVars, dispatchVars,
                       reviewVars, guardVars, stewardVars, attemptVars, certificationVars>>
     \/ part = "plugin" /\ NotificationNext
        /\ UNCHANGED <<storeVars, worktreeVars, gatedVars, escalationVars, dispatchVars,
                       reviewVars, guardVars, stewardVars, attemptVars, certificationVars>>
     \* Nothing is claimed of a unit started under its cleanup: its runs end there.
     \/ part = "worktree" /\ ~overtaken /\ WorktreeNext
        /\ UNCHANGED <<storeVars, notificationVars, gatedVars, escalationVars, dispatchVars,
                       reviewVars, guardVars, stewardVars, attemptVars, certificationVars>>
     \/ part = "commands" /\ GatedNext
        /\ UNCHANGED <<storeVars, notificationVars, worktreeVars, escalationVars, dispatchVars,
                       reviewVars, guardVars, stewardVars, attemptVars, certificationVars>>
     \/ part = "escalation" /\ EscalationNext
        /\ UNCHANGED <<storeVars, notificationVars, worktreeVars, gatedVars, dispatchVars,
                       reviewVars, guardVars, stewardVars, attemptVars, certificationVars>>
     \/ part = "analysis" /\ AnalysisNext
        /\ UNCHANGED <<unitState, chosen, around>>
        /\ UNCHANGED <<storeVars, notificationVars, worktreeVars, gatedVars, escalationVars,
                       reviewVars, guardVars, stewardVars, attemptVars, certificationVars>>
     \/ part = "dispatch" /\ DispatchNext
        /\ UNCHANGED <<storeVars, notificationVars, worktreeVars, gatedVars, escalationVars,
                       reviewVars, guardVars, stewardVars, attemptVars, certificationVars>>
     \/ part = "review" /\ ReviewNext
        /\ UNCHANGED <<storeVars, notificationVars, worktreeVars, gatedVars, escalationVars,
                       dispatchVars, guardVars, stewardVars, attemptVars, certificationVars>>
     \/ part = "guard" /\ GuardNext
        /\ UNCHANGED <<storeVars, notificationVars, worktreeVars, gatedVars, escalationVars,
                       dispatchVars, reviewVars, stewardVars, attemptVars, certificationVars>>
     \/ part = "steward" /\ StewardNext
        /\ UNCHANGED <<storeVars, notificationVars, worktreeVars, gatedVars, escalationVars,
                       dispatchVars, reviewVars, guardVars, attemptVars, certificationVars>>
     \/ part = "attempt" /\ AttemptNext
        /\ UNCHANGED <<storeVars, notificationVars, worktreeVars, gatedVars, escalationVars,
                       dispatchVars, reviewVars, guardVars, stewardVars, certificationVars>>
     \/ part = "probe" /\ CertificationNext
        /\ UNCHANGED <<storeVars, notificationVars, worktreeVars, gatedVars, escalationVars,
                       dispatchVars, reviewVars, guardVars, stewardVars, attemptVars>>
  /\ UNCHANGED part

PartsSpec == PartsInit /\ [][PartsNext]_allVars

PartsTypeOK ==
  CASE part = "store" -> StoreTypeOK
    [] part = "plugin" -> NotificationTypeOK
    [] part = "worktree" -> WorktreeTypeOK
    [] part = "commands" -> GatedTypeOK
    [] part = "escalation" -> EscalationTypeOK
    [] part = "review" -> ReviewTypeOK
    [] part = "guard" -> GuardTypeOK
    [] part = "steward" -> StewardTypeOK
    [] part = "attempt" -> AttemptTypeOK
    [] part = "probe" -> CertificationTypeOK
    [] part \in {"analysis", "dispatch"} -> TRUE

==============================================================================
