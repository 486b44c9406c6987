------------------------------ MODULE TeamReview -----------------------------
(***************************************************************************)
(* The review of a unit by agents (team/review.py), from the first         *)
(* reviewer to the merge queue: the roles its changes call for, each played *)
(* by a provider of the role's panel, then a verifier who runs the work.   *)
(*                                                                         *)
(* The session keeps the head it began with; meanwhile the branch may get  *)
(* commits, the owner or another session of the same conductor may take    *)
(* the unit away, and it may come back at another head.  Whom a rotation   *)
(* picks among the eligible providers is left open.                        *)
(***************************************************************************)
EXTENDS Routing, UnitState

CONSTANTS
  Jobs,      \* units to review: the specification, the changes at each
             \* head, the author, the policy and whom the pack or price rules out
  Unreviewed

\* The author of a job is one that select_runner may have chosen at dispatch, when
\* there was a scope and no diff.
ASSUME AuthorsAssumption ==
  \A j \in Jobs :
    j.author.runner \in
      AuthorChoices(j.author.tier, RiskOf(j.unit, [files |-> {}, lines |-> 0]), j.policy, Runners)

\* What validate_work_unit lets through of a unit; a diff is a finite set of files
\* and a number of lines, and work was verified at one head at least.
ASSUME JobsAssumption ==
  \A j \in Jobs :
    /\ j.unit.risk \in DOMAIN RiskFloor
    /\ j.unit.initial \in RoutingTier /\ j.unit.maximum \in RoutingTier
    /\ j.changes \in Seq(Range(j.changes)) /\ j.changes # << >>
    /\ \A diff \in Range(j.changes) : IsFiniteSet(diff.files) /\ diff.lines \in Nat

VARIABLES
  job,        \* which of them
  class,      \* _classify of it at each head
  subject,   \* the unit: its state, the tip of its branch, and its annotations
  session,    \* TeamStep.run: its place and its locals
  queued      \* history: what entered the merge queue, with the session's verdicts

reviewVars == <<job, class, subject, session, queued>>

ReviewVerdicts == {"approved", "changes_requested", "rejected"}
VerifyVerdicts == {"pass", "fail", "inconclusive"}

NoSession == [at |-> "idle", head |-> 0, todo |-> << >>, round |-> "others",
         tried |-> {}, verdicts |-> << >>]

ReviewTypeOK ==
  /\ subject.state \in State
  /\ subject.verified \in DOMAIN job.changes /\ subject.tip \in subject.verified..Len(job.changes) + 1
  /\ subject.review = Unreviewed \/ subject.review.head <= subject.verified
  /\ session.at \in {"idle", "play", "judge", "record", "approve", "queue"}
  /\ session.head <= Len(job.changes)
  /\ session.tried \subseteq Runners

ReviewInit ==
  /\ job \in Jobs
  /\ class = [head \in DOMAIN job.changes |-> Classify(job.unit, job.changes[head])]
  /\ subject = [state |-> "reviewing", verified |-> 1, tip |-> 1, review |-> Unreviewed]
  /\ session = NoSession
  /\ queued = {}

(*************************** What the changes need **************************)

IsHigh(head) ==
  \/ class[head].risk = "high"
  \/ \E p \in job.changes[head].files : p.risky
  \/ "security" \in class[head].signals

\* The reviewers in the order they are asked, then the verifier.
RolesAt(head) ==
  LET files == job.changes[head].files
      if(holds, role) == IF holds THEN <<role>> ELSE << >>
  IN  <<"pr_reviewer">>
      \o if(IsHigh(head), "security_reviewer")
      \o if(\E p \in files : p.contract, "architect")
      \o if(\E p \in files : p.design, "designer")
      \o <<"verifier">>

Role == Head(session.todo)
TierFor(role) == RoleTier(role, RequiredReview(job.author, class[session.head]).tier)

PRProvider == {session.verdicts[i].provider :
                 i \in {j \in DOMAIN session.verdicts : session.verdicts[j].role = "pr_reviewer"}}

\* Who may be asked now: candidates() and Rotation.choose.  The first round
\* looks for another provider than the author's, and for strict work another
\* family; the second takes anybody.
Eligible ==
  LET now == class[session.head]
      apart == session.round = "others"
      strict == RequiredReview(job.author, now).strict /\ Role # "verifier"
      allowed == Candidates(TierFor(Role), "review", now.risk, job.policy, job.usable,
                            IF apart THEN {job.author.runner} ELSE {},
                            IF apart /\ strict THEN {Profiles[job.author.runner].family} ELSE {})
  IN  {p \in allowed \cap Panel(Role, TierFor(Role)) :
         /\ p \notin session.tried
         /\ Role # "verifier" => p \notin job.unfit
         /\ apart /\ Role = "security_reviewer" => p \notin PRProvider
         /\ Role = "verifier" => Profiles[p].cli}

(********************************* A turn ***********************************)

\* parse_verdict: what the reply says may not be what it amounts to.
ReviewReplies == [verdict : ReviewVerdicts, blocker : BOOLEAN]
VerifyReplies == [verdict : VerifyVerdicts, failed : BOOLEAN, blocked : BOOLEAN, blocker : BOOLEAN]

ParsedReview(r) ==
  IF r.verdict = "approved" /\ r.blocker THEN "changes_requested" ELSE r.verdict

ParsedVerification(r) ==
  CASE r.failed -> "fail"
    [] ~r.failed /\ r.blocked /\ ~r.blocker -> "inconclusive"
    [] OTHER -> r.verdict

\* What one turn, with its one repetition, may come to.
Outcomes ==
  IF Role = "verifier"
  THEN {ParsedVerification(r) : r \in VerifyReplies} \cup {"fail"}      \* unusable
  ELSE {ParsedReview(r) : r \in ReviewReplies} \cup {"changes_requested"}

StartReview ==
  /\ session.at = "idle" /\ subject.state = "reviewing"
  /\ session' = [NoSession EXCEPT !.at = "play", !.head = subject.verified,
                             !.todo = RolesAt(subject.verified)]
  /\ UNCHANGED <<job, class, subject, queued>>

GiveVerdict(provider, outcome) ==
  session' = [session EXCEPT !.at = "judge",
                !.verdicts = Append(@, [role |-> Role, provider |-> provider, says |-> outcome])]

\* A provider that fails is passed over.
ProviderFails(p) ==
  /\ session.at = "play" /\ p \in Eligible
  /\ session' = [session EXCEPT !.tried = @ \cup {p}]
  /\ UNCHANGED <<job, class, subject, queued>>

PlayTurn(p) ==
  /\ session.at = "play" /\ p \in Eligible
  /\ \E outcome \in Outcomes : GiveVerdict(p, outcome)
  /\ UNCHANGED <<job, class, subject, queued>>

\* Nobody is left: anybody may play the persona, and then nobody can.
NobodyLeft ==
  /\ session.at = "play" /\ Eligible = {}
  /\ IF session.round = "others"
     THEN session' = [session EXCEPT !.round = "any", !.tried = {}]
     ELSE GiveVerdict("none", "none")
  /\ UNCHANGED <<job, class, subject, queued>>

(****************************** The verdicts ********************************)


Says == session.verdicts[Len(session.verdicts)].says

\* A transition of the unit that the table may refuse.
MoveTo(s) ==
  IF s \in Targets(subject.state) THEN [subject EXCEPT !.state = s] ELSE subject

NeedsUser ==
  /\ subject' = MoveTo("needs_user")
  /\ session' = NoSession

\* return_for_changes: back to its coder, or to the owner when the budget or
\* the patience with this role is used up.  The head is not compared.
ReturnedForChanges ==
  /\ \E s \in {"ready", "needs_user"} : subject' = MoveTo(s)
  /\ session' = NoSession

NextRole ==
  /\ session' = [session EXCEPT !.at = "play", !.todo = Tail(@), !.round = "others", !.tried = {}]
  /\ UNCHANGED subject

Accepted ==
  /\ session' = [session EXCEPT !.at = "record"]
  /\ UNCHANGED subject

\* _handle_review, and what run() does with the verifier's verdict.  The gates
\* passed on this head, so an inconclusive one is left to them unless the unit is
\* a high risk.
Judge ==
  /\ session.at = "judge"
  /\ \/ Says \in {"none", "rejected"} /\ NeedsUser
     \/ Says \in {"changes_requested", "fail"} /\ ReturnedForChanges
     \/ Says = "approved" /\ NextRole
     \/ Says = "pass" /\ Accepted
     \/ Says = "inconclusive" /\ ~IsHigh(session.head) /\ Accepted
     \/ Says = "inconclusive" /\ IsHigh(session.head) /\ NeedsUser
  /\ UNCHANGED <<job, class, queued>>

(************************** Record, approve, queue **************************)

Satisfies(review, head) ==
  ReviewSatisfies(review, job.author, class[head], job.policy, job.usable)

\* record_review with the PR reviewer's verdict, and the request for approval.
RecordReview ==
  /\ session.at = "record"
  /\ LET review == [runner |-> session.verdicts[1].provider, tier |-> TierFor("pr_reviewer"),
                    head |-> session.head, approved |-> FALSE, used |-> FALSE]
     IN IF /\ subject.state = "reviewing"
           /\ session.head = subject.verified /\ subject.tip = subject.verified
           /\ Satisfies(review, session.head)
        THEN /\ subject' = [subject EXCEPT !.review = review]
             /\ session' = IF job.merging = "agents" THEN [session EXCEPT !.at = "approve"] ELSE NoSession
        ELSE session' = NoSession /\ UNCHANGED subject
  /\ UNCHANGED <<job, class, queued>>

\* The agents approve the request this review made.
ApproveMerge ==
  /\ session.at = "approve"
  /\ session' = [session EXCEPT !.at = "queue"]
  /\ subject' = IF subject.review.head = session.head
                 THEN [subject EXCEPT !.review.approved = TRUE] ELSE subject
  /\ UNCHANGED <<job, class, queued>>

\* The head of the review is not looked at.
MayQueueAnyHead ==
  LET r == subject.review
  IN  /\ subject.state = "reviewing" /\ r # Unreviewed
      /\ subject.tip = subject.verified
      /\ Satisfies(r, subject.verified)
      /\ r.approved /\ ~r.used

\* enqueue_merge and the queue's own checks, on the annotations as they are.
MayQueue ==
  LET r == subject.review
  IN  /\ subject.state = "reviewing" /\ r # Unreviewed
      /\ subject.tip = subject.verified
      /\ r.head = subject.verified
      /\ Satisfies(r, subject.verified)
      /\ r.approved /\ ~r.used

Enqueue ==
  /\ session.at = "queue"
  /\ session' = NoSession
  /\ IF MayQueue
     THEN /\ subject' = [subject EXCEPT !.state = "queued_for_merge", !.review.used = TRUE]
          /\ queued' = queued \cup
               {[head |-> subject.verified, reviewedAt |-> session.head, verdicts |-> session.verdicts]}
     ELSE UNCHANGED <<subject, queued>>
  /\ UNCHANGED <<job, class>>

(************************** What goes on meanwhile **************************)

\* The branch gets commits nobody verified.
BranchMoves ==
  /\ subject.tip = subject.verified
  /\ subject' = [subject EXCEPT !.tip = @ + 1]
  /\ UNCHANGED <<job, class, session, queued>>

\* The owner, another session or the merge takes the unit elsewhere.
Taken(s) ==
  /\ \/ subject.state = "reviewing" /\ s \in {"ready", "needs_user", "cancelled"}
     \/ subject.state = "queued_for_merge" /\ s \in {"merged", "blocked", "failed"}
     \/ subject.state \in {"blocked", "failed"} /\ s = "ready"
  /\ subject' = [subject EXCEPT !.state = s]
  /\ UNCHANGED <<job, class, session, queued>>

\* A new attempt passes its gates.
WorkedAgain ==
  /\ subject.state = "ready" /\ subject.verified < Len(job.changes)
  /\ subject' = [subject EXCEPT !.state = "reviewing", !.verified = @ + 1, !.tip = subject.verified + 1]
  /\ UNCHANGED <<job, class, session, queued>>

\* `ecc resume`, or the drive, reopens a review that nobody could play.
Reopened ==
  /\ subject.state = "needs_user"
  /\ subject' = [subject EXCEPT !.state = "reviewing"]
  /\ UNCHANGED <<job, class, session, queued>>

\* The session's process dies; what it annotated stays.
SessionDies ==
  /\ session.at # "idle" /\ session' = NoSession
  /\ UNCHANGED <<job, class, subject, queued>>

ReviewNext ==
  \/ StartReview
  \/ \E p \in Runners : ProviderFails(p) \/ PlayTurn(p)
  \/ NobodyLeft \/ Judge \/ RecordReview \/ ApproveMerge \/ Enqueue
  \/ BranchMoves \/ WorkedAgain \/ Reopened \/ SessionDies
  \/ \E s \in State : Taken(s)

ReviewSpec == ReviewInit /\ [][ReviewNext]_reviewVars

(******************************* Properties ********************************)

\* What the agents queue was reviewed, all of it, as its changes require
\* (docs/routing.md:118, docs/cli.md:35): the head queued is the one the
\* session looked at, every role those changes call for approved it, the work was
\* verified or, for a unit that is no high risk, left to the gates, and tier 2 or
\* high risk work had a PR reviewer outside the author's model family.
QueuedIsReviewed ==
  \A q \in queued :
    LET now == class[q.head]
        asked == {q.verdicts[i].role : i \in DOMAIN q.verdicts}
        said(role) == {q.verdicts[i].says : i \in {j \in DOMAIN q.verdicts : q.verdicts[j].role = role}}
    IN  /\ q.head = q.reviewedAt
        /\ asked = Range(RolesAt(q.head))
        /\ \A role \in asked \ {"verifier"} : said(role) = {"approved"}
        /\ said("verifier") \subseteq {"pass"} \cup (IF IsHigh(q.head) THEN {} ELSE {"inconclusive"})
        /\ (now.review = 2 \/ now.risk = "high") /\ ~ByPersona(job.policy) =>
             Profiles[q.verdicts[1].provider].family # Profiles[job.author.runner].family

\* Some part of the changes at a head, taken alone, would be reviewed more
\* strictly than the whole.
LighterThanAPart(head) ==
  LET whole == job.changes[head]
      now == class[head]
  IN  now.ok /\ \E part \in (SUBSET whole.files) \ {{}}, lines \in {1, SmallDiff, whole.lines} :
        LET less == Classify(job.unit, [files |-> part, lines |-> lines])
        IN  /\ lines <= whole.lines
            /\ \/ ~less.ok
               \/ less.review > now.review
               \/ less.mustDiffer /\ ~now.mustDiffer
               \/ RiskFloor[less.risk] > RiskFloor[now.risk]

\* No change gets a lighter review for being larger ("Nothing lowers a floor",
\* routing/classify.py:24): the review about to be recorded is asked for at no
\* lower tier than any part of the changes alone would be, and from someone else
\* than the author whenever the part would be.
TierGrowsWithDiff == session.at = "record" => ~LighterThanAPart(session.head)

==============================================================================
