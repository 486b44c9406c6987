--------------------------- MODULE ApprovalBroker ----------------------------
(***************************************************************************)
(* Approval requests and the decisions about them: plugin/approvals.py and *)
(* plugin/inbox.py.                                                        *)
(*                                                                         *)
(* The broker keeps its requests in one file, which every operation loads, *)
(* checks, edits and replaces under a lock: an operation is one step.      *)
(* Decisions are files somebody writes into the inbox.  Several consumers, *)
(* a standing processor and the commands that decide, take the same files: *)
(* they open one, claim it by an advisory lock, resolve it, record a result*)
(* and move it away, and may die or fail between any two of these.         *)
(*                                                                         *)
(* A request's id is its place in `requests`.  Of what a request is bound  *)
(* to, the unit and the head are kept: run, action, plan and session are   *)
(* compared in the same expression.                                        *)
(***************************************************************************)
EXTENDS Integers, Sequences

CONSTANTS
  Units,
  Files,        \* names of decision files; a name is used once
  Consumers,    \* processes that consume the inbox
  NoFile,
  MaxHead,      \* bound: commits of a unit's branch
  MaxRequests   \* bound: approvals requested

ASSUME FileAssumption == NoFile \notin Files
ASSUME ApprovalBounds == MaxHead \in Nat \ {0} /\ MaxRequests \in Nat

RequestId == 1..MaxRequests

\* What a merge approval is for.
Binding == [unit : Units, head : 1..MaxHead]

VARIABLES
  requests,   \* approvals.json
  inbox,      \* inbox[f]: the decision in file f of the inbox
  results,    \* results[f]: the recorded result of f in processed/
  claims,     \* claims[c]: the file consumer c is at
  accepted,   \* history: the decisions the broker accepted, with their file
  disturbed   \* history: files whose handling ended with a crash or an error

brokerVars == <<requests, inbox, results, claims, accepted, disturbed>>

Status == {"pending", "approved", "rejected", "expired", "consumed"}

\* A decision that names no head stands for one that names the request's.
Decision == [id : RequestId, for : Binding, say : {"approved", "rejected"}]

\* A file that cannot be read as a decision, and no file at all.
Unreadable == [id |-> 0, say |-> "unreadable"]
Gone == [id |-> 0, say |-> "gone"]

Claimed == {"holding", "resolved", "recorded"}

Free == [at |-> "free", file |-> NoFile, decision |-> Gone, ok |-> FALSE]

RequestRecord == [for : Binding, status : Status, live : BOOLEAN]

ClaimRecord ==
  {Free} \cup [at : {"opened"} \cup Claimed, file : Files,
               decision : Decision \cup {Unreadable}, ok : BOOLEAN]

\* No two consumers are at work on one file.
OneClaim ==
  \A c, e \in Consumers :
    claims[c].file = claims[e].file /\ {claims[c].at, claims[e].at} \subseteq Claimed =>
      c = e

BrokerTypeOK ==
  /\ requests \in Seq(RequestRecord)
  /\ Len(requests) <= MaxRequests
  /\ inbox \in [Files -> Decision \cup {Unreadable, Gone}]
  /\ results \in [Files -> {"none", "applied", "refused"}]
  /\ claims \in [Consumers -> ClaimRecord]
  /\ accepted \subseteq [file : Files \cup {NoFile}, decision : Decision]
  /\ disturbed \subseteq Files
  /\ OneClaim

BrokerInit ==
  /\ requests = << >>
  /\ inbox = [f \in Files |-> Gone]
  /\ results = [f \in Files |-> "none"]
  /\ claims = [c \in Consumers |-> Free]
  /\ accepted = {}
  /\ disturbed = {}

inboxVars == <<inbox, results, claims, disturbed>>

(******************************* The broker ********************************)

WithStatus(rs, r, status) == [rs EXCEPT ![r] = [rs[r] EXCEPT !.status = status]]

\* request(): a new pending request.  Its time to live has begun.
Request(b) ==
  /\ Len(requests) < MaxRequests
  /\ requests' = Append(requests, [for |-> b, status |-> "pending", live |-> TRUE])

\* The clock reaches a request's expires_at.  Nobody asks about one that is no
\* longer pending or approved.
Lapse(r) ==
  /\ r \in DOMAIN requests
  /\ requests[r].live
  /\ requests[r].status \in {"pending", "approved"}
  /\ requests' = [requests EXCEPT ![r].live = FALSE]
  /\ UNCHANGED <<inboxVars, accepted>>

\* _expire(): what it makes of the requests whose time is over.
Expired ==
  [r \in DOMAIN requests |->
     IF requests[r].status = "pending" /\ ~requests[r].live
     THEN [requests[r] EXCEPT !.status = "expired"]
     ELSE requests[r]]

\* Mutant of Acceptable: request_pending is not checked.
AcceptableAgain(d) ==
  /\ d.say # "unreadable"
  /\ d.id \in DOMAIN requests
  /\ requests[d.id].live
  /\ requests[d.id].for = d.for

\* _decision_checks()
Acceptable(d) ==
  /\ d.say # "unreadable"
  /\ d.id \in DOMAIN requests
  /\ Expired[d.id].status = "pending"
  /\ Expired[d.id].for = d.for

\* resolve(): the requests after a decision that was, or was not, accepted.
\* A refused one is audited, and what has expired is saved with it.
Decided(d) ==
  IF Acceptable(d) THEN WithStatus(Expired, d.id, d.say) ELSE Expired

AcceptedNow(f, d) ==
  IF Acceptable(d) THEN {[file |-> f, decision |-> d]} ELSE {}

\* _usable_checks()
Usable(r, b) ==
  /\ r \in DOMAIN requests
  /\ requests[r].status = "approved"
  /\ requests[r].live
  /\ requests[r].for = b

\* Mutant of Consumed: the request is not marked.
UsedUnmarked(r) == [requests EXCEPT ![r].live = TRUE]

\* consume(): the requests after the use of a usable one.
Consumed(r) == WithStatus(requests, r, "consumed")

(******************************** The inbox ********************************)

\* Somebody writes a decision into the inbox, under a name of its own.
WriteDecision(f, d) ==
  /\ inbox[f] = Gone
  /\ results[f] = "none"
  /\ inbox' = [inbox EXCEPT ![f] = d]
  /\ UNCHANGED <<requests, results, claims, accepted, disturbed>>

\* Mutant of Open: a file that has a result is taken for handled.
OpenUnanswered(c, f) ==
  /\ claims[c].at = "free"
  /\ inbox[f] # Gone
  /\ results[f] = "none"
  /\ claims' = [claims EXCEPT ![c] =
       [at |-> "opened", file |-> f, decision |-> inbox[f], ok |-> FALSE]]
  /\ UNCHANGED <<requests, inbox, results, accepted, disturbed>>

\* process_one(), reject(): open a file that is there.  What is read later is
\* the opened file, wherever its name has gone.
Open(c, f) ==
  /\ claims[c].at = "free"
  /\ inbox[f] # Gone
  /\ claims' = [claims EXCEPT ![c] =
       [at |-> "opened", file |-> f, decision |-> inbox[f], ok |-> FALSE]]
  /\ UNCHANGED <<requests, inbox, results, accepted, disturbed>>

ClaimedByAnother(c) ==
  \E other \in Consumers \ {c} :
    /\ claims[other].file = claims[c].file
    /\ claims[other].at \in Claimed

\* Mutant of Claim: the file that was opened may have been moved away.
ClaimBlindly(c) ==
  /\ claims[c].at = "opened"
  /\ ~ClaimedByAnother(c)
  /\ claims' = [claims EXCEPT ![c].at = "holding"]
  /\ UNCHANGED <<requests, inbox, results, accepted, disturbed>>

\* The claim is granted; it counts only if the name still points at the file.
Claim(c) ==
  /\ claims[c].at = "opened"
  /\ ~ClaimedByAnother(c)
  /\ claims' = [claims EXCEPT ![c] =
       IF inbox[claims[c].file] # Gone THEN [@ EXCEPT !.at = "holding"] ELSE Free]
  /\ UNCHANGED <<requests, inbox, results, accepted, disturbed>>

\* The file is claimed by another consumer for longer than `wait`.
SkipFile(c) ==
  /\ claims[c].at = "opened"
  /\ ClaimedByAnother(c)
  /\ claims' = [claims EXCEPT ![c] = Free]
  /\ UNCHANGED <<requests, inbox, results, accepted, disturbed>>

ResolveFile(c) ==
  LET d == claims[c].decision IN
  /\ claims[c].at = "holding"
  /\ requests' = IF d = Unreadable THEN requests ELSE Decided(d)
  /\ accepted' = accepted \cup AcceptedNow(claims[c].file, d)
  /\ claims' = [claims EXCEPT ![c].at = "resolved", ![c].ok = Acceptable(d)]
  /\ UNCHANGED <<inbox, results, disturbed>>

\* Watch mode sets a file aside, undecided, after repeated errors with it.
SetAside(c) ==
  /\ claims[c].at = "holding"
  /\ claims[c].file \in disturbed
  /\ claims' = [claims EXCEPT ![c].at = "resolved"]
  /\ UNCHANGED <<requests, inbox, results, accepted, disturbed>>

\* _record(): the result first,
RecordResult(c) ==
  /\ claims[c].at = "resolved"
  /\ results' = [results EXCEPT ![claims[c].file] =
                   IF claims[c].ok THEN "applied" ELSE "refused"]
  /\ claims' = [claims EXCEPT ![c].at = "recorded"]
  /\ UNCHANGED <<requests, inbox, accepted, disturbed>>

\* then the file moves into processed/.  It may have been moved meanwhile.
MoveFile(c) ==
  /\ claims[c].at = "recorded"
  /\ inbox' = [inbox EXCEPT ![claims[c].file] = Gone]
  /\ claims' = [claims EXCEPT ![c] = Free]
  /\ UNCHANGED <<requests, results, accepted, disturbed>>

\* The consumer dies or an operation fails.  Its claim goes with it.  Bound:
\* once per file.
Disturb(c) ==
  /\ claims[c].at # "free"
  /\ claims[c].file \notin disturbed
  /\ disturbed' = disturbed \cup {claims[c].file}
  /\ claims' = [claims EXCEPT ![c] = Free]
  /\ UNCHANGED <<requests, inbox, results, accepted>>

Handle(c) ==
  Claim(c) \/ SkipFile(c) \/ ResolveFile(c) \/ SetAside(c) \/ RecordResult(c) \/ MoveFile(c)

InboxNext ==
  \/ \E f \in Files, d \in Decision \cup {Unreadable} : WriteDecision(f, d)
  \/ \E c \in Consumers : Handle(c) \/ Disturb(c) \/ \E f \in Files : Open(c, f)
  \/ \E r \in RequestId : Lapse(r)

(*************************** The broker alone ******************************)

\* Somebody asks for an approval, or uses one it was given.
RequestAny == \E b \in Binding : Request(b) /\ UNCHANGED <<inboxVars, accepted>>

UseAny ==
  \E r \in RequestId, b \in Binding :
    /\ Usable(r, b)
    /\ requests' = Consumed(r)
    /\ UNCHANGED <<inboxVars, accepted>>

BrokerNext == InboxNext \/ RequestAny \/ UseAny

BrokerSpec == BrokerInit /\ [][BrokerNext]_brokerVars

\* A consumer goes on with the file it has, and a pass over the inbox visits
\* every file in it.
BrokerFairness ==
  \A c \in Consumers :
    /\ WF_brokerVars(Handle(c))
    /\ \A f \in Files : SF_brokerVars(Open(c, f))

FairBrokerSpec == BrokerSpec /\ BrokerFairness

(******************************* Properties ********************************)

\* A request is decided once: what was decided stands until it is used, and
\* what was used, refused or has run out never becomes usable again, whoever
\* resolves files or crashes when.
DecisionsStand ==
  [][\A r \in DOMAIN requests :
       requests[r].status # "pending" =>
         \/ requests'[r].status = requests[r].status
         \/ requests[r].status = "approved" /\ requests'[r].status = "consumed"]_requests

\* A file that left the inbox undisturbed is answered by what the broker did
\* with it: a later consumer of the same file does not overwrite the answer of
\* the one that applied it (docs/openclaw-events.md: "exactly one consumer
\* handles it").
AnswersAreTrue ==
  \A f \in Files :
    inbox[f] = Gone /\ results[f] # "none" /\ f \notin disturbed =>
      (results[f] = "applied" <=> \E a \in accepted : a.file = f)

\* Every decision file is dealt with, though consumers compete for it and one
\* of them may die or fail with it (docs/cli.md: the next pass takes it again).
InboxDrains == \A f \in Files : []<>(inbox[f] = Gone)

==============================================================================
