------------------------- MODULE MergeQueue_proofs ---------------------------
(***************************************************************************)
(* Theorems about ApprovalBroker and MergeQueue, for every number of       *)
(* units, sessions, decision files, consumers, commits, requests and       *)
(* crashes: decisions are final and the answers of the inbox are true,     *)
(* what is in the queue was paid for, what the run calls merged is in the  *)
(* target, and the target gets only what was approved                      *)
(* (plugin/approvals.py, plugin/inbox.py, merge_queue/queue.py,            *)
(* runs/conductor.py).                                                     *)
(***************************************************************************)
EXTENDS MergeQueue, FiniteSetTheorems, SequenceTheorems, TLAPS

USE FileAssumption, ApprovalBounds

Requests == Seq(RequestRecord)

(******************************* Requests **********************************)

\* Expiry keeps every request and changes nothing but the status of pending
\* ones (_expire).
LEMMA ExpiredType ==
  ASSUME requests \in Requests
  PROVE  /\ Expired \in Requests
         /\ Len(Expired) = Len(requests)
         /\ DOMAIN Expired = DOMAIN requests
         /\ \A r \in DOMAIN requests :
              requests[r].status # "pending" => Expired[r] = requests[r]
<1>1. DOMAIN requests = 1..Len(requests) /\ Len(requests) \in Nat
  BY DEF Requests
<1>2. \A r \in 1..Len(requests) : requests[r] \in RequestRecord
  BY DEF Requests
<1>3. \A r \in 1..Len(requests) : [requests[r] EXCEPT !.status = "expired"] \in RequestRecord
  BY <1>2 DEF RequestRecord, Status
<1>4. \A r \in 1..Len(requests) : Expired[r] \in RequestRecord
  BY <1>1, <1>2, <1>3 DEF Expired
<1>5. Expired = [r \in 1..Len(requests) |-> Expired[r]]
  BY <1>1, Zenon DEF Expired
<1>6. Expired \in Requests /\ Len(Expired) = Len(requests)
  BY <1>1, <1>4, <1>5, IsASeq DEF Requests
<1> QED
  BY <1>1, <1>6 DEF Expired

\* Setting a status keeps a sequence of requests one.
LEMMA StatusSetType ==
  ASSUME NEW rs \in Requests, NEW r \in DOMAIN rs, NEW s \in Status
  PROVE  /\ WithStatus(rs, r, s) \in Requests
         /\ Len(WithStatus(rs, r, s)) = Len(rs)
         /\ DOMAIN WithStatus(rs, r, s) = DOMAIN rs
         /\ WithStatus(rs, r, s)[r].status = s
         /\ \A q \in DOMAIN rs : q # r => WithStatus(rs, r, s)[q] = rs[q]
<1> DEFINE new == [rs[r] EXCEPT !.status = s]
<1>1. rs[r] \in RequestRecord
  BY DEF Requests
<1>2. new \in RequestRecord /\ new.status = s
  BY <1>1 DEF RequestRecord
<1>3. WithStatus(rs, r, s) = [rs EXCEPT ![r] = new]
  BY Zenon DEF WithStatus
<1> HIDE DEF new
<1> QED
  BY <1>2, <1>3 DEF Requests

\* What a decision leaves (resolve): only a pending request gets a decision.
LEMMA DecidedType ==
  ASSUME requests \in Requests, NEW d \in Decision
  PROVE  /\ Decided(d) \in Requests
         /\ Len(Decided(d)) = Len(requests)
         /\ DOMAIN Decided(d) = DOMAIN requests
         /\ \A r \in DOMAIN requests :
              requests[r].status # "pending" => Decided(d)[r] = requests[r]
<1>1. CASE ~Acceptable(d)
  BY <1>1, ExpiredType DEF Decided
<1>2. CASE Acceptable(d)
  <2>1. Expired \in Requests /\ d.id \in DOMAIN Expired /\ d.say \in Status
    BY <1>2, ExpiredType DEF Acceptable, Decision, Status
  <2>2. Decided(d) = WithStatus(Expired, d.id, d.say)
    BY <1>2, Zenon DEF Decided
  <2>3. requests[d.id].status = "pending"
    BY <1>2, ExpiredType DEF Acceptable
  <2>4. /\ Decided(d) \in Requests
        /\ Len(Decided(d)) = Len(Expired)
        /\ DOMAIN Decided(d) = DOMAIN Expired
        /\ \A r \in DOMAIN Expired : r # d.id => Decided(d)[r] = Expired[r]
    BY <2>1, <2>2, StatusSetType
  <2>5. \A r \in DOMAIN requests :
          requests[r].status # "pending" => Decided(d)[r] = requests[r]
    BY <2>3, <2>4, ExpiredType, Zenon
  <2> QED
    BY <2>4, <2>5, ExpiredType, Zenon
<1> QED
  BY <1>1, <1>2

(***************************** Types of a step *****************************)

\* A consumer without a file is well formed.
LEMMA FreeType == Free \in ClaimRecord /\ Free.at = "free"
BY DEF Free, ClaimRecord

\* Broker and inbox keep their types, and a file one consumer, in every step.
LEMMA StepKeepsTypes ==
  ASSUME BrokerTypeOK, [BrokerNext]_brokerVars
  PROVE  BrokerTypeOK'
<1>1. CASE UNCHANGED brokerVars
  BY <1>1 DEF brokerVars, BrokerTypeOK, OneClaim
<1>2. ASSUME NEW f \in Files, NEW d \in Decision \cup {Unreadable}, WriteDecision(f, d)
      PROVE  BrokerTypeOK'
  BY <1>2 DEF WriteDecision, BrokerTypeOK, OneClaim
<1>3. ASSUME NEW c \in Consumers, NEW f \in Files, Open(c, f)
      PROVE  BrokerTypeOK'
  <2>1. [at |-> "opened", file |-> f, decision |-> inbox[f], ok |-> FALSE] \in ClaimRecord
    BY <1>3 DEF Open, BrokerTypeOK, ClaimRecord
  <2>2. claims' \in [Consumers -> ClaimRecord]
    BY <1>3, <2>1 DEF Open, BrokerTypeOK
  <2>3. OneClaim'
    BY <1>3 DEF Open, BrokerTypeOK, OneClaim, Claimed
  <2> QED
    BY <1>3, <2>2, <2>3 DEF Open, BrokerTypeOK
<1>4. ASSUME NEW c \in Consumers, Claim(c)
      PROVE  BrokerTypeOK'
  <2>1. claims[c] \in ClaimRecord /\ [claims[c] EXCEPT !.at = "holding"] \in ClaimRecord
    BY <1>4 DEF Claim, BrokerTypeOK, ClaimRecord, Claimed, Free
  <2>2. claims' \in [Consumers -> ClaimRecord]
    BY <1>4, <2>1, FreeType DEF Claim, BrokerTypeOK
  <2>3. OneClaim'
    BY <1>4, <2>1 DEF Claim, BrokerTypeOK, OneClaim, ClaimedByAnother, Claimed, Free
  <2> QED
    BY <1>4, <2>2, <2>3 DEF Claim, BrokerTypeOK
<1>5. ASSUME NEW c \in Consumers, SkipFile(c) \/ Disturb(c) \/ MoveFile(c)
      PROVE  BrokerTypeOK'
  <2>1. claims' = [claims EXCEPT ![c] = Free] /\ claims[c] # Free
    BY <1>5, FreeType DEF SkipFile, Disturb, MoveFile
  <2>2. claims' \in [Consumers -> ClaimRecord]
    BY <2>1, FreeType DEF BrokerTypeOK
  <2>3. OneClaim'
    BY <2>1 DEF BrokerTypeOK, OneClaim, Claimed, Free
  <2>4. claims[c].file \in Files
    BY <2>1 DEF BrokerTypeOK, ClaimRecord
  <2> QED
    BY <1>5, <2>2, <2>3, <2>4 DEF SkipFile, Disturb, MoveFile, BrokerTypeOK
<1>6. ASSUME NEW c \in Consumers, SetAside(c) \/ RecordResult(c)
      PROVE  BrokerTypeOK'
  <2>1. claims[c] \in ClaimRecord \ {Free}
    BY <1>6 DEF SetAside, RecordResult, BrokerTypeOK, Free
  <2>2. \E at \in Claimed : claims' = [claims EXCEPT ![c] = [claims[c] EXCEPT !.at = at]]
    BY <1>6 DEF SetAside, RecordResult, Claimed
  <2>3. PICK at \in Claimed : claims' = [claims EXCEPT ![c] = [claims[c] EXCEPT !.at = at]]
    BY <2>2
  <2>4. [claims[c] EXCEPT !.at = at] \in ClaimRecord
    BY <2>1 DEF ClaimRecord
  <2>5. claims' \in [Consumers -> ClaimRecord]
    BY <2>3, <2>4 DEF BrokerTypeOK
  <2>6. claims[c].at \in Claimed
    BY <1>6 DEF SetAside, RecordResult, Claimed
  <2>7. \A e \in Consumers : claims'[e].file = claims[e].file
                            /\ (claims'[e].at \in Claimed <=> claims[e].at \in Claimed)
    BY <2>1, <2>3, <2>6 DEF BrokerTypeOK, ClaimRecord
  <2>8. OneClaim'
    BY <2>7 DEF BrokerTypeOK, OneClaim
  <2> QED
    BY <1>6, <2>1, <2>5, <2>8 DEF SetAside, RecordResult, BrokerTypeOK, ClaimRecord
<1>7. ASSUME NEW c \in Consumers, ResolveFile(c)
      PROVE  BrokerTypeOK'
  <2> DEFINE d == claims[c].decision
             next == [claims[c] EXCEPT !.at = "resolved", !.ok = Acceptable(d)]
  <2>1. claims[c] \in ClaimRecord \ {Free}
    BY <1>7 DEF ResolveFile, BrokerTypeOK, Free
  <2>2. d \in Decision \cup {Unreadable} /\ claims[c].file \in Files
    BY <2>1 DEF ClaimRecord
  <2>3. Acceptable(d) \in BOOLEAN /\ (d = Unreadable => ~Acceptable(d))
    BY DEF Acceptable, Unreadable
  <2>4. next \in ClaimRecord /\ next.file = claims[c].file /\ next.at \in Claimed
    BY <2>1, <2>3 DEF ClaimRecord, Claimed
  <2>5. claims' = [claims EXCEPT ![c] = next]
    BY <1>7, Zenon DEF ResolveFile
  <2>6. requests' \in Requests /\ Len(requests') = Len(requests)
    BY <1>7, <2>2, DecidedType DEF ResolveFile, BrokerTypeOK, Requests
  <2>7. accepted' \subseteq [file : Files \cup {NoFile}, decision : Decision]
    BY <1>7, <2>2, <2>3 DEF ResolveFile, AcceptedNow, BrokerTypeOK
  <2> HIDE DEF next
  <2>8. claims' \in [Consumers -> ClaimRecord]
    BY <2>4, <2>5 DEF BrokerTypeOK
  <2>9. claims[c].at \in Claimed
    BY <1>7 DEF ResolveFile, Claimed
  <2>10. \A e \in Consumers : claims'[e].file = claims[e].file
                             /\ (claims'[e].at \in Claimed <=> claims[e].at \in Claimed)
    BY <2>4, <2>5, <2>9 DEF BrokerTypeOK
  <2>11. OneClaim'
    BY <2>10 DEF BrokerTypeOK, OneClaim
  <2> QED
    BY <1>7, <2>6, <2>7, <2>8, <2>11 DEF ResolveFile, BrokerTypeOK, Requests
<1>8. ASSUME NEW r \in RequestId, Lapse(r)
      PROVE  BrokerTypeOK'
  <2>1. requests[r] \in RequestRecord
    BY <1>8 DEF Lapse, BrokerTypeOK
  <2>2. [requests[r] EXCEPT !.live = FALSE] \in RequestRecord
    BY <2>1 DEF RequestRecord
  <2>3. requests' = [requests EXCEPT ![r] = [requests[r] EXCEPT !.live = FALSE]]
    BY <1>8, Zenon DEF Lapse
  <2>4. requests' \in Requests /\ Len(requests') = Len(requests)
    BY <1>8, <2>2, <2>3 DEF Lapse, BrokerTypeOK, Requests
  <2> QED
    BY <1>8, <2>4 DEF Lapse, BrokerTypeOK, OneClaim, inboxVars, Requests
<1>9. ASSUME RequestAny
      PROVE  BrokerTypeOK'
  <2>1. PICK b \in Binding : Request(b) /\ UNCHANGED <<inboxVars, accepted>>
    BY <1>9 DEF RequestAny
  <2>2. [for |-> b, status |-> "pending", live |-> TRUE] \in RequestRecord
    BY DEF RequestRecord, Status
  <2>3. requests' \in Requests /\ Len(requests') = Len(requests) + 1
    BY <2>1, <2>2 DEF Request, BrokerTypeOK, Requests
  <2> QED
    BY <2>1, <2>3 DEF Request, BrokerTypeOK, OneClaim, inboxVars, Requests
<1>10. ASSUME UseAny
       PROVE  BrokerTypeOK'
  <2>1. PICK r \in RequestId, b \in Binding :
           Usable(r, b) /\ requests' = Consumed(r) /\ UNCHANGED <<inboxVars, accepted>>
    BY <1>10 DEF UseAny
  <2>2. r \in DOMAIN requests /\ requests \in Requests /\ "consumed" \in Status
    BY <2>1 DEF Usable, BrokerTypeOK, Requests, Status
  <2>3. requests' \in Requests /\ Len(requests') = Len(requests)
    BY <2>1, <2>2, StatusSetType DEF Consumed
  <2> QED
    BY <2>1, <2>3 DEF BrokerTypeOK, OneClaim, inboxVars, Requests
<1> QED
  BY <1>1, <1>2, <1>3, <1>4, <1>5, <1>6, <1>7, <1>8, <1>9, <1>10
     DEF BrokerNext, InboxNext, Handle

\* Requests, files and claims stay well formed, and no file is ever being
\* processed by two consumers, whoever crashes or fails when (inbox.py,
\* approvals.py).
THEOREM BrokerTypeCorrect == BrokerSpec => []BrokerTypeOK
<1>1. BrokerInit => BrokerTypeOK
  BY FreeType DEF BrokerInit, BrokerTypeOK, OneClaim, Claimed, Free
<1>2. BrokerTypeOK /\ [BrokerNext]_brokerVars => BrokerTypeOK'
  BY StepKeepsTypes
<1> QED
  BY <1>1, <1>2, PTL DEF BrokerSpec

(*************************** What was decided ******************************)

\* A step changes a decided request only by using an approved one.
LEMMA StepKeepsDecisions ==
  ASSUME BrokerTypeOK, [BrokerNext]_brokerVars
  PROVE  \A r \in DOMAIN requests :
           requests[r].status # "pending" =>
             \/ requests'[r].status = requests[r].status
             \/ requests[r].status = "approved" /\ requests'[r].status = "consumed"
<1> DEFINE Stands == \A r \in DOMAIN requests :
                       requests[r].status # "pending" =>
                         requests'[r].status = requests[r].status
<1>1. CASE UNCHANGED requests
  BY <1>1
<1>2. ASSUME NEW c \in Consumers, ResolveFile(c)
      PROVE  Stands
  <2>1. claims[c].decision \in Decision \cup {Unreadable}
    BY <1>2 DEF ResolveFile, BrokerTypeOK, ClaimRecord, Free
  <2> QED
    BY <1>2, <2>1, DecidedType DEF ResolveFile, BrokerTypeOK, Requests
<1>3. ASSUME NEW q \in RequestId, Lapse(q)
      PROVE  Stands
  BY <1>3 DEF Lapse, BrokerTypeOK, RequestRecord
<1>4. ASSUME RequestAny
      PROVE  Stands
  BY <1>4 DEF RequestAny, Request, BrokerTypeOK
<1>5. CASE UseAny
  <2>1. PICK q \in RequestId, b \in Binding :
           Usable(q, b) /\ requests' = Consumed(q) /\ UNCHANGED <<inboxVars, accepted>>
    BY <1>5 DEF UseAny
  <2>2. q \in DOMAIN requests /\ requests \in Requests /\ "consumed" \in Status
        /\ requests[q].status = "approved"
    BY <2>1 DEF Usable, BrokerTypeOK, Requests, Status
  <2>3. /\ requests'[q].status = "consumed"
        /\ \A r \in DOMAIN requests : r # q => requests'[r] = requests[r]
    BY <2>1, <2>2, StatusSetType DEF Consumed
  <2> QED
    BY <2>2, <2>3
<1> QED
  BY <1>1, <1>2, <1>3, <1>4, <1>5
     DEF BrokerNext, InboxNext, Handle, brokerVars, WriteDecision, Open, Claim, SkipFile,
         SetAside, RecordResult, MoveFile, Disturb

\* A decision is applied once and stands, for every number of requests, files
\* and consumers (resolve, consume).
THEOREM DecidedOnce == BrokerSpec => DecisionsStand
<1>1. BrokerTypeOK /\ [BrokerNext]_brokerVars =>
        [\A r \in DOMAIN requests :
           requests[r].status # "pending" =>
             \/ requests'[r].status = requests[r].status
             \/ requests[r].status = "approved" /\ requests'[r].status = "consumed"]_requests
  BY StepKeepsDecisions
<1> QED
  BY <1>1, BrokerTypeCorrect, PTL DEF BrokerSpec, DecisionsStand

(****************************** True answers *******************************)

Applied(f) == \E a \in accepted : a.file = f

\* What holds of the files in between.  A claimed file is still in the inbox;
\* its consumer knows what the broker did with it; and one that was applied
\* and is still there has a consumer that will say so.
ClaimsTrue ==
  \A c \in Consumers :
    LET f == claims[c].file IN
    claims[c].at \in Claimed =>
      /\ inbox[f] # Gone
      /\ claims[c].at = "recorded" => results[f] # "none"
      /\ f \notin disturbed =>
           /\ claims[c].at = "holding" => ~Applied(f)
           /\ claims[c].at # "holding" => (claims[c].ok <=> Applied(f))
           /\ claims[c].at = "recorded" => (results[f] = "applied" <=> claims[c].ok)

AppliedAtWork ==
  \A f \in Files :
    Applied(f) /\ inbox[f] # Gone /\ f \notin disturbed =>
      \E c \in Consumers : claims[c].file = f /\ claims[c].at \in Claimed

UntouchedUnapplied ==
  \A f \in Files : inbox[f] = Gone /\ results[f] = "none" => ~Applied(f)

AnswersInv == ClaimsTrue /\ AppliedAtWork /\ UntouchedUnapplied /\ AnswersAreTrue

\* A step that leaves files, results and what was accepted alone keeps the
\* answers true when no claim changes.
LEMMA ElsewhereKeepsAnswers ==
  ASSUME AnswersInv, UNCHANGED <<inboxVars, accepted>>
  PROVE  AnswersInv'
BY DEF AnswersInv, ClaimsTrue, AppliedAtWork, UntouchedUnapplied, AnswersAreTrue, Applied,
       inboxVars

\* Opening a file, or letting go of one that was not claimed, is no claim.
LEMMA UnclaimedKeepsAnswers ==
  ASSUME BrokerTypeOK, AnswersInv, NEW c \in Consumers, NEW new,
         claims[c].at \notin Claimed, new.at \notin Claimed,
         claims' = [claims EXCEPT ![c] = new],
         UNCHANGED <<inbox, results, accepted, disturbed>>
  PROVE  AnswersInv'
<1>1. /\ claims'[c].at \notin Claimed
      /\ \A e \in Consumers \ {c} : claims'[e] = claims[e]
  BY DEF BrokerTypeOK
<1>2. ClaimsTrue'
  BY <1>1 DEF AnswersInv, ClaimsTrue, Applied, Claimed
<1>3. AppliedAtWork'
  BY <1>1 DEF AnswersInv, AppliedAtWork, Applied
<1> QED
  BY <1>2, <1>3 DEF AnswersInv, UntouchedUnapplied, AnswersAreTrue, Applied

\* Every step keeps the answers true.
LEMMA StepKeepsAnswers ==
  ASSUME BrokerTypeOK, AnswersInv, [BrokerNext]_brokerVars
  PROVE  AnswersInv'
<1>1. CASE UNCHANGED brokerVars
  BY <1>1, ElsewhereKeepsAnswers DEF brokerVars, inboxVars
<1>2. ASSUME NEW r \in RequestId, Lapse(r)
      PROVE  AnswersInv'
  BY <1>2, ElsewhereKeepsAnswers DEF Lapse
<1>3. CASE RequestAny
  BY <1>3, ElsewhereKeepsAnswers DEF RequestAny
<1>4. CASE UseAny
  BY <1>4, ElsewhereKeepsAnswers DEF UseAny
<1>5. ASSUME NEW f \in Files, NEW d \in Decision \cup {Unreadable}, WriteDecision(f, d)
      PROVE  AnswersInv'
  <2>1. ~Applied(f) /\ inbox[f] = Gone
    BY <1>5 DEF WriteDecision, AnswersInv, UntouchedUnapplied
  <2>2. \A g \in Files : g # f => inbox'[g] = inbox[g]
    BY <1>5 DEF WriteDecision, BrokerTypeOK
  <2>3. \A e \in Consumers : claims[e].at \in Claimed => claims[e].file \in Files \ {f}
    BY <2>1 DEF AnswersInv, ClaimsTrue, BrokerTypeOK, ClaimRecord, Free, Claimed
  <2>4. ClaimsTrue'
    BY <1>5, <2>2, <2>3 DEF WriteDecision, AnswersInv, ClaimsTrue, Applied
  <2>5. AppliedAtWork'
    BY <1>5, <2>1, <2>2 DEF WriteDecision, AnswersInv, AppliedAtWork, Applied
  <2>6. UntouchedUnapplied'
    BY <1>5, <2>1, <2>2 DEF WriteDecision, AnswersInv, UntouchedUnapplied, Applied
  <2>7. AnswersAreTrue'
    BY <1>5, <2>2 DEF WriteDecision, AnswersInv, AnswersAreTrue, Applied
  <2> QED
    BY <2>4, <2>5, <2>6, <2>7 DEF AnswersInv
<1>6. ASSUME NEW c \in Consumers, NEW f \in Files, Open(c, f)
      PROVE  AnswersInv'
  BY <1>6, UnclaimedKeepsAnswers DEF Open, Claimed
<1>7. ASSUME NEW c \in Consumers, SkipFile(c)
      PROVE  AnswersInv'
  BY <1>7, UnclaimedKeepsAnswers DEF SkipFile, Claimed, Free
<1>8. ASSUME NEW c \in Consumers, Claim(c)
      PROVE  AnswersInv'
  <2> DEFINE f == claims[c].file
             held == [claims[c] EXCEPT !.at = "holding"]
  <2>1. CASE inbox[f] = Gone
    <3>1. claims' = [claims EXCEPT ![c] = Free] /\ UNCHANGED <<inbox, results, accepted, disturbed>>
      BY <1>8, <2>1 DEF Claim
    <3> QED
      BY <1>8, <3>1, UnclaimedKeepsAnswers DEF Claim, Claimed, Free
  <2>2. CASE inbox[f] # Gone
    <3>1. claims[c] \in ClaimRecord \ {Free} /\ claims[c].at = "opened"
      BY <1>8 DEF Claim, BrokerTypeOK, Free
    <3>2. held.file = f /\ held.at = "holding" /\ f \in Files
      BY <3>1 DEF ClaimRecord
    <3>3. claims' = [claims EXCEPT ![c] = held]
      BY <1>8, <2>2 DEF Claim
    <3> HIDE DEF held
    <3>4. claims'[c] = held /\ \A e \in Consumers \ {c} : claims'[e] = claims[e]
      BY <3>3 DEF BrokerTypeOK
    <3>5. f \notin disturbed => ~Applied(f)
      BY <1>8, <2>2, <3>1, <3>2 DEF Claim, ClaimedByAnother, AnswersInv, AppliedAtWork, Claimed
    <3>6. ClaimsTrue'
      BY <1>8, <2>2, <3>2, <3>4, <3>5 DEF Claim, AnswersInv, ClaimsTrue, Applied
    <3>7. AppliedAtWork'
      BY <1>8, <3>1, <3>4 DEF Claim, AnswersInv, AppliedAtWork, Applied, Claimed
    <3> QED
      BY <1>8, <3>6, <3>7 DEF Claim, AnswersInv, UntouchedUnapplied, AnswersAreTrue, Applied
  <2> QED
    BY <2>1, <2>2
<1>9. ASSUME NEW c \in Consumers, SetAside(c)
      PROVE  AnswersInv'
  <2>1. claims[c] \in ClaimRecord \ {Free} /\ claims[c].at = "holding"
    BY <1>9 DEF SetAside, BrokerTypeOK, Free
  <2>2. /\ claims'[c].at = "resolved" /\ claims'[c].file = claims[c].file
        /\ \A e \in Consumers \ {c} : claims'[e] = claims[e]
    BY <1>9, <2>1 DEF SetAside, BrokerTypeOK, ClaimRecord
  <2>3. ClaimsTrue'
    BY <1>9, <2>1, <2>2 DEF SetAside, AnswersInv, ClaimsTrue, Applied, Claimed
  <2>4. AppliedAtWork'
    BY <1>9, <2>1, <2>2 DEF SetAside, AnswersInv, AppliedAtWork, Applied, Claimed
  <2> QED
    BY <1>9, <2>3, <2>4 DEF SetAside, AnswersInv, UntouchedUnapplied, AnswersAreTrue, Applied
<1>10. ASSUME NEW c \in Consumers, ResolveFile(c)
       PROVE  AnswersInv'
  <2> DEFINE f == claims[c].file
             ok == Acceptable(claims[c].decision)
             next == [claims[c] EXCEPT !.at = "resolved", !.ok = ok]
  <2>1. claims[c] \in ClaimRecord \ {Free} /\ claims[c].at = "holding"
    BY <1>10 DEF ResolveFile, BrokerTypeOK, Free
  <2>2. f \in Files /\ inbox[f] # Gone /\ (f \notin disturbed => ~Applied(f))
    BY <2>1 DEF AnswersInv, ClaimsTrue, Claimed, ClaimRecord
  <2>3. ok \in BOOLEAN
    BY DEF Acceptable
  <2>4. next.at = "resolved" /\ next.file = f /\ next.ok = ok
    BY <2>1, <2>3 DEF ClaimRecord
  <2>5. claims' = [claims EXCEPT ![c] = next]
    BY <1>10, Zenon DEF ResolveFile
  <2>6. \A g \in Files : Applied(g)' <=> Applied(g) \/ (g = f /\ ok)
    <3>1. accepted' = accepted \cup AcceptedNow(f, claims[c].decision)
      BY <1>10, Zenon DEF ResolveFile
    <3>2. CASE ok
      <4> DEFINE answer == [file |-> f, decision |-> claims[c].decision]
      <4>1. accepted' = accepted \cup {answer} /\ answer.file = f
        BY <3>1, <3>2, Zenon DEF AcceptedNow
      <4> HIDE DEF answer, ok
      <4> QED
        BY <3>2, <4>1 DEF Applied
    <3>3. CASE ~ok
      BY <3>1, <3>3 DEF Applied, AcceptedNow
    <3> QED
      BY <3>2, <3>3
  <2>7. UNCHANGED <<inbox, results, disturbed>>
    BY <1>10 DEF ResolveFile
  <2>8. \A e \in Consumers \ {c} :
          claims[e].at \in Claimed => claims[e].file \in Files /\ claims[e].file # f
    BY <2>1 DEF BrokerTypeOK, OneClaim, Claimed, ClaimRecord, Free
  <2> HIDE DEF next, ok, Applied
  <2>9. claims'[c] = next /\ \A e \in Consumers \ {c} : claims'[e] = claims[e]
    BY <2>5 DEF BrokerTypeOK
  <2>10. ClaimsTrue'
    BY <2>2, <2>4, <2>6, <2>7, <2>8, <2>9 DEF AnswersInv, ClaimsTrue
  <2>11. AppliedAtWork'
    BY <2>1, <2>2, <2>4, <2>6, <2>7, <2>9 DEF AnswersInv, AppliedAtWork, Claimed
  <2>12. UntouchedUnapplied'
    BY <2>2, <2>6, <2>7 DEF AnswersInv, UntouchedUnapplied
  <2>13. AnswersAreTrue'
    BY <2>2, <2>6, <2>7 DEF AnswersInv, AnswersAreTrue, Applied
  <2> QED
    BY <2>10, <2>11, <2>12, <2>13 DEF AnswersInv
<1>11. ASSUME NEW c \in Consumers, RecordResult(c)
       PROVE  AnswersInv'
  <2> DEFINE f == claims[c].file
  <2>1. claims[c] \in ClaimRecord \ {Free} /\ claims[c].at = "resolved"
    BY <1>11 DEF RecordResult, BrokerTypeOK, Free
  <2>2. f \in Files /\ inbox[f] # Gone /\ (f \notin disturbed => (claims[c].ok <=> Applied(f)))
    BY <2>1 DEF AnswersInv, ClaimsTrue, Claimed, ClaimRecord
  <2>3. /\ claims'[c].at = "recorded" /\ claims'[c].file = f /\ claims'[c].ok = claims[c].ok
        /\ \A e \in Consumers \ {c} : claims'[e] = claims[e]
    BY <1>11, <2>1 DEF RecordResult, BrokerTypeOK, ClaimRecord
  <2>4. /\ results'[f] = IF claims[c].ok THEN "applied" ELSE "refused"
        /\ \A g \in Files : g # f => results'[g] = results[g]
    BY <1>11, <2>2 DEF RecordResult, BrokerTypeOK
  <2>5. UNCHANGED <<inbox, accepted, disturbed>>
    BY <1>11 DEF RecordResult
  <2>6. \A e \in Consumers \ {c} :
          claims[e].at \in Claimed => claims[e].file \in Files /\ claims[e].file # f
    BY <2>1 DEF BrokerTypeOK, OneClaim, Claimed, ClaimRecord, Free
  <2>7. ClaimsTrue'
    BY <2>2, <2>3, <2>4, <2>5, <2>6 DEF AnswersInv, ClaimsTrue, Applied
  <2>8. AppliedAtWork'
    BY <2>1, <2>3, <2>5 DEF AnswersInv, AppliedAtWork, Applied, Claimed
  <2>9. UntouchedUnapplied' /\ AnswersAreTrue'
    BY <2>2, <2>4, <2>5 DEF AnswersInv, UntouchedUnapplied, AnswersAreTrue, Applied
  <2> QED
    BY <2>7, <2>8, <2>9 DEF AnswersInv
<1>12. ASSUME NEW c \in Consumers, MoveFile(c)
       PROVE  AnswersInv'
  <2> DEFINE f == claims[c].file
  <2>1. claims[c] \in ClaimRecord \ {Free} /\ claims[c].at = "recorded"
    BY <1>12 DEF MoveFile, BrokerTypeOK, Free
  <2>2. /\ f \in Files /\ results[f] # "none"
        /\ f \notin disturbed => (results[f] = "applied" <=> Applied(f))
    BY <2>1 DEF AnswersInv, ClaimsTrue, Claimed, ClaimRecord
  <2>3. /\ claims'[c] = Free
        /\ \A e \in Consumers \ {c} : claims'[e] = claims[e]
    BY <1>12 DEF MoveFile, BrokerTypeOK
  <2>4. inbox'[f] = Gone /\ \A g \in Files : g # f => inbox'[g] = inbox[g]
    BY <1>12, <2>2 DEF MoveFile, BrokerTypeOK
  <2>5. UNCHANGED <<results, accepted, disturbed>>
    BY <1>12 DEF MoveFile
  <2>6. \A e \in Consumers \ {c} :
          claims[e].at \in Claimed => claims[e].file \in Files /\ claims[e].file # f
    BY <2>1 DEF BrokerTypeOK, OneClaim, Claimed, ClaimRecord, Free
  <2>7. ClaimsTrue'
    BY <2>3, <2>4, <2>5, <2>6 DEF AnswersInv, ClaimsTrue, Applied, Free, Claimed
  <2>8. AppliedAtWork'
    BY <2>3, <2>4, <2>5 DEF AnswersInv, AppliedAtWork, Applied
  <2>9. UntouchedUnapplied' /\ AnswersAreTrue'
    BY <2>2, <2>4, <2>5 DEF AnswersInv, UntouchedUnapplied, AnswersAreTrue, Applied
  <2> QED
    BY <2>7, <2>8, <2>9 DEF AnswersInv
<1>13. ASSUME NEW c \in Consumers, Disturb(c)
       PROVE  AnswersInv'
  <2>1. /\ claims'[c] = Free
        /\ \A e \in Consumers \ {c} : claims'[e] = claims[e]
    BY <1>13 DEF Disturb, BrokerTypeOK
  <2>2. disturbed' = disturbed \cup {claims[c].file} /\ UNCHANGED <<inbox, results, accepted>>
    BY <1>13 DEF Disturb
  <2>3. ClaimsTrue'
    BY <2>1, <2>2 DEF AnswersInv, ClaimsTrue, Applied, Free, Claimed
  <2>4. AppliedAtWork'
    BY <2>1, <2>2 DEF AnswersInv, AppliedAtWork, Applied
  <2> QED
    BY <2>2, <2>3, <2>4 DEF AnswersInv, UntouchedUnapplied, AnswersAreTrue, Applied
<1> QED
  BY <1>1, <1>2, <1>3, <1>4, <1>5, <1>6, <1>7, <1>8, <1>9, <1>10, <1>11, <1>12, <1>13
     DEF BrokerNext, InboxNext, Handle

\* The answer beside a file in processed/ says what the broker did with it,
\* for every number of consumers, files and requests (process_one, _record).
THEOREM AnswersTrue == BrokerSpec => []AnswersAreTrue
<1>1. BrokerInit => AnswersInv
  BY DEF BrokerInit, AnswersInv, ClaimsTrue, AppliedAtWork, UntouchedUnapplied, AnswersAreTrue,
         Applied, Claimed, Free
<1>2. BrokerTypeOK /\ AnswersInv /\ [BrokerNext]_brokerVars => AnswersInv'
  BY StepKeepsAnswers
<1>3. AnswersInv => AnswersAreTrue
  BY DEF AnswersInv
<1> QED
  BY <1>1, <1>2, <1>3, BrokerTypeCorrect, PTL DEF BrokerSpec

USE UnitAssumption, QueueAssumption

(*************************** The invariant *********************************)

\* The commits whose merge was approved, the variable of ApprovedTarget.
Approved == {a.decision.for : a \in {x \in accepted : x.decision.say = "approved"}}

Commit(j) == [unit |-> j.unit, head |-> j.head]

Landed(u) == \E i \in DOMAIN target : target[i].unit = u

\* A request the broker calls approved, or used, was approved by a decision.
ApprovalsBacked ==
  \A r \in DOMAIN requests :
    requests[r].status \in {"approved", "consumed"} => requests[r].for \in Approved

\* Item numbers and used approvals are requests of the broker's file.
QueueKnown ==
  /\ \A i \in DOMAIN items : items[i].rid \in DOMAIN requests
  /\ used \subseteq DOMAIN requests

\* Every session at work knows its unit, and its commit where it matters.
JobWellFormed(j) ==
  /\ j.at # "idle" => j.unit \in Units
  /\ j.at \in {"request", "enqueue", "consume", "save", "merge", "forward", "ff"} =>
       j.head \in 1..MaxHead
  /\ j.at \in {"finish", "report"} => j.status \in Outcome

\* Between the broker's file and the queue's: the approval is used and it was
\* for this commit.
SavesPaid(j) ==
  j.at = "save" =>
    /\ j.rid \in DOMAIN requests
    /\ requests[j.rid].status = "consumed"
    /\ requests[j.rid].for = Commit(j)

\* Between the queue's file and the target: the item is still there and its
\* commit is an approved one; an outcome "merged" is true.
MergesApproved(j) ==
  /\ j.at \in {"merge", "forward", "ff"} => Commit(j) \in Approved
  /\ j.at \in {"merge", "forward", "ff", "finish"} => items # << >>
  /\ j.at \in {"finish", "report"} /\ j.status = "merged" => Landed(j.unit)

JobsInv ==
  \A s \in Sessions :
    JobWellFormed(job[s]) /\ SavesPaid(job[s]) /\ MergesApproved(job[s])

MergeInv ==
  /\ MergeTypeOK
  /\ ApprovalsBacked
  /\ QueueKnown
  /\ QueueEntriesPaid
  /\ MergedUnitLanded
  /\ JobsInv

(******************************* Approvals *********************************)

\* Requests and approvals are only added to, a request keeps what it is for,
\* and a used approval stays used.
PromisesKept ==
  /\ DOMAIN requests \subseteq DOMAIN requests'
  /\ \A r \in DOMAIN requests :
       /\ requests'[r].for = requests[r].for
       /\ requests[r].status = "consumed" => requests'[r].status = "consumed"
  /\ Approved \subseteq Approved'

\* What a step that leaves the broker alone does to the approvals.
LEMMA BrokerUntouched ==
  ASSUME ApprovalsBacked, UNCHANGED <<requests, accepted>>
  PROVE  ApprovalsBacked' /\ PromisesKept /\ Approved' = Approved
BY DEF ApprovalsBacked, PromisesKept, Approved

\* Who approved what after a decision was accepted or refused (resolve).
LEMMA ApprovedAfter ==
  ASSUME NEW d \in Decision, NEW f, accepted' = accepted \cup AcceptedNow(f, d)
  PROVE  /\ Approved \subseteq Approved'
         /\ Acceptable(d) /\ d.say = "approved" => Approved' = Approved \cup {d.for}
         /\ ~(Acceptable(d) /\ d.say = "approved") => Approved' = Approved
<1>1. CASE ~Acceptable(d)
  BY <1>1 DEF AcceptedNow, Approved
<1>2. CASE Acceptable(d)
  <2> DEFINE answer == [file |-> f, decision |-> d]
  <2>1. accepted' = accepted \cup {answer}
    BY <1>2, Zenon DEF AcceptedNow
  <2>2. answer.decision = d
    OBVIOUS
  <2> HIDE DEF answer
  <2> QED
    BY <1>2, <2>1, <2>2 DEF Approved
<1> QED
  BY <1>1, <1>2

\* A decision keeps what requests are for, and backs the one it approves.
LEMMA DecisionBacked ==
  ASSUME requests \in Requests, ApprovalsBacked, NEW d \in Decision, NEW f,
         requests' = Decided(d), accepted' = accepted \cup AcceptedNow(f, d)
  PROVE  ApprovalsBacked' /\ PromisesKept
<1>1. /\ Decided(d) \in Requests
      /\ DOMAIN Decided(d) = DOMAIN requests
      /\ \A r \in DOMAIN requests :
           requests[r].status # "pending" => Decided(d)[r] = requests[r]
  BY DecidedType
<1>2. /\ Expired \in Requests /\ DOMAIN Expired = DOMAIN requests
      /\ \A r \in DOMAIN requests :
           requests[r].status # "pending" => Expired[r] = requests[r]
  BY ExpiredType
<1>3. \A r \in DOMAIN requests : requests[r] \in RequestRecord
  BY DEF Requests
<1>4. \A r \in DOMAIN requests :
        /\ Expired[r].for = requests[r].for
        /\ requests[r].status = "pending" => Expired[r].status \in {"pending", "expired"}
  BY <1>3 DEF Expired, RequestRecord
<1>5. CASE ~Acceptable(d)
  <2>1. requests' = Expired /\ Approved' = Approved /\ Approved \subseteq Approved'
    BY <1>5, ApprovedAfter DEF Decided
  <2> QED
    BY <1>2, <1>4, <2>1 DEF ApprovalsBacked, PromisesKept
<1>6. CASE Acceptable(d)
  <2> DEFINE r == d.id
             new == [Expired[r] EXCEPT !.status = d.say]
  <2>1. r \in DOMAIN requests /\ Expired[r].for = d.for /\ requests[r].status = "pending"
    BY <1>2, <1>6 DEF Acceptable
  <2>2. Expired[r] \in RequestRecord
    BY <1>2, <2>1 DEF Requests
  <2>3. new.for = d.for /\ new.status = d.say /\ d.say \in {"approved", "rejected"}
    BY <2>1, <2>2 DEF RequestRecord, Decision
  <2>4. requests' = [Expired EXCEPT ![r] = new]
    BY <1>6, Zenon DEF Decided, WithStatus
  <2> HIDE DEF new
  <2>5. requests'[r] = new /\ \A q \in DOMAIN requests \ {r} : requests'[q] = Expired[q]
    BY <1>2, <2>1, <2>4
  <2>6. Approved \subseteq Approved' /\ (d.say = "approved" => d.for \in Approved')
    BY <1>6, ApprovedAfter
  <2>7. ApprovalsBacked'
    BY <1>1, <1>2, <1>4, <2>1, <2>3, <2>5, <2>6 DEF ApprovalsBacked
  <2>8. PromisesKept
    BY <1>1, <1>2, <1>4, <2>1, <2>3, <2>5, <2>6 DEF PromisesKept
  <2> QED
    BY <2>7, <2>8
<1> QED
  BY <1>5, <1>6

\* No step of the broker or the inbox breaks a promise.
LEMMA BrokerKeepsPromises ==
  ASSUME BrokerTypeOK, ApprovalsBacked, [BrokerNext]_brokerVars
  PROVE  BrokerTypeOK' /\ ApprovalsBacked' /\ PromisesKept
<1> DEFINE Goal == ApprovalsBacked' /\ PromisesKept
<1>1. CASE UNCHANGED <<requests, accepted>>
  BY <1>1, BrokerUntouched, StepKeepsTypes
<1>2. ASSUME NEW c \in Consumers, ResolveFile(c)
      PROVE  Goal
  <2> DEFINE d == claims[c].decision
  <2>1. d \in Decision \cup {Unreadable}
    BY <1>2 DEF ResolveFile, BrokerTypeOK, ClaimRecord, Free
  <2>2. CASE d = Unreadable
    <3>1. ~Acceptable(d)
      BY <2>2 DEF Acceptable, Unreadable
    <3>2. UNCHANGED <<requests, accepted>>
      BY <1>2, <2>2, <3>1, Zenon DEF ResolveFile, AcceptedNow
    <3> QED
      BY <3>2, BrokerUntouched
  <2>3. CASE d # Unreadable
    <3>1. /\ requests' = Decided(d)
          /\ accepted' = accepted \cup AcceptedNow(claims[c].file, d)
      BY <1>2, <2>3, Zenon DEF ResolveFile
    <3>2. d \in Decision /\ requests \in Requests
      BY <2>1, <2>3 DEF BrokerTypeOK, Requests
    <3> HIDE DEF d
    <3> QED
      BY <3>1, <3>2, DecisionBacked
  <2> QED
    BY <2>2, <2>3
<1>3. ASSUME NEW r \in RequestId, Lapse(r)
      PROVE  Goal
  <2> DEFINE new == [requests[r] EXCEPT !.live = FALSE]
  <2>1. r \in DOMAIN requests /\ requests[r] \in RequestRecord
    BY <1>3 DEF Lapse, BrokerTypeOK
  <2>2. new.for = requests[r].for /\ new.status = requests[r].status
    BY <2>1 DEF RequestRecord
  <2>3. requests' = [requests EXCEPT ![r] = new] /\ accepted' = accepted
    BY <1>3, Zenon DEF Lapse
  <2> HIDE DEF new
  <2>4. Approved' = Approved
    BY <2>3 DEF Approved
  <2>5. /\ DOMAIN requests' = DOMAIN requests
        /\ \A q \in DOMAIN requests :
             requests'[q].for = requests[q].for /\ requests'[q].status = requests[q].status
    BY <2>1, <2>2, <2>3
  <2> QED
    BY <2>4, <2>5 DEF ApprovalsBacked, PromisesKept
<1>4. CASE RequestAny
  <2>1. PICK b \in Binding : Request(b) /\ accepted' = accepted
    BY <1>4 DEF RequestAny
  <2> DEFINE new == [for |-> b, status |-> "pending", live |-> TRUE]
  <2>2. requests' = Append(requests, new) /\ new.status = "pending"
    BY <2>1 DEF Request
  <2> HIDE DEF new
  <2>3. /\ DOMAIN requests' = DOMAIN requests \cup {Len(requests) + 1}
        /\ \A q \in DOMAIN requests : requests'[q] = requests[q]
        /\ requests'[Len(requests) + 1] = new
    BY <2>2 DEF BrokerTypeOK
  <2>4. Approved' = Approved
    BY <2>1 DEF Approved
  <2>5. ApprovalsBacked'
    BY <2>2, <2>3, <2>4 DEF ApprovalsBacked
  <2>6. PromisesKept
    BY <2>3, <2>4 DEF PromisesKept
  <2> QED
    BY <2>5, <2>6, StepKeepsTypes
<1>5. CASE UseAny
  <2>1. PICK r \in RequestId, b \in Binding :
          Usable(r, b) /\ requests' = Consumed(r) /\ accepted' = accepted
    BY <1>5 DEF UseAny
  <2> DEFINE new == [requests[r] EXCEPT !.status = "consumed"]
  <2>2. r \in DOMAIN requests /\ requests[r] \in RequestRecord /\ requests[r].status = "approved"
    BY <2>1 DEF Usable, BrokerTypeOK
  <2>3. new.for = requests[r].for /\ new.status = "consumed"
    BY <2>2 DEF RequestRecord
  <2>4. requests' = [requests EXCEPT ![r] = new]
    BY <2>1, Zenon DEF Consumed, WithStatus
  <2> HIDE DEF new
  <2>5. requests'[r] = new /\ DOMAIN requests' = DOMAIN requests
        /\ \A q \in DOMAIN requests \ {r} : requests'[q] = requests[q]
    BY <2>2, <2>4
  <2>6. Approved' = Approved
    BY <2>1 DEF Approved
  <2>7. ApprovalsBacked'
    BY <2>2, <2>3, <2>5, <2>6 DEF ApprovalsBacked
  <2>8. PromisesKept
    BY <2>2, <2>3, <2>5, <2>6 DEF PromisesKept
  <2> QED
    BY <2>7, <2>8, StepKeepsTypes
<1> QED
  BY <1>1, <1>2, <1>3, <1>4, <1>5, StepKeepsTypes
     DEF BrokerNext, InboxNext, Handle, brokerVars, WriteDecision, Open, Claim, SkipFile,
         SetAside, RecordResult, MoveFile, Disturb

\* An agent that decides for itself (team/review.py) promises the same.
LEMMA DirectKeepsPromises ==
  ASSUME BrokerTypeOK, ApprovalsBacked, NEW d \in Decision, ResolveDirectly(d)
  PROVE  BrokerTypeOK' /\ ApprovalsBacked' /\ PromisesKept
<1>1. /\ requests' = Decided(d)
      /\ accepted' = accepted \cup AcceptedNow(NoFile, d)
      /\ UNCHANGED <<inbox, results, claims, disturbed>>
  BY DEF ResolveDirectly, inboxVars
<1>2. requests' \in Requests /\ Len(requests') = Len(requests)
  BY <1>1, DecidedType DEF BrokerTypeOK, Requests
<1>3. AcceptedNow(NoFile, d) \subseteq [file : Files \cup {NoFile}, decision : Decision]
  BY DEF AcceptedNow
<1>4. BrokerTypeOK'
  BY <1>1, <1>2, <1>3 DEF BrokerTypeOK, OneClaim, Requests
<1>5. ApprovalsBacked' /\ PromisesKept
  BY <1>1, DecisionBacked DEF BrokerTypeOK, Requests
<1> QED
  BY <1>4, <1>5

(******************************* The jobs **********************************)

\* Going on with a job changes only where it is.
LEMMA JobGoesOn ==
  ASSUME NEW j \in Job, NEW at \in Steps, NEW k, k = [j EXCEPT !.at = at]
  PROVE  /\ k \in Job /\ k.at = at /\ k.unit = j.unit /\ k.head = j.head
         /\ k.rid = j.rid /\ k.old = j.old /\ k.status = j.status
BY DEF Job

LEMMA JobMade ==
  ASSUME NEW at \in Steps, NEW u \in Units \cup {NoUnit}, NEW h \in 0..MaxHead,
         NEW r \in 0..MaxRequests, NEW old \in Seq(Binding \cup OtherCommit),
         NEW status \in Outcome \cup {"none"}
  PROVE  [at |-> at, unit |-> u, head |-> h, rid |-> r, old |-> old, status |-> status] \in Job
BY DEF Job

LEMMA IdleJob ==
  Idle \in Job /\ Idle.at = "idle" /\ Idle.status = "none" /\ Idle.head = 0 /\ Idle.rid = 0
<1>1. << >> \in Seq(Binding \cup OtherCommit)
  BY EmptySeq
<1>2. "idle" \in Steps /\ 0 \in 0..MaxHead /\ 0 \in 0..MaxRequests
  BY DEF Steps
<1>3. Idle \in Job
  BY <1>1, <1>2, JobMade, Zenon DEF Idle
<1> QED
  BY <1>3 DEF Idle

\* What holds of every session's job.
JobOK(j) == JobWellFormed(j) /\ SavesPaid(j) /\ MergesApproved(j)

\* Leaving keeps every promise there was about the job.
LEMMA IdleOK == JobOK(Idle) /\ JobOK(Idle)'
BY DEF JobOK, JobWellFormed, SavesPaid, MergesApproved, Idle

\* A session's step with its job keeps everybody else's, if promises are kept,
\* what has landed stays, and items only go while the session has the lock.
LEMMA SessionStep ==
  ASSUME MergeTypeOK, JobsInv, PromisesKept,
         NEW s \in Sessions, NEW k \in Job, job' = [job EXCEPT ![s] = k],
         k.at \in LockedSteps => job[s].at \in LockedSteps \/ QueueFree,
         \A u \in Units : Landed(u) => Landed(u)',
         items' # << >> \/ items = << >> \/ job[s].at \in LockedSteps,
         JobOK(k)'
  PROVE  /\ job' \in [Sessions -> Job]
         /\ \A a, b \in Sessions : {job'[a].at, job'[b].at} \subseteq LockedSteps => a = b
         /\ JobsInv'
<1>1. job'[s] = k /\ \A t \in Sessions \ {s} : job'[t] = job[t]
  BY DEF MergeTypeOK
<1>2. job' \in [Sessions -> Job]
  BY DEF MergeTypeOK
<1>3. \A a, b \in Sessions : {job[a].at, job[b].at} \subseteq LockedSteps => a = b
  BY DEF MergeTypeOK
<1>4. \A a, b \in Sessions : {job'[a].at, job'[b].at} \subseteq LockedSteps => a = b
  BY <1>1, <1>3 DEF QueueFree
<1>5. ASSUME NEW t \in Sessions \ {s}
      PROVE  JobOK(job[t])'
  <2>1. job'[t] = job[t] /\ job[t] \in Job
    BY <1>1 DEF MergeTypeOK
  <2>2. JobWellFormed(job[t]) /\ SavesPaid(job[t]) /\ MergesApproved(job[t])
    BY DEF JobsInv
  <2>3. SavesPaid(job[t])'
    BY <1>1, <2>2 DEF SavesPaid, PromisesKept, Commit
  <2>4. job[t].at \in {"merge", "forward", "ff", "finish"} => items' # << >>
    BY <1>3, <2>2 DEF MergesApproved, LockedSteps
  <2>5. MergesApproved(job[t])'
    BY <2>1, <2>2, <2>4 DEF MergesApproved, PromisesKept, JobWellFormed, Commit
  <2> QED
    BY <2>1, <2>2, <2>3, <2>5 DEF JobOK, JobWellFormed
<1> QED
  BY <1>1, <1>2, <1>4, <1>5 DEF JobsInv, JobOK

\* Nobody's job is touched by a step that keeps promises, items and what has
\* landed.
LEMMA OthersStep ==
  ASSUME MergeTypeOK, JobsInv, PromisesKept, UNCHANGED <<job, items>>,
         \A u \in Units : Landed(u) => Landed(u)'
  PROVE  JobsInv'
<1> SUFFICES ASSUME NEW s \in Sessions
             PROVE  JobOK(job[s])'
  BY DEF JobsInv, JobOK
<1>1. JobWellFormed(job[s]) /\ SavesPaid(job[s]) /\ MergesApproved(job[s]) /\ job[s] \in Job
  BY DEF JobsInv, MergeTypeOK
<1>2. SavesPaid(job[s])'
  BY <1>1 DEF SavesPaid, PromisesKept, Commit
<1>3. MergesApproved(job[s])'
  BY <1>1 DEF MergesApproved, PromisesKept, JobWellFormed, Commit
<1> QED
  BY <1>1, <1>2, <1>3 DEF JobOK, JobWellFormed

(*************************** Units and the queue ***************************)

\* A transition moves one unit, along an edge of the state machine.
LEMMA TransitionType ==
  ASSUME state \in [Units -> State], NEW u \in Units, NEW to \in State, TryTransition(u, to)
  PROVE  /\ state' \in [Units -> State]
         /\ \A v \in Units : state'[v] = "merged" =>
              state[v] = "merged" \/ (v = u /\ to = "merged")
BY DEF TryTransition

\* The queue stays paid for while it and the broker only keep promises.
LEMMA QueueKept ==
  ASSUME MergeTypeOK, QueueKnown, QueueEntriesPaid, PromisesKept, UNCHANGED queueVars
  PROVE  QueueKnown' /\ QueueEntriesPaid'
BY DEF MergeTypeOK, QueueKnown, QueueEntriesPaid, PromisesKept, queueVars

\* Units stay merged in the target while nothing leaves it and nobody merges.
LEMMA MergedKept ==
  ASSUME MergedUnitLanded, \A u \in Units : Landed(u) => Landed(u)',
         \A u \in Units : state'[u] = "merged" => state[u] = "merged" \/ Landed(u)
  PROVE  MergedUnitLanded'
BY DEF MergedUnitLanded, Landed

\* Merging a commit into a branch keeps what is in it and adds the commit.
LEMMA MergedInto ==
  ASSUME target \in Seq(Binding \cup OtherCommit), NEW c \in Binding,
         target' = WithMerged(target, c)
  PROVE  /\ target' \in Seq(Binding \cup OtherCommit)
         /\ \A i \in DOMAIN target : i \in DOMAIN target' /\ target'[i] = target[i]
         /\ \E i \in DOMAIN target' : target'[i] = c
<1>1. CASE Contains(target, c)
  <2>1. target' = target
    BY <1>1 DEF WithMerged
  <2>2. DOMAIN target = 1..Len(target)
    BY LenProperties
  <2> QED
    BY <1>1, <2>1, <2>2 DEF Contains
<1>2. CASE ~Contains(target, c)
  <2>1. target' = Append(target, c)
    BY <1>2 DEF WithMerged
  <2>2. /\ Append(target, c) \in Seq(Binding \cup OtherCommit)
        /\ Len(target) \in Nat /\ DOMAIN target = 1..Len(target)
        /\ DOMAIN Append(target, c) = 1..(Len(target) + 1)
        /\ \A i \in 1..Len(target) : Append(target, c)[i] = target[i]
        /\ Append(target, c)[Len(target) + 1] = c
    OBVIOUS
  <2> QED
    BY <2>1, <2>2
<1> QED
  BY <1>1, <1>2

(****************************** Every step *********************************)

\* A session's step that only reads what is shared, or annotates a unit.
LEMMA QuietStep ==
  ASSUME MergeInv, NEW s \in Sessions, NEW k \in Job, job' = [job EXCEPT ![s] = k],
         k.at \in LockedSteps => job[s].at \in LockedSteps \/ QueueFree,
         JobOK(k), UNCHANGED <<brokerVars, tip, verified, queueVars, target>>,
         review' \in [Units -> [head : 0..MaxHead, rid : 0..MaxRequests]],
         state' \in [Units -> State],
         \A u \in Units : state'[u] = "merged" => state[u] = "merged" \/ Landed(u)
  PROVE  MergeInv'
<1>1. ApprovalsBacked' /\ PromisesKept /\ Approved' = Approved
  BY BrokerUntouched DEF MergeInv, brokerVars
<1>2. \A u \in Units : Landed(u)' <=> Landed(u)
  BY DEF Landed
<1>3. JobOK(k)'
  BY <1>1 DEF JobOK, JobWellFormed, SavesPaid, MergesApproved, Landed, brokerVars, queueVars
<1>4. items' = items
  BY DEF queueVars
<1>5. /\ job' \in [Sessions -> Job]
      /\ \A a, b \in Sessions : {job'[a].at, job'[b].at} \subseteq LockedSteps => a = b
      /\ JobsInv'
  BY <1>1, <1>2, <1>3, <1>4, SessionStep DEF MergeInv
<1>6. QueueKnown' /\ QueueEntriesPaid'
  BY <1>1, QueueKept DEF MergeInv
<1>7. MergedUnitLanded'
  BY <1>2, MergedKept DEF MergeInv
<1>8. BrokerTypeOK'
  BY DEF MergeInv, MergeTypeOK, BrokerTypeOK, OneClaim, brokerVars
<1>9. MergeTypeOK'
  BY <1>5, <1>8 DEF MergeInv, MergeTypeOK, queueVars
<1> QED
  BY <1>1, <1>5, <1>6, <1>7, <1>9 DEF MergeInv

\* The same when the units are left alone, for a session that goes on.
LEMMA GoKeeps ==
  ASSUME MergeInv, NEW s \in Sessions, NEW at \in Steps, Go(s, at),
         at \in LockedSteps => job[s].at \in LockedSteps \/ QueueFree,
         \A k \in Job : k = [job[s] EXCEPT !.at = at] => JobOK(k),
         UNCHANGED <<brokerVars, unitVars, queueVars, target>>
  PROVE  MergeInv'
<1> DEFINE k == [job[s] EXCEPT !.at = at]
<1>1. job[s] \in Job
  BY DEF MergeInv, MergeTypeOK
<1>2. k \in Job /\ k.at = at
  BY <1>1, JobGoesOn
<1>3. job' = [job EXCEPT ![s] = k]
  BY Zenon DEF Go
<1>4. JobOK(k)
  BY <1>2, Zenon
<1>5. /\ review' \in [Units -> [head : 0..MaxHead, rid : 0..MaxRequests]]
      /\ state' \in [Units -> State] /\ state' = state
      /\ UNCHANGED <<brokerVars, tip, verified, queueVars, target>>
  BY DEF MergeInv, MergeTypeOK, unitVars
<1> HIDE DEF k
<1> QED
  BY <1>2, <1>3, <1>4, <1>5, QuietStep

\* A session that leaves its job, having moved a unit or not.
LEMMA LeaveKeeps ==
  ASSUME MergeInv, NEW s \in Sessions, Leave(s),
         UNCHANGED <<brokerVars, tip, verified, queueVars, target>>,
         review' \in [Units -> [head : 0..MaxHead, rid : 0..MaxRequests]],
         state' \in [Units -> State],
         \A u \in Units : state'[u] = "merged" => state[u] = "merged" \/ Landed(u)
  PROVE  MergeInv'
BY QuietStep, IdleJob, IdleOK DEF Leave, LockedSteps

\* A session's step with the broker: units, queue and target are left alone.
LEMMA StepAlone ==
  ASSUME MergeInv, NEW s \in Sessions, NEW k \in Job, job' = [job EXCEPT ![s] = k],
         k.at \in LockedSteps => job[s].at \in LockedSteps \/ QueueFree,
         BrokerTypeOK', ApprovalsBacked', PromisesKept, JobOK(k)',
         UNCHANGED <<unitVars, queueVars, target>>
  PROVE  MergeInv'
<1>1. \A u \in Units : Landed(u)' <=> Landed(u)
  BY DEF Landed
<1>2. items' = items
  BY DEF queueVars
<1>3. /\ job' \in [Sessions -> Job]
      /\ \A a, b \in Sessions : {job'[a].at, job'[b].at} \subseteq LockedSteps => a = b
      /\ JobsInv'
  BY <1>1, <1>2, SessionStep DEF MergeInv
<1>4. QueueKnown' /\ QueueEntriesPaid'
  BY QueueKept DEF MergeInv
<1>5. MergedUnitLanded'
  BY <1>1, MergedKept DEF MergeInv, unitVars
<1>6. MergeTypeOK'
  BY <1>3 DEF MergeInv, MergeTypeOK, unitVars, queueVars
<1> QED
  BY <1>3, <1>4, <1>5, <1>6 DEF MergeInv

\* A session's steps up to the queue: review, requests, annotations.
LEMMA ReviewStepsKeep ==
  ASSUME MergeInv, NEW s \in Sessions,
         \/ \E u \in Units : BeginReview(s, u)
         \/ RequestApproval(s) \/ AnnotateReview(s) \/ Judge(s)
  PROVE  MergeInv'
<1> USE DEF MergeInv
<1>1. job[s] \in Job /\ JobOK(job[s])
  BY DEF MergeTypeOK, JobsInv, JobOK
<1>2. ASSUME NEW u \in Units, BeginReview(s, u)
      PROVE  MergeInv'
  <2>1. ASSUME NEW at \in {"request", "annotate"}, NEW h \in 0..MaxHead,
               at = "request" => h \in 1..MaxHead,
               job' = [job EXCEPT ![s] = [Idle EXCEPT !.at = at, !.unit = u, !.head = h]]
        PROVE  MergeInv'
    <3>1. PICK k : k = [Idle EXCEPT !.at = at, !.unit = u, !.head = h]
      OBVIOUS
    <3>2. k \in Job /\ k.at = at /\ k.unit = u /\ k.head = h
      BY <3>1, IdleJob DEF Job, Steps
    <3>3. JobOK(k)
      BY <2>1, <3>2 DEF JobOK, JobWellFormed, SavesPaid, MergesApproved
    <3>4. UNCHANGED <<brokerVars, tip, verified, queueVars, target, review, state>>
      BY <1>2 DEF BeginReview, unitVars
    <3> QED
      BY <2>1, <3>1, <3>2, <3>3, <3>4, QuietStep DEF LockedSteps, MergeTypeOK
  <2>2. CASE job' = [job EXCEPT ![s] = [Idle EXCEPT !.at = "annotate", !.unit = u]]
    <3>1. [Idle EXCEPT !.at = "annotate", !.unit = u]
            = [Idle EXCEPT !.at = "annotate", !.unit = u, !.head = 0]
      BY IdleJob DEF Job
    <3>2. 0 \in 0..MaxHead
      OBVIOUS
    <3> QED
      BY <2>1, <2>2, <3>1, <3>2, Zenon
  <2>3. CASE job' = [job EXCEPT ![s] =
               [Idle EXCEPT !.at = "request", !.unit = u, !.head = verified[u]]]
    <3>1. verified[u] \in 1..MaxHead /\ verified[u] \in 0..MaxHead
      BY DEF MergeTypeOK
    <3> QED
      BY <2>1, <2>3, <3>1
  <2> QED
    BY <1>2, <2>2, <2>3 DEF BeginReview
<1>3. CASE RequestApproval(s)
  <2> PICK k : k = [job[s] EXCEPT !.at = "annotate", !.rid = Len(requests) + 1]
    OBVIOUS
  <2>1. job[s].unit \in Units /\ job[s].head \in 1..MaxHead
    BY <1>1, <1>3 DEF RequestApproval, JobOK, JobWellFormed
  <2>2. Commit(job[s]) \in Binding /\ Request(Commit(job[s]))
    BY <1>3, <2>1 DEF RequestApproval, Commit, Binding
  <2>3. RequestAny
    BY <1>3, <2>2 DEF RequestApproval, RequestAny
  <2>4. BrokerTypeOK' /\ ApprovalsBacked' /\ PromisesKept
    BY <2>3, BrokerKeepsPromises DEF BrokerNext, MergeTypeOK
  <2>5. Len(requests) + 1 \in 0..MaxRequests
    BY <2>2 DEF Request, MergeTypeOK, BrokerTypeOK
  <2>6. k \in Job /\ k.at = "annotate" /\ k.unit = job[s].unit
    BY <1>1, <2>5 DEF Job, Steps
  <2>7. job' = [job EXCEPT ![s] = k]
    BY <1>3, Zenon DEF RequestApproval
  <2>8. JobOK(k)'
    BY <2>1, <2>6 DEF JobOK, JobWellFormed, SavesPaid, MergesApproved
  <2>9. UNCHANGED <<unitVars, queueVars, target>>
    BY <1>3 DEF RequestApproval
  <2> QED
    BY <2>4, <2>6, <2>7, <2>8, <2>9, StepAlone DEF LockedSteps
<1>4. CASE AnnotateReview(s)
  <2>1. UNCHANGED <<brokerVars, tip, state, verified, queueVars, target>>
    BY <1>4 DEF AnnotateReview
  <2>2. job[s].unit \in Units /\ job[s].at = "annotate"
    BY <1>1, <1>4 DEF AnnotateReview, JobOK, JobWellFormed
  <2>3. [head |-> job[s].head, rid |-> job[s].rid] \in [head : 0..MaxHead, rid : 0..MaxRequests]
    BY <1>1 DEF Job
  <2>4. review' \in [Units -> [head : 0..MaxHead, rid : 0..MaxRequests]]
    BY <1>4, <2>3 DEF AnnotateReview, MergeTypeOK
  <2>5. CASE Leave(s)
    BY <2>1, <2>4, <2>5, LeaveKeeps DEF MergeTypeOK
  <2>6. CASE Go(s, "judge")
    <3> PICK k : k = [job[s] EXCEPT !.at = "judge"]
      OBVIOUS
    <3>1. k \in Job /\ k.at = "judge" /\ k.unit = job[s].unit
      BY <1>1, JobGoesOn DEF Steps
    <3>2. job' = [job EXCEPT ![s] = k]
      BY <2>6, Zenon DEF Go
    <3>3. JobOK(k)
      BY <2>2, <3>1 DEF JobOK, JobWellFormed, SavesPaid, MergesApproved
    <3> QED
      BY <2>1, <2>4, <3>1, <3>2, <3>3, QuietStep DEF LockedSteps, MergeTypeOK
  <2> QED
    BY <1>4, <2>5, <2>6 DEF AnnotateReview
<1>5. CASE Judge(s)
  <2>1. PICK to \in {"ready", "failed"} : TryTransition(job[s].unit, to)
    BY <1>5 DEF Judge
  <2>2. job[s].unit \in Units /\ to \in State
    BY <1>1, <1>5 DEF Judge, JobOK, JobWellFormed, State
  <2>3. state' \in [Units -> State] /\ \A u \in Units : state'[u] = "merged" => state[u] = "merged"
    BY <2>1, <2>2, TransitionType DEF MergeTypeOK
  <2> QED
    BY <1>5, <2>3, LeaveKeeps DEF Judge, MergeTypeOK
<1> QED
  BY <1>2, <1>3, <1>4, <1>5

\* A session's steps from the look at the run to the unit that is queued.
LEMMA EnqueueStepsKeep ==
  ASSUME MergeInv, NEW s \in Sessions,
         \/ \E u \in Units : BeginEnqueue(s, u)
         \/ CheckEnqueue(s) \/ ConsumeApproval(s) \/ SaveItem(s) \/ MarkQueued(s)
  PROVE  MergeInv'
<1> USE DEF MergeInv
<1>1. job[s] \in Job /\ JobOK(job[s])
  BY DEF MergeTypeOK, JobsInv, JobOK
<1>2. ASSUME NEW u \in Units, BeginEnqueue(s, u)
      PROVE  MergeInv'
  <2>1. /\ verified[u] \in 1..MaxHead /\ verified[u] \in 0..MaxHead
        /\ review[u].rid \in 0..MaxRequests
    BY DEF MergeTypeOK
  <2>2. "enqueue" \in Steps
    BY DEF Steps
  <2>3. PICK k : k = [Idle EXCEPT !.at = "enqueue", !.unit = u, !.head = verified[u],
                                  !.rid = review[u].rid]
    OBVIOUS
  <2>4. k \in Job /\ k.at = "enqueue" /\ k.unit = u /\ k.head = verified[u]
    BY <2>1, <2>2, <2>3, IdleJob DEF Job
  <2>5. JobOK(k)
    BY <2>1, <2>4 DEF JobOK, JobWellFormed, SavesPaid, MergesApproved
  <2>6. /\ job' = [job EXCEPT ![s] = k]
        /\ UNCHANGED <<brokerVars, tip, verified, queueVars, target, review, state>>
    BY <1>2, <2>3 DEF BeginEnqueue, unitVars
  <2> QED
    BY <2>4, <2>5, <2>6, QuietStep DEF LockedSteps, MergeTypeOK
<1>3. CASE CheckEnqueue(s)
  <2>1. /\ QueueFree /\ job[s].at = "enqueue"
        /\ UNCHANGED <<brokerVars, unitVars, queueVars, target>>
    BY <1>3 DEF CheckEnqueue
  <2>2. CASE Leave(s)
    BY <2>1, <2>2, LeaveKeeps DEF MergeTypeOK, unitVars
  <2>3. CASE Go(s, "consume")
    <3>1. ASSUME NEW k \in Job, k = [job[s] EXCEPT !.at = "consume"]
          PROVE  JobOK(k)
      BY <1>1, <2>1, <3>1, JobGoesOn
         DEF Steps, LockedSteps, JobOK, JobWellFormed, SavesPaid, MergesApproved
    <3> QED
      BY <2>1, <2>3, <3>1, GoKeeps DEF Steps, LockedSteps
  <2> QED
    BY <1>3, <2>2, <2>3 DEF CheckEnqueue
<1>4. CASE ConsumeApproval(s)
  <2> DEFINE b == [unit |-> job[s].unit, head |-> job[s].head]
             r == job[s].rid
  <2>1. job[s].at = "consume" /\ UNCHANGED <<inboxVars, accepted, unitVars, queueVars, target>>
    BY <1>4 DEF ConsumeApproval
  <2>2. CASE ~Usable(r, b)
    <3>1. Leave(s) /\ UNCHANGED requests
      BY <1>4, <2>2, Zenon DEF ConsumeApproval
    <3> QED
      BY <2>1, <3>1, LeaveKeeps DEF MergeTypeOK, unitVars, brokerVars, inboxVars
  <2>3. CASE Usable(r, b)
    <3>1. requests' = Consumed(r) /\ Go(s, "save")
      BY <1>4, <2>3, Zenon DEF ConsumeApproval
    <3>2. job[s].unit \in Units /\ job[s].head \in 1..MaxHead
      BY <1>1, <2>1 DEF JobOK, JobWellFormed
    <3>3. b \in Binding /\ b = Commit(job[s])
      BY <3>2 DEF Binding, Commit
    <3>4. r \in RequestId /\ r \in DOMAIN requests /\ requests[r].for = b
      BY <2>3 DEF Usable, RequestId, MergeTypeOK, BrokerTypeOK
    <3>5. UNCHANGED <<inboxVars, accepted>>
      BY <2>1
    <3>6. UseAny
      BY <2>3, <3>1, <3>3, <3>4, <3>5, Zenon DEF UseAny
    <3>7. BrokerTypeOK' /\ ApprovalsBacked' /\ PromisesKept
      BY <3>6, BrokerKeepsPromises DEF BrokerNext, MergeTypeOK
    <3>8. requests \in Requests /\ "consumed" \in Status
      BY DEF MergeTypeOK, BrokerTypeOK, Requests, Status
    <3>9. requests'[r].status = "consumed" /\ r \in DOMAIN requests'
      BY <3>1, <3>4, <3>8, StatusSetType DEF Consumed
    <3>10. PICK k : k = [job[s] EXCEPT !.at = "save"]
      OBVIOUS
    <3>11. k \in Job /\ k.at = "save" /\ k.unit = job[s].unit /\ k.head = job[s].head /\ k.rid = r
      BY <1>1, <3>10, JobGoesOn DEF Steps, LockedSteps
    <3>12. job' = [job EXCEPT ![s] = k]
      BY <3>1, <3>10, Zenon DEF Go
    <3>13. Commit(k) = b
      BY <3>11 DEF Commit
    <3>14. requests'[r].for = Commit(k)
      BY <3>4, <3>7, <3>13 DEF PromisesKept
    <3>15. JobOK(k)'
      BY <3>2, <3>9, <3>11, <3>14 DEF JobOK, JobWellFormed, SavesPaid, MergesApproved, Commit
    <3> QED
      BY <2>1, <3>7, <3>11, <3>12, <3>15, StepAlone DEF LockedSteps
  <2> QED
    BY <2>2, <2>3
<1>5. CASE SaveItem(s)
  <2> DEFINE item == [unit |-> job[s].unit, head |-> job[s].head, rid |-> job[s].rid]
  <2>1. /\ job[s].at = "save" /\ items' = Append(items, item) /\ used' = used \cup {job[s].rid}
        /\ Go(s, "mark") /\ UNCHANGED <<brokerVars, unitVars, target>>
    BY <1>5 DEF SaveItem
  <2>2. /\ job[s].unit \in Units /\ job[s].head \in 1..MaxHead
        /\ job[s].rid \in DOMAIN requests /\ requests[job[s].rid].status = "consumed"
        /\ requests[job[s].rid].for = [unit |-> job[s].unit, head |-> job[s].head]
    BY <1>1, <2>1 DEF JobOK, JobWellFormed, SavesPaid, Commit
  <2>3. job[s].rid \in RequestId
    <3>1. requests \in Seq(RequestRecord) /\ Len(requests) <= MaxRequests
      BY DEF MergeTypeOK, BrokerTypeOK
    <3>2. DOMAIN requests = 1..Len(requests)
      BY <3>1
    <3> QED
      BY <2>2, <3>1, <3>2 DEF RequestId
  <2>4. /\ item \in [unit : Units, head : 1..MaxHead, rid : RequestId]
        /\ item.unit = job[s].unit /\ item.head = job[s].head /\ item.rid = job[s].rid
    BY <2>2, <2>3
  <2> HIDE DEF item
  <2>5. items \in Seq([unit : Units, head : 1..MaxHead, rid : RequestId])
    BY DEF MergeTypeOK
  <2>6. /\ items' \in Seq([unit : Units, head : 1..MaxHead, rid : RequestId])
        /\ DOMAIN items' = DOMAIN items \cup {Len(items) + 1}
        /\ \A i \in DOMAIN items : items'[i] = items[i]
        /\ items'[Len(items) + 1] = item /\ items' # << >>
    BY <2>1, <2>4, <2>5
  <2>7. ApprovalsBacked' /\ PromisesKept
    BY <2>1, BrokerUntouched DEF brokerVars
  <2>8. requests' = requests
    BY <2>1 DEF brokerVars
  <2>9. QueueKnown'
    BY <2>1, <2>2, <2>4, <2>6, <2>8 DEF QueueKnown
  <2>10. QueueEntriesPaid'
    BY <2>1, <2>2, <2>4, <2>6, <2>8 DEF QueueEntriesPaid
  <2>11. PICK k : k = [job[s] EXCEPT !.at = "mark"]
    OBVIOUS
  <2>12. k \in Job /\ k.at = "mark" /\ k.unit = job[s].unit
    BY <1>1, <2>11, JobGoesOn DEF Steps
  <2>13. job' = [job EXCEPT ![s] = k]
    BY <2>1, <2>11, Zenon DEF Go
  <2>14. JobOK(k)'
    BY <2>2, <2>12 DEF JobOK, JobWellFormed, SavesPaid, MergesApproved
  <2>15. \A u \in Units : Landed(u)' <=> Landed(u)
    BY <2>1 DEF Landed
  <2>16. /\ job' \in [Sessions -> Job]
         /\ \A a, b \in Sessions : {job'[a].at, job'[b].at} \subseteq LockedSteps => a = b
         /\ JobsInv'
    BY <2>1, <2>6, <2>7, <2>12, <2>13, <2>14, <2>15, SessionStep DEF LockedSteps
  <2>17. MergedUnitLanded'
    BY <2>1, <2>15, MergedKept DEF unitVars
  <2>18. BrokerTypeOK'
    BY <2>1 DEF MergeTypeOK, BrokerTypeOK, OneClaim, brokerVars
  <2>19. MergeTypeOK'
    BY <2>1, <2>3, <2>6, <2>16, <2>18 DEF MergeTypeOK, unitVars
  <2> QED
    BY <2>7, <2>9, <2>10, <2>16, <2>17, <2>19
<1>6. CASE MarkQueued(s)
  <2>1. job[s].unit \in Units /\ "queued_for_merge" \in State
    BY <1>1, <1>6 DEF MarkQueued, JobOK, JobWellFormed, State
  <2>2. state' \in [Units -> State] /\ \A u \in Units : state'[u] = "merged" => state[u] = "merged"
    BY <1>6, <2>1, TransitionType DEF MarkQueued, MergeTypeOK
  <2> QED
    BY <1>6, <2>2, LeaveKeeps DEF MarkQueued, MergeTypeOK
<1> QED
  BY <1>2, <1>3, <1>4, <1>5, <1>6

\* A merge that came to nothing.
LEMMA EndedKeeps ==
  ASSUME MergeInv, NEW s \in Sessions, NEW status \in Outcome \ {"merged"}, Ended(s, status),
         job[s].at \in {"merge", "forward", "ff"},
         UNCHANGED <<brokerVars, unitVars, queueVars, target>>
  PROVE  MergeInv'
<1>1. job[s].unit \in Units /\ items # << >> /\ status \in Outcome
  BY DEF MergeInv, JobsInv, JobWellFormed, MergesApproved
<1>2. PICK k : k = [Idle EXCEPT !.at = "finish", !.unit = job[s].unit, !.status = status]
  OBVIOUS
<1>3. k \in Job /\ k.at = "finish" /\ k.unit = job[s].unit /\ k.status = status
  BY <1>1, <1>2, IdleJob DEF Job, Steps, LockedSteps
<1>4. JobOK(k)
  BY <1>1, <1>3 DEF JobOK, JobWellFormed, SavesPaid, MergesApproved
<1>5. /\ job' = [job EXCEPT ![s] = k]
      /\ UNCHANGED <<brokerVars, tip, verified, queueVars, target, review, state>>
  BY <1>2, Zenon DEF Ended, unitVars
<1> QED
  BY <1>3, <1>4, <1>5, QuietStep DEF LockedSteps, MergeInv, MergeTypeOK

\* A session's steps from the first item to the unit's state, but for those
\* that move the target.
LEMMA ProcessStepsKeep ==
  ASSUME MergeInv, NEW s \in Sessions,
         \/ BeginProcess(s) \/ MergeAside(s) \/ Finish(s) \/ Report(s) \/ Crash(s)
  PROVE  MergeInv'
<1> USE DEF MergeInv
<1>1. job[s] \in Job /\ JobOK(job[s])
  BY DEF MergeTypeOK, JobsInv, JobOK
<1>2. CASE BeginProcess(s)
  <2> DEFINE item == Head(items)
  <2>1. /\ QueueFree /\ items # << >> /\ job[s] = Idle
        /\ UNCHANGED <<brokerVars, tip, verified, queueVars, target, review, state>>
    BY <1>2 DEF BeginProcess, unitVars
  <2>2. item = items[1] /\ 1 \in DOMAIN items /\ 1 \in 1..Len(items)
    BY <2>1 DEF MergeTypeOK
  <2>3. item.unit \in Units /\ item.head \in 1..MaxHead /\ item.head \in 0..MaxHead
    <3>1. items \in Seq([unit : Units, head : 1..MaxHead, rid : RequestId])
      BY DEF MergeTypeOK
    <3>2. items[1] \in [unit : Units, head : 1..MaxHead, rid : RequestId]
      BY <2>2, <3>1, ElementOfSeq
    <3> QED
      BY <2>2, <3>2
  <2>4. Commit(item) \in Approved
    <3>1. /\ item.rid \in DOMAIN requests
          /\ requests[item.rid].status = "consumed"
          /\ requests[item.rid].for = [unit |-> item.unit, head |-> item.head]
      BY <2>2 DEF QueueKnown, QueueEntriesPaid
    <3> QED
      BY <3>1 DEF ApprovalsBacked, Commit
  <2> HIDE DEF item
  <2>5. CASE tip[item.unit] = item.head
    <3>1. PICK k : k = [Idle EXCEPT !.at = "merge", !.unit = item.unit, !.head = item.head,
                                    !.old = target]
      OBVIOUS
    <3>2. target \in Seq(Binding \cup OtherCommit)
      BY DEF MergeTypeOK
    <3>3. k \in Job /\ k.at = "merge" /\ k.unit = item.unit /\ k.head = item.head
      BY <2>3, <3>1, <3>2, IdleJob DEF Job, Steps, LockedSteps
    <3>4. Commit(k) = Commit(item)
      BY <3>3 DEF Commit
    <3>5. JobOK(k)
      BY <2>1, <2>3, <2>4, <3>3, <3>4 DEF JobOK, JobWellFormed, SavesPaid, MergesApproved
    <3>6. job' = [job EXCEPT ![s] = k]
      BY <1>2, <2>5, <3>1, Zenon DEF BeginProcess, item
    <3> QED
      BY <2>1, <3>3, <3>5, <3>6, QuietStep DEF MergeTypeOK
  <2>6. CASE tip[item.unit] # item.head
    <3>1. PICK k : k = [Idle EXCEPT !.at = "finish", !.unit = item.unit, !.status = "stale"]
      OBVIOUS
    <3>2. k \in Job /\ k.at = "finish" /\ k.unit = item.unit /\ k.status = "stale"
      <4>1. "stale" \in Outcome
        BY DEF Outcome
      <4> QED
        BY <2>3, <3>1, <4>1, IdleJob DEF Job, Steps, LockedSteps
    <3>3. JobOK(k)
      BY <2>1, <2>3, <3>2 DEF JobOK, JobWellFormed, SavesPaid, MergesApproved, Outcome
    <3>4. job' = [job EXCEPT ![s] = k]
      BY <1>2, <2>6, <3>1, Zenon DEF BeginProcess, item
    <3> QED
      BY <2>1, <3>2, <3>3, <3>4, QuietStep DEF MergeTypeOK
  <2> QED
    BY <2>5, <2>6
<1>3. CASE MergeAside(s)
  <2>1. job[s].at = "merge" /\ UNCHANGED <<brokerVars, unitVars, queueVars, target>>
    BY <1>3 DEF MergeAside
  <2>2. CASE Go(s, "forward")
    <3>1. ASSUME NEW k \in Job, k = [job[s] EXCEPT !.at = "forward"]
          PROVE  JobOK(k)
      BY <1>1, <2>1, <3>1, JobGoesOn
         DEF Steps, LockedSteps, JobOK, JobWellFormed, SavesPaid, MergesApproved, Commit
    <3> QED
      BY <2>1, <2>2, <3>1, GoKeeps DEF Steps, LockedSteps
  <2>3. ASSUME NEW status \in {"conflict", "gate_failed"}, Ended(s, status)
        PROVE  MergeInv'
    BY <2>1, <2>3, EndedKeeps DEF Outcome
  <2> QED
    BY <1>3, <2>2, <2>3 DEF MergeAside
<1>4. CASE Finish(s)
  <2>1. /\ job[s].at = "finish" /\ Go(s, "report")
        /\ items' \in {items, Tail(items)}
        /\ UNCHANGED <<brokerVars, unitVars, used, target>>
    BY <1>4 DEF Finish
  <2>2. items # << >> /\ job[s].unit \in Units /\ job[s].status \in Outcome
        /\ (job[s].status = "merged" => Landed(job[s].unit))
    BY <1>1, <2>1 DEF JobOK, JobWellFormed, MergesApproved
  <2>3. /\ Tail(items) \in Seq([unit : Units, head : 1..MaxHead, rid : RequestId])
        /\ \A i \in DOMAIN Tail(items) : i + 1 \in DOMAIN items /\ Tail(items)[i] = items[i + 1]
    BY <2>2 DEF MergeTypeOK
  <2>4. /\ items' \in Seq([unit : Units, head : 1..MaxHead, rid : RequestId])
        /\ \A i \in DOMAIN items' : \E j \in DOMAIN items : items'[i] = items[j]
    BY <2>1, <2>3 DEF MergeTypeOK
  <2>5. ApprovalsBacked' /\ PromisesKept /\ requests' = requests
    BY <2>1, BrokerUntouched DEF brokerVars
  <2>6. QueueKnown'
    BY <2>1, <2>4, <2>5 DEF QueueKnown
  <2>7. QueueEntriesPaid'
    BY <2>1, <2>4, <2>5 DEF QueueEntriesPaid
  <2>8. PICK k : k = [job[s] EXCEPT !.at = "report"]
    OBVIOUS
  <2>9. k \in Job /\ k.at = "report" /\ k.unit = job[s].unit /\ k.status = job[s].status
    BY <1>1, <2>8, JobGoesOn DEF Steps
  <2>10. job' = [job EXCEPT ![s] = k]
    BY <2>1, <2>8, Zenon DEF Go
  <2>11. \A u \in Units : Landed(u)' <=> Landed(u)
    BY <2>1 DEF Landed
  <2>12. JobOK(k)'
    BY <2>2, <2>9, <2>11 DEF JobOK, JobWellFormed, SavesPaid, MergesApproved
  <2>13. /\ job' \in [Sessions -> Job]
         /\ \A a, b \in Sessions : {job'[a].at, job'[b].at} \subseteq LockedSteps => a = b
         /\ JobsInv'
    BY <2>1, <2>5, <2>9, <2>10, <2>11, <2>12, SessionStep DEF LockedSteps
  <2>14. MergedUnitLanded'
    BY <2>1, <2>11, MergedKept DEF unitVars
  <2>15. BrokerTypeOK'
    BY <2>1 DEF MergeTypeOK, BrokerTypeOK, OneClaim, brokerVars
  <2>16. MergeTypeOK'
    BY <2>1, <2>4, <2>13, <2>15 DEF MergeTypeOK, unitVars
  <2> QED
    BY <2>5, <2>6, <2>7, <2>13, <2>14, <2>16
<1>5. CASE Report(s)
  <2> DEFINE u == job[s].unit
  <2>1. /\ job[s].at = "report" /\ Leave(s)
        /\ UNCHANGED <<brokerVars, tip, verified, review, queueVars, target>>
    BY <1>5 DEF Report
  <2>2. u \in Units /\ job[s].status \in Outcome
        /\ (job[s].status = "merged" => Landed(u))
    BY <1>1, <2>1 DEF JobOK, JobWellFormed, MergesApproved
  <2>3. \/ job[s].status = "merged" /\ TryTransition(u, "merged")
        \/ TryTransition(u, "blocked") \/ TryTransition(u, "failed") \/ UNCHANGED state
    BY <1>5, <2>2 DEF Report, Outcome
  <2>4. {"merged", "blocked", "failed"} \subseteq State
    BY DEF State
  <2>5. /\ state' \in [Units -> State]
        /\ \A v \in Units : state'[v] = "merged" => state[v] = "merged" \/ Landed(v)
    <3>1. CASE job[s].status = "merged" /\ TryTransition(u, "merged")
      BY <2>2, <2>4, <3>1, TransitionType DEF MergeTypeOK
    <3>2. ASSUME NEW to \in {"blocked", "failed"}, TryTransition(u, to)
          PROVE  state' \in [Units -> State]
                 /\ \A v \in Units : state'[v] = "merged" => state[v] = "merged"
      BY <2>2, <2>4, <3>2, TransitionType DEF MergeTypeOK
    <3> QED
      BY <2>3, <3>1, <3>2 DEF MergeTypeOK
  <2> QED
    BY <2>1, <2>5, LeaveKeeps DEF MergeTypeOK
<1>6. CASE Crash(s)
  BY <1>6, LeaveKeeps DEF Crash, MergeTypeOK, unitVars
<1> QED
  BY <1>2, <1>3, <1>4, <1>5, <1>6

\* Target, item and unit after a merge that was not overtaken.
LEMMA MergeKeeps ==
  ASSUME MergeInv, NEW s \in Sessions, job[s].at \in {"forward", "ff"},
         target = job[s].old, target' = Forwarded(s), Ended(s, "merged"),
         UNCHANGED <<brokerVars, unitVars, queueVars>>
  PROVE  MergeInv'
<1> USE DEF MergeInv
<1>1. /\ job[s].unit \in Units /\ job[s].head \in 1..MaxHead /\ items # << >>
      /\ target \in Seq(Binding \cup OtherCommit)
  BY DEF MergeTypeOK, JobsInv, JobWellFormed, MergesApproved
<1> DEFINE c == [unit |-> job[s].unit, head |-> job[s].head]
<1>2. c \in Binding /\ c.unit = job[s].unit
  BY <1>1 DEF Binding
<1>3. target' = WithMerged(target, c)
  BY Zenon DEF Forwarded
<1> HIDE DEF c
<1>4. /\ target' \in Seq(Binding \cup OtherCommit)
      /\ \A i \in DOMAIN target : i \in DOMAIN target' /\ target'[i] = target[i]
      /\ \E i \in DOMAIN target' : target'[i] = c
  BY <1>1, <1>2, <1>3, MergedInto
<1>5. \A u \in Units : Landed(u) => Landed(u)'
  BY <1>4 DEF Landed
<1>6. PICK k : k = [Idle EXCEPT !.at = "finish", !.unit = job[s].unit, !.status = "merged"]
  OBVIOUS
<1>7. k \in Job /\ k.at = "finish" /\ k.unit = job[s].unit /\ k.status = "merged"
  <2>1. "merged" \in Outcome
    BY DEF Outcome
  <2> QED
    BY <1>1, <1>6, <2>1, IdleJob DEF Job, Steps, LockedSteps
<1>8. job' = [job EXCEPT ![s] = k]
  BY <1>6, Zenon DEF Ended
<1>9. ApprovalsBacked' /\ PromisesKept /\ Approved' = Approved /\ items' = items
  BY BrokerUntouched DEF brokerVars, queueVars
<1>10. \E i \in DOMAIN target' : target'[i].unit = k.unit
  BY <1>2, <1>4, <1>7
<1>11. JobOK(k)'
  BY <1>1, <1>7, <1>9, <1>10
     DEF JobOK, JobWellFormed, SavesPaid, MergesApproved, Outcome, Landed
<1>12. /\ job' \in [Sessions -> Job]
       /\ \A a, b \in Sessions : {job'[a].at, job'[b].at} \subseteq LockedSteps => a = b
       /\ JobsInv'
  BY <1>1, <1>5, <1>7, <1>8, <1>9, <1>11, SessionStep DEF LockedSteps
<1>13. QueueKnown' /\ QueueEntriesPaid'
  BY <1>9, QueueKept
<1>14. MergedUnitLanded'
  BY <1>5, MergedKept DEF unitVars
<1>15. BrokerTypeOK'
  BY DEF MergeTypeOK, BrokerTypeOK, OneClaim, brokerVars
<1>16. MergeTypeOK'
  BY <1>4, <1>12, <1>15 DEF MergeTypeOK, unitVars, queueVars
<1> QED
  BY <1>9, <1>12, <1>13, <1>14, <1>16

\* The two ways of moving the target.
LEMMA ForwardStepsKeep ==
  ASSUME MergeInv, NEW s \in Sessions, Forward(s) \/ FastForward(s)
  PROVE  MergeInv'
<1>1. job[s] \in Job /\ JobOK(job[s])
  BY DEF MergeInv, MergeTypeOK, JobsInv, JobOK
<1>2. job[s].at \in {"forward", "ff"} /\ UNCHANGED <<brokerVars, unitVars, queueVars>>
  BY DEF Forward, FastForward
<1>3. CASE Ended(s, "target_dirty") /\ UNCHANGED target
  BY <1>2, <1>3, EndedKeeps DEF Outcome
<1>4. CASE Ended(s, "stale") /\ UNCHANGED target
  BY <1>2, <1>4, EndedKeeps DEF Outcome
<1>5. CASE Go(s, "ff") /\ UNCHANGED target
  <2>1. ASSUME NEW k \in Job, k = [job[s] EXCEPT !.at = "ff"]
        PROVE  JobOK(k)
    BY <1>1, <1>2, <2>1, JobGoesOn
       DEF Steps, LockedSteps, JobOK, JobWellFormed, SavesPaid, MergesApproved, Commit
  <2> QED
    BY <1>2, <1>5, <2>1, GoKeeps DEF Steps, LockedSteps
<1>6. CASE target = job[s].old /\ target' = Forwarded(s) /\ Ended(s, "merged")
  BY <1>2, <1>6, MergeKeeps
<1>7. CASE UNCHANGED target /\ Leave(s)
  BY <1>2, <1>7, LeaveKeeps DEF MergeInv, MergeTypeOK, unitVars
<1> QED
  BY <1>3, <1>4, <1>5, <1>6, <1>7 DEF Forward, FastForward

\* A step of somebody else that leaves the queue, the jobs and the target alone.
LEMMA ElsewhereKeeps ==
  ASSUME MergeInv, BrokerTypeOK', ApprovalsBacked', PromisesKept,
         UNCHANGED <<queueVars, target, job>>,
         tip' \in [Units -> 1..MaxHead], verified' \in [Units -> 1..MaxHead],
         review' = review, state' \in [Units -> State],
         \A u \in Units : state'[u] = "merged" => state[u] = "merged"
  PROVE  MergeInv'
<1> USE DEF MergeInv
<1>1. (\A u \in Units : Landed(u)' <=> Landed(u)) /\ UNCHANGED <<job, items>>
  BY DEF Landed, queueVars
<1>2. JobsInv'
  BY <1>1, OthersStep
<1>3. QueueKnown' /\ QueueEntriesPaid'
  BY QueueKept
<1>4. MergedUnitLanded'
  BY <1>1, MergedKept
<1>5. MergeTypeOK'
  BY DEF MergeTypeOK, queueVars
<1> QED
  BY <1>2, <1>3, <1>4, <1>5

\* Others commit to the target.
LEMMA TargetMovesKeeps ==
  ASSUME MergeInv, TargetMoves
  PROVE  MergeInv' /\ \E c \in OtherCommit : target' = Append(target, c)
<1> USE DEF MergeInv
<1> DEFINE others == {i \in DOMAIN target : target[i].unit = NoUnit}
           moves == Cardinality(others)
           c == [unit |-> NoUnit, head |-> moves + 1]
<1>1. moves < MaxMoves /\ target' = Append(target, c)
      /\ UNCHANGED <<brokerVars, unitVars, queueVars, job, crashes>>
  BY Zenon DEF TargetMoves
<1>2. target \in Seq(Binding \cup OtherCommit) /\ Len(target) \in Nat
      /\ DOMAIN target = 1..Len(target)
  BY DEF MergeTypeOK
<1>3. moves \in Nat
  <2>1. IsFiniteSet(1..Len(target))
    BY <1>2, FS_Interval
  <2>2. IsFiniteSet(others)
    BY <1>2, <2>1, FS_Subset
  <2> QED
    BY <2>2, FS_CardinalityType
<1> HIDE DEF moves
<1>4. c \in OtherCommit
  BY <1>1, <1>3 DEF OtherCommit
<1> HIDE DEF c
<1>5. /\ target' \in Seq(Binding \cup OtherCommit)
      /\ \A i \in DOMAIN target : i \in DOMAIN target' /\ target'[i] = target[i]
  BY <1>1, <1>2, <1>4
<1>6. (\A u \in Units : Landed(u) => Landed(u)') /\ UNCHANGED <<job, items>>
  BY <1>1, <1>5 DEF Landed, queueVars
<1>7. ApprovalsBacked' /\ PromisesKept
  BY <1>1, BrokerUntouched DEF brokerVars
<1>8. JobsInv'
  BY <1>6, <1>7, OthersStep
<1>9. QueueKnown' /\ QueueEntriesPaid'
  BY <1>1, <1>7, QueueKept
<1>10. MergedUnitLanded'
  BY <1>1, <1>6, MergedKept DEF unitVars
<1>11. BrokerTypeOK'
  BY <1>1 DEF MergeTypeOK, BrokerTypeOK, OneClaim, brokerVars
<1>12. MergeTypeOK'
  BY <1>1, <1>5, <1>11 DEF MergeTypeOK, unitVars, queueVars
<1> QED
  BY <1>1, <1>4, <1>7, <1>8, <1>9, <1>10, <1>12

\* Units that are worked on, committed to or stopped elsewhere.
LEMMA UnitStepsKeep ==
  ASSUME MergeInv, NEW u \in Units, Rework(u) \/ BranchMoves(u) \/ StopUnit(u)
  PROVE  MergeInv'
<1> USE DEF MergeInv
<1>1. UNCHANGED <<brokerVars, queueVars, target, job>> /\ review' = review
  BY DEF Rework, BranchMoves, StopUnit
<1>2. BrokerTypeOK' /\ ApprovalsBacked' /\ PromisesKept
  <2>1. BrokerTypeOK'
    BY <1>1 DEF MergeTypeOK, BrokerTypeOK, OneClaim, brokerVars
  <2>2. ApprovalsBacked' /\ PromisesKept
    BY <1>1, BrokerUntouched DEF brokerVars
  <2> QED
    BY <2>1, <2>2
<1>3. /\ tip' \in [Units -> 1..MaxHead] /\ verified' \in [Units -> 1..MaxHead]
      /\ state' \in [Units -> State]
      /\ \A v \in Units : state'[v] = "merged" => state[v] = "merged"
  <2>1. CASE Rework(u)
    BY <2>1 DEF Rework, MergeTypeOK, State
  <2>2. CASE BranchMoves(u)
    BY <2>2 DEF BranchMoves, MergeTypeOK
  <2>3. CASE StopUnit(u)
    <3>1. PICK to \in {"cancelled", "failed", "needs_user"} : TryTransition(u, to)
      BY <2>3 DEF StopUnit
    <3>2. to \in State
      BY DEF State
    <3> QED
      BY <2>3, <3>1, <3>2, TransitionType DEF StopUnit, MergeTypeOK
  <2> QED
    BY <2>1, <2>2, <2>3
<1> QED
  BY <1>1, <1>2, <1>3, ElsewhereKeeps

\* The inbox, and agents that decide for themselves.
LEMMA DecisionStepsKeep ==
  ASSUME MergeInv,
         \/ InboxNext /\ UNCHANGED <<unitVars, queueVars, target, job>>
         \/ \E d \in Decision : ResolveDirectly(d)
  PROVE  MergeInv'
<1> USE DEF MergeInv
<1>1. BrokerTypeOK' /\ ApprovalsBacked' /\ PromisesKept
  <2>1. CASE InboxNext
    BY <2>1, BrokerKeepsPromises DEF BrokerNext, MergeTypeOK
  <2>2. ASSUME NEW d \in Decision, ResolveDirectly(d)
        PROVE  BrokerTypeOK' /\ ApprovalsBacked' /\ PromisesKept
    BY <2>2, DirectKeepsPromises DEF MergeTypeOK
  <2> QED
    BY <2>1, <2>2
<1>2. UNCHANGED <<queueVars, target, job, tip, verified, review, state>>
  BY DEF ResolveDirectly, unitVars
<1> QED
  BY <1>1, <1>2, ElsewhereKeeps DEF MergeTypeOK

\* The invariant is inductive.
LEMMA MergeInductive == MergeInv /\ [Next]_vars => MergeInv'
<1> SUFFICES ASSUME MergeInv, [Next]_vars
             PROVE  MergeInv'
  OBVIOUS
<1>1. ASSUME NEW s \in Sessions, SessionNext(s)
      PROVE  MergeInv'
  BY <1>1, ReviewStepsKeep, EnqueueStepsKeep, ProcessStepsKeep, ForwardStepsKeep DEF SessionNext
<1>2. CASE InboxNext /\ UNCHANGED <<unitVars, queueVars, target, job, crashes>>
  BY <1>2, DecisionStepsKeep
<1>3. CASE \E d \in Decision : ResolveDirectly(d)
  BY <1>3, DecisionStepsKeep
<1>4. CASE \E u \in Units : Rework(u) \/ BranchMoves(u) \/ StopUnit(u)
  BY <1>4, UnitStepsKeep
<1>5. CASE TargetMoves
  BY <1>5, TargetMovesKeeps
<1>6. CASE UNCHANGED vars
  <2>1. BrokerTypeOK' /\ ApprovalsBacked' /\ PromisesKept
    BY <1>6, BrokerUntouched, StepKeepsTypes DEF vars, brokerVars, MergeInv, MergeTypeOK
  <2>2. UNCHANGED <<queueVars, target, job, tip, verified, review, state>>
    BY <1>6 DEF vars, unitVars
  <2> QED
    BY <2>1, <2>2, ElsewhereKeeps DEF MergeInv, MergeTypeOK
<1> QED
  BY <1>1, <1>2, <1>3, <1>4, <1>5, <1>6 DEF Next

LEMMA MergeInitially == Init => MergeInv
<1> SUFFICES ASSUME Init
             PROVE  MergeInv
  OBVIOUS
<1>1. BrokerTypeOK /\ requests = << >>
  BY FreeType DEF Init, BrokerInit, BrokerTypeOK, OneClaim, Claimed, Free
<1>2. job \in [Sessions -> Job] /\ \A s \in Sessions : job[s] = Idle
  BY IdleJob DEF Init
<1>3. \A a, b \in Sessions : {job[a].at, job[b].at} \subseteq LockedSteps => a = b
  BY <1>2, IdleJob DEF LockedSteps
<1>4. MergeTypeOK
  BY <1>1, <1>2, <1>3 DEF Init, MergeTypeOK, State, NoReview
<1>5. JobsInv
  BY <1>2, IdleOK DEF JobsInv, JobOK
<1>6. ApprovalsBacked /\ QueueKnown /\ QueueEntriesPaid /\ MergedUnitLanded
  BY <1>1 DEF Init, ApprovalsBacked, QueueKnown, QueueEntriesPaid, MergedUnitLanded
<1> QED
  BY <1>4, <1>5, <1>6 DEF MergeInv

LEMMA MergeInvariant == Spec => []MergeInv
BY MergeInitially, MergeInductive, PTL DEF Spec

(******************************** Theorems *********************************)

\* Jobs, queue and target stay well formed, and one session at a time is
\* between the queue's checks and its save (merge_queue/queue.py).
THEOREM MergeTypeCorrect == Spec => []MergeTypeOK
BY MergeInvariant, PTL DEF MergeInv

\* What is in the queue was paid for with an approval of this unit at this
\* head, whichever session died between the two files (enqueue, consume).
THEOREM QueuePaid == Spec => []QueueEntriesPaid
BY MergeInvariant, PTL DEF MergeInv

\* What the run calls merged is in the target branch (process_next,
\* process_merge_queue).
THEOREM MergedLanded == Spec => []MergedUnitLanded
BY MergeInvariant, PTL DEF MergeInv

(******************************* Refinement ********************************)

PromiseVars == <<Approved, target>>

\* A step of a session maps to a merge of an approved commit, or to none.
LEMMA MergeMaps ==
  ASSUME MergeInv, NEW s \in Sessions, job[s].at \in {"forward", "ff"},
         target = job[s].old, target' = Forwarded(s), UNCHANGED brokerVars
  PROVE  UNCHANGED PromiseVars \/ \E c \in Binding : Promise!Merge(c)
<1> DEFINE c == [unit |-> job[s].unit, head |-> job[s].head]
<1>1. job[s].unit \in Units /\ job[s].head \in 1..MaxHead /\ Commit(job[s]) \in Approved
  BY DEF MergeInv, JobsInv, JobWellFormed, MergesApproved
<1>2. c \in Binding /\ c \in Approved
  BY <1>1 DEF Binding, Commit
<1>3. target' = WithMerged(target, c)
  BY Zenon DEF Forwarded
<1> HIDE DEF c
<1>4. Approved' = Approved
  BY DEF Approved, brokerVars
<1>5. CASE Contains(target, c)
  BY <1>3, <1>4, <1>5 DEF WithMerged, PromiseVars
<1>6. CASE ~Contains(target, c)
  <2>1. target' = Append(target, c)
    BY <1>3, <1>6 DEF WithMerged
  <2>2. ~Promise!Contains(target, c)
    BY <1>6 DEF Contains, Promise!Contains
  <2> QED
    BY <1>2, <1>4, <2>1, <2>2 DEF Promise!Merge, Approved
<1> QED
  BY <1>5, <1>6

\* A decision maps to the approval of what it approves, or to nothing.
LEMMA DecisionMaps ==
  ASSUME NEW d \in Decision, NEW f, accepted' = accepted \cup AcceptedNow(f, d),
         UNCHANGED target
  PROVE  UNCHANGED PromiseVars \/ \E c \in Binding : Promise!Approve(c)
<1>1. CASE Acceptable(d) /\ d.say = "approved"
  <2>1. Approved' = Approved \cup {d.for} /\ d.for \in Binding
    BY <1>1, ApprovedAfter DEF Decision
  <2> QED
    BY <2>1 DEF Promise!Approve, Approved
<1>2. CASE ~(Acceptable(d) /\ d.say = "approved")
  BY <1>2, ApprovedAfter DEF PromiseVars
<1> QED
  BY <1>1, <1>2

\* Every step of the queue and the broker is one the promise allows.
LEMMA StepMaps ==
  ASSUME MergeInv, [Next]_vars
  PROVE  [Promise!Next]_PromiseVars
<1>1. CASE UNCHANGED <<accepted, target>>
  BY <1>1 DEF PromiseVars, Approved
<1>2. ASSUME NEW s \in Sessions, SessionNext(s)
      PROVE  \/ UNCHANGED <<accepted, target>>
             \/ UNCHANGED PromiseVars
             \/ \E c \in Binding : Promise!Merge(c)
  <2>1. CASE Forward(s) \/ FastForward(s)
    <3>1. job[s].at \in {"forward", "ff"} /\ UNCHANGED brokerVars
          /\ (target' = target \/ (target = job[s].old /\ target' = Forwarded(s)))
      BY <2>1 DEF Forward, FastForward
    <3> QED
      BY <3>1, MergeMaps DEF brokerVars
  <2>2. CASE ~(Forward(s) \/ FastForward(s))
    BY <1>2, <2>2
       DEF SessionNext, BeginReview, BeginEnqueue, RequestApproval, AnnotateReview, Judge,
           CheckEnqueue, ConsumeApproval, SaveItem, MarkQueued, BeginProcess, MergeAside,
           Finish, Report, Crash, brokerVars
  <2> QED
    BY <2>1, <2>2
<1>3. ASSUME InboxNext, UNCHANGED target
      PROVE  \/ UNCHANGED <<accepted, target>>
             \/ UNCHANGED PromiseVars
             \/ \E c \in Binding : Promise!Approve(c)
  <2>1. ASSUME NEW c \in Consumers, ResolveFile(c)
        PROVE  UNCHANGED PromiseVars \/ \E b \in Binding : Promise!Approve(b)
    <3>1. PICK d : d = claims[c].decision
      OBVIOUS
    <3>2. accepted' = accepted \cup AcceptedNow(claims[c].file, d)
      BY <2>1, <3>1, Zenon DEF ResolveFile
    <3>3. d \in Decision \cup {Unreadable}
      BY <2>1, <3>1 DEF ResolveFile, MergeInv, MergeTypeOK, BrokerTypeOK, ClaimRecord, Free
    <3>4. CASE d = Unreadable
      <4>1. ~Acceptable(d)
        BY <3>4 DEF Acceptable, Unreadable
      <4> QED
        BY <1>3, <3>2, <4>1 DEF AcceptedNow, PromiseVars, Approved
    <3>5. CASE d \in Decision
      BY <1>3, <3>2, <3>5, DecisionMaps
    <3> QED
      BY <3>3, <3>4, <3>5
  <2>2. CASE \A c \in Consumers : ~ResolveFile(c)
    BY <1>3, <2>2
       DEF InboxNext, Handle, WriteDecision, Open, Claim, SkipFile, SetAside, RecordResult,
           MoveFile, Disturb, Lapse
  <2> QED
    BY <2>1, <2>2
<1>4. ASSUME NEW d \in Decision, ResolveDirectly(d)
      PROVE  UNCHANGED PromiseVars \/ \E c \in Binding : Promise!Approve(c)
  BY <1>4, DecisionMaps DEF ResolveDirectly
<1>5. ASSUME NEW u \in Units, Rework(u) \/ BranchMoves(u) \/ StopUnit(u)
      PROVE  UNCHANGED <<accepted, target>>
  BY <1>5 DEF Rework, BranchMoves, StopUnit, brokerVars
<1>6. ASSUME TargetMoves
      PROVE  \E c \in OtherCommit : Promise!Move(c)
  <2>1. Approved' = Approved
    BY <1>6 DEF TargetMoves, brokerVars, Approved
  <2> QED
    BY <1>6, <2>1, TargetMovesKeeps DEF Promise!Move, Approved
<1> QED
  BY <1>1, <1>2, <1>3, <1>4, <1>5, <1>6 DEF Next, vars, brokerVars, Promise!Next

\* The target branch and the approvals behave as promised: nobody else's
\* commit is lost, and a unit's commit lands once, and only when a decision
\* the broker accepted approved exactly it, whatever crashes, moves, runs out
\* or is decided twice in between.
THEOREM TargetKeepsPromise == Spec => TargetSpec
<1>1. Init => Promise!Init
  BY DEF Init, BrokerInit, Promise!Init
<1>2. MergeInv /\ [Next]_vars => [Promise!Next]_PromiseVars
  BY StepMaps
<1>3. Spec => [][Promise!Next]_PromiseVars
  BY <1>2, MergeInvariant, PTL DEF Spec
<1> QED
  BY <1>1, <1>3, PTL DEF Spec, TargetSpec, Promise!Spec, PromiseVars, Approved

=============================================================================
