--------------------------- MODULE Progress_proofs ----------------------------
(***************************************************************************)
(* What a certificate stands for, that heals are capped and that a         *)
(* supervised process is reported as it ended, for every size of a process *)
(* group, milestone, attempt budget, mix of troubles, set of health signals*)
(* and length of a hang; and that the files of a run keep its history, for *)
(* every number of processes that write them.                              *)
(***************************************************************************)
EXTENDS Certification, Drive, Supervisor, RunStore, Inductions, SequenceTheorems, TLAPS

(***************************** Certification *******************************)

LEMMA CertificationTypedInitially == CertificationInit => CertificationTypeOK
  BY MemberAssumption
  DEF CertificationInit, CertificationTypeOK, NoProgram, Trial, CANCEL_ATTEMPTS, Process, Alive,
      Result

LEMMA CertificationTyped ==
  CertificationTypeOK /\ [CertificationNext]_certificationVars => CertificationTypeOK'
<1> SUFFICES ASSUME CertificationTypeOK, [CertificationNext]_certificationVars
             PROVE  CertificationTypeOK'
  OBVIOUS
<1> USE DEF CertificationTypeOK, Process, Alive, Result
<1>1. CASE Prober
  <2>1. CASE Conclude
    BY <2>1 DEF Conclude, cancelVars
  <2>2. ASSUME NEW s \in Steps, StartStep(s) \/ JoinStep(s) \/ Abandon(s)
        PROVE  CertificationTypeOK'
    BY <2>2 DEF StartStep, JoinStep, Abandon, cancelVars
  <2> QED
    BY <1>1, <2>1, <2>2 DEF Prober
<1>2. CASE CancelRunner
  <2>1. CASE Launch
    BY <2>1 DEF Launch, Report, NoProgram
  <2>2. CASE ReadEvent \/ ReadOther \/ LookUp \/ SendTerm
    <3>1. PICK there \in BOOLEAN : there = Exited
      BY DEF Exited, Running
    <3>2. UNCHANGED <<kind, outcomes, workers, sink, inspected, certificate, group>>
          /\ line' \in {line, "none"}
      BY <2>2 DEF ReadEvent, ReadOther, LookUp, SendTerm, probeVars
    <3>3. \/ UNCHANGED trial
          \/ trial' = [trial EXCEPT !.at = "decided", !.event = TRUE, !.exited = there]
          \/ trial' = [trial EXCEPT !.at = "decided", !.exited = there]
          \/ trial' = [trial EXCEPT !.at = "terminating"]
      BY <2>2, <3>1 DEF ReadEvent, ReadOther, LookUp, SendTerm
    <3> QED
      BY <3>2, <3>3
  <2>3. CASE SendKill
    BY <2>3 DEF SendKill, Struck, probeVars
  <2>4. CASE JudgeTrial
    <3>1. sink' \subseteq {"clean", "secret"} /\ inspected' \subseteq sink'
          /\ UNCHANGED <<kind, outcomes, certificate, group, line>>
      BY <2>4 DEF JudgeTrial
    <3>2. CASE MayRetry
      <4>1. trial.attempt + 1 \in 1..CANCEL_ATTEMPTS
        BY <3>2 DEF MayRetry, CANCEL_ATTEMPTS
      <4>2. trial' = Trial(trial.attempt + 1) /\ UNCHANGED workers
        BY <2>4, <3>2 DEF JudgeTrial
      <4> QED
        BY <3>1, <4>1, <4>2 DEF Trial
    <3>3. CASE ~MayRetry
      BY <2>4, <3>1, <3>3 DEF JudgeTrial, Report
    <3> QED
      BY <3>2, <3>3
  <2> QED
    BY <1>2, <2>1, <2>2, <2>3, <2>4 DEF CancelRunner
<1>3. CASE WaitOver
  BY <1>3 DEF WaitOver, probeVars
<1>4. CASE Program
  <2>1. UNCHANGED <<kind, outcomes, workers, sink, inspected, certificate, trial>>
    BY <1>4 DEF Program, Stream, Fork, Exit, probeVars
  <2>2. group' \in [Member -> Process] /\ line' \in {"none", "event", "other"}
    BY <1>4 DEF Program, Stream, Fork, Exit
  <2> QED
    BY <2>1, <2>2
<1>5. ASSUME NEW s \in Steps, EndWork(s) PROVE CertificationTypeOK'
  <2>1. UNCHANGED <<kind, outcomes, inspected, certificate, trial, group, line>>
    BY <1>5 DEF EndWork, cancelVars
  <2>2. /\ workers' \in [Steps -> Result \cup {"off", "working"}]
        /\ sink' \subseteq {"clean", "secret"} /\ sink \subseteq sink'
    <3>1. CASE Skipped(s)
      BY <1>5, <3>1 DEF EndWork
    <3>2. CASE ~Skipped(s)
      <4>1. PICK verdict \in {"pass", "fail"}, output \in {"clean", "secret"} :
               workers' = [workers EXCEPT ![s] = verdict] /\ sink' = sink \cup {output}
        BY <1>5, <3>2 DEF EndWork
      <4> QED
        BY <4>1
    <3> QED
      BY <3>1, <3>2
  <2> QED
    BY <2>1, <2>2
<1>6. CASE UNCHANGED certificationVars
  BY <1>6 DEF certificationVars, probeVars, cancelVars
<1> QED
  BY <1>1, <1>2, <1>3, <1>4, <1>5, <1>6 DEF CertificationNext

\* Processes, threads, the check and the record stay well formed, and no program is
\* started more often than CANCEL_ATTEMPTS.
THEOREM CertificationTypeCorrect == CertificationSpec => []CertificationTypeOK
  BY CertificationTypedInitially, CertificationTyped, PTL DEF CertificationSpec

LEMMA GroupDealtWith ==
  CertificationTypeOK /\ NothingOutlives /\ [CertificationNext]_certificationVars
    => NothingOutlives'
<1> SUFFICES ASSUME CertificationTypeOK, NothingOutlives, [CertificationNext]_certificationVars
             PROVE  NothingOutlives'
  OBVIOUS
<1>1. CASE UNCHANGED <<trial, group>>
  BY <1>1 DEF NothingOutlives
<1>2. CASE Launch
  BY <1>2 DEF Launch, Report, NothingOutlives, CertificationTypeOK
<1>3. CASE ReadEvent \/ LookUp \/ SendTerm \/ WaitOver
  BY <1>3 DEF ReadEvent, LookUp, SendTerm, WaitOver, NothingOutlives, CertificationTypeOK
<1>4. CASE SendKill
  BY <1>4 DEF SendKill, Struck, NothingOutlives, CertificationTypeOK
<1>5. CASE JudgeTrial
  BY <1>5 DEF JudgeTrial, Report, Trial, NothingOutlives
<1>6. ASSUME NEW m \in Member, Exit(m) PROVE NothingOutlives'
  BY <1>6 DEF Exit, NothingOutlives, CertificationTypeOK
<1>7. ASSUME NEW m \in Member, NEW nature \in Alive, Fork(m, nature) PROVE NothingOutlives'
  <2> SUFFICES ASSUME trial.at \in {"idle", "killed", "over"}
               PROVE  nature = "foreign"
    BY <1>7 DEF Fork, NothingOutlives, CertificationTypeOK
  <2> QED
    BY <1>7 DEF Fork, Running, Alive, NothingOutlives
<1>8. CASE ReadOther \/ Prober \/ UNCHANGED certificationVars
  BY <1>1, <1>8
  DEF ReadOther, Prober, Conclude, StartStep, JoinStep, Abandon, cancelVars, certificationVars
<1>9. ASSUME NEW s \in Steps, EndWork(s) PROVE NothingOutlives'
  BY <1>1, <1>9 DEF EndWork, cancelVars
<1>10. ASSUME NEW text \in {"event", "other"}, Stream(text) PROVE NothingOutlives'
  BY <1>1, <1>10 DEF Stream
<1> QED
  BY <1>2, <1>3, <1>4, <1>5, <1>6, <1>7, <1>8, <1>9, <1>10
  DEF CertificationNext, CancelRunner, Program

\* Once the check has dealt with a program's group, nothing that may be signalled is
\* left of it, for every size of the group and however its processes behave.
THEOREM GroupsEnd == CertificationSpec => []NothingOutlives
<1>1. CertificationInit => NothingOutlives
  BY DEF CertificationInit, NothingOutlives, NoProgram
<1> QED
  BY <1>1, GroupDealtWith, CertificationTypeCorrect, PTL DEF CertificationSpec

\* A step passed or was skipped by its own thread, which has ended; a cancelled
\* program's group is gone for good; and a certificate is issued on nothing else.
ProvenInv ==
  /\ \A s \in Steps : outcomes[s] \in {"pass", "skip"} => workers[s] = outcomes[s]
  /\ kind = "coding_cli" /\ workers[Cancellation] = "pass" => GroupGone
  /\ certificate = "certified" =>
       /\ StepsPass /\ \A s \in Steps : outcomes[s] # "none"
       /\ sink = inspected /\ "secret" \notin sink

LEMMA StepFacts == Cancellation \in Steps /\ (kind = "coding_cli" => Cancellation \in Required)
<1>1. StepOrder[5] = Cancellation /\ 5 \in DOMAIN StepOrder
  BY DEF StepOrder, Cancellation
<1> QED
  BY <1>1 DEF Steps, Required

LEMMA ProvenStep ==
  CertificationTypeOK /\ ProvenInv /\ [CertificationNext]_certificationVars => ProvenInv'
<1> SUFFICES ASSUME CertificationTypeOK, ProvenInv, [CertificationNext]_certificationVars
             PROVE  ProvenInv'
  OBVIOUS
\* While a thread is at work its step has not passed, and there is no certificate.
<1>1. ASSUME NEW s \in Steps, workers[s] = "working"
      PROVE  outcomes[s] \notin {"pass", "skip"} /\ certificate # "certified"
  <2>1. outcomes[s] \notin {"pass", "skip"}
    BY <1>1 DEF ProvenInv
  <2> QED
    BY <2>1 DEF ProvenInv, StepsPass, CertificationTypeOK, Result
<1>2. CASE Prober
  <2>1. UNCHANGED <<kind, sink, trial, group, line>>
    BY <1>2 DEF Prober, Conclude, StartStep, JoinStep, Abandon, cancelVars
  <2>2. UNCHANGED GroupGone /\ UNCHANGED Required
    BY <2>1 DEF GroupGone, Running, Required
  <2>3. CASE Conclude
    <3>1. UNCHANGED <<outcomes, workers>> /\ inspected' = sink
          /\ \A s \in Steps : outcomes[s] # "none"
      BY <2>3 DEF Conclude
    <3>2. certificate' = "certified" => StepsPass /\ "secret" \notin sink
      BY <2>3 DEF Conclude
    <3>3. StepsPass => StepsPass'
      BY <2>2, <3>1 DEF StepsPass
    <3> QED
      BY <2>1, <2>2, <3>1, <3>2, <3>3 DEF ProvenInv
  <2>4. ASSUME NEW s \in Steps, StartStep(s) \/ JoinStep(s) \/ Abandon(s)
        PROVE  ProvenInv'
    <3>1. certificate = "none" /\ certificate' = "none" /\ outcomes[s] = "none"
          /\ UNCHANGED inspected
      BY <2>4 DEF StartStep, JoinStep, Abandon, Turn
    <3>2. CASE StartStep(s)
      BY <2>1, <2>2, <2>4, <3>1, <3>2, StepFacts
      DEF StartStep, ProvenInv, CertificationTypeOK, Result
    <3>3. CASE JoinStep(s) \/ Abandon(s)
      BY <2>1, <2>2, <2>4, <3>1, <3>3 DEF JoinStep, Abandon, ProvenInv, CertificationTypeOK
    <3> QED
      BY <2>4, <3>2, <3>3
  <2> QED
    BY <1>2, <2>3, <2>4 DEF Prober
<1>3. CASE CancelRunner
  <2>1. workers[Cancellation] = "working" /\ certificate # "certified"
        /\ outcomes[Cancellation] \notin {"pass", "skip"}
    BY <1>1, <1>3, StepFacts
    DEF CancelRunner, Launch, ReadEvent, ReadOther, LookUp, SendTerm, SendKill, JudgeTrial, Cancelling
  <2>2. UNCHANGED <<kind, outcomes, certificate>>
    BY <1>3 DEF CancelRunner, Launch, ReadEvent, ReadOther, LookUp, SendTerm, SendKill, JudgeTrial, probeVars
  <2>3. UNCHANGED workers
        \/ \E verdict \in {"pass", "fail"} : workers' = [workers EXCEPT ![Cancellation] = verdict]
    BY <1>3 DEF CancelRunner, Launch, ReadEvent, ReadOther, LookUp, SendTerm, SendKill, JudgeTrial,
                probeVars, Report
  <2>4. workers'[Cancellation] = "pass" => GroupGone'
    <3>1. CASE UNCHANGED workers
      BY <2>1, <3>1
    <3>2. CASE Launch
      BY <3>2, <2>1, StepFacts DEF Launch, Report, CertificationTypeOK
    <3>3. CASE JudgeTrial
      <4>1. MayRetry \/ Proven \/ workers' = [workers EXCEPT ![Cancellation] = "fail"]
        BY <3>3 DEF JudgeTrial, Report
      <4>2. UNCHANGED group /\ (MayRetry => UNCHANGED workers)
        BY <3>3 DEF JudgeTrial, MayRetry
      <4> QED
        BY <2>1, <4>1, <4>2, StepFacts
        DEF Proven, GroupGone, Running, CertificationTypeOK
    <3> QED
      BY <1>3, <3>1, <3>2, <3>3
      DEF CancelRunner, ReadEvent, ReadOther, LookUp, SendTerm, SendKill, probeVars
  <2> QED
    BY <2>1, <2>2, <2>3, <2>4, StepFacts DEF ProvenInv, CertificationTypeOK
<1>4. CASE WaitOver \/ Program \/ UNCHANGED certificationVars
  <2>1. UNCHANGED <<kind, outcomes, workers, sink, inspected, certificate>>
    BY <1>4 DEF WaitOver, Program, Stream, Fork, Exit, probeVars, certificationVars
  <2>2. GroupGone => GroupGone'
    <3>1. ASSUME GroupGone PROVE UNCHANGED group
      BY <1>4, <3>1
      DEF GroupGone, WaitOver, Program, Stream, Fork, Exit, certificationVars, cancelVars
    <3> QED
      BY <3>1 DEF GroupGone, Running
  <2>3. StepsPass => StepsPass'
    BY <2>1 DEF StepsPass, Required
  <2> QED
    BY <2>1, <2>2, <2>3 DEF ProvenInv
<1>5. ASSUME NEW s \in Steps, EndWork(s) PROVE ProvenInv'
  <2>1. UNCHANGED <<kind, outcomes, inspected, certificate, group>>
    BY <1>5 DEF EndWork, cancelVars
  <2>2. /\ workers[s] = "working" /\ outcomes[s] \notin {"pass", "skip"} /\ certificate # "certified"
        /\ \E verdict \in Result : workers' = [workers EXCEPT ![s] = verdict]
                               /\ (s = Cancellation => verdict = "skip")
    BY <1>1, <1>5 DEF EndWork, Result
  <2> QED
    BY <2>1, <2>2 DEF ProvenInv, CertificationTypeOK, GroupGone, Running
<1> QED
  BY <1>2, <1>3, <1>4, <1>5 DEF CertificationNext

\* A certificate is never issued while a thread is still at work, on output nobody
\* inspected, or over what is left of a cancelled program, whatever times out and
\* whatever the program does, for every size of its group.
THEOREM CertificatesProven == CertificationSpec => []CertifiedIsProven
<1>1. CertificationInit => ProvenInv
  BY StepFacts DEF CertificationInit, ProvenInv
<1>2. CertificationTypeOK /\ ProvenInv => CertifiedIsProven
  <2> SUFFICES ASSUME CertificationTypeOK, ProvenInv, certificate = "certified"
               PROVE  /\ \A s \in Steps : workers[s] # "working"
                      /\ kind = "coding_cli" => GroupGone
    BY DEF CertifiedIsProven, ProvenInv
  <2>1. \A s \in Steps : outcomes[s] \in {"pass", "skip"} /\ workers[s] = outcomes[s]
    BY DEF ProvenInv, StepsPass, CertificationTypeOK, Result
  <2>2. kind = "coding_cli" => outcomes[Cancellation] = "pass"
    BY StepFacts DEF ProvenInv, StepsPass
  <2> QED
    BY <2>1, <2>2, StepFacts DEF ProvenInv
<1> QED
  BY <1>1, <1>2, ProvenStep, CertificationTypeCorrect, PTL DEF CertificationSpec

USE FlatAssumption DEF Unit

(********************************* Healing *********************************)

\* A recovery that was counted and not done yet.
Owed(u, k) ==
  IF drive.at = "apply" /\ drive.turn = u /\ k \in Also(Remedy(drive.seen[u])) THEN 1 ELSE 0

HealsTyped ==
  /\ heals \in [Unit -> [HealKinds -> Nat]]
  /\ healed \in [Unit -> [HealKinds -> Nat]]

\* Only a unit with a remedy is about to be healed.
AppliesRemedy ==
  drive.at = "apply" => drive.turn \in Unit /\ Remedy(drive.seen[drive.turn]) \in HealKinds

\* What was done, or is owed, was counted, and the count respects the cap.
HealsCounted ==
  \A u \in Unit : \A k \in HealKinds :
    /\ healed[u][k] + Owed(u, k) <= heals[u][k]
    /\ heals[u][k] <= HEAL_CAPS[k]

DriveRecord == DOMAIN drive = {"at", "turn", "seen", "refused", "moved"}

HealInv == DriveRecord /\ HealsTyped /\ AppliesRemedy /\ HealsCounted

LEMMA CapsTyped == HEAL_CAPS \in [HealKinds -> Nat] /\ \A k \in HealKinds : HEAL_CAPS[k] >= 1
  BY DEF HEAL_CAPS

LEMMA RemedyKinds == ASSUME NEW x PROVE Remedy(x) \in HealKinds \cup {None}
  BY DEF Remedy, HealKinds, None

LEMMA HealInitially == DriveInit => HealInv
<1> SUFFICES ASSUME DriveInit PROVE HealInv
  OBVIOUS
<1>1. HealsTyped
  BY DEF DriveInit, HealsTyped, NoHeals
<1>2. drive.at # "apply" /\ DriveRecord
  BY DEF DriveInit, OffDuty, DriveRecord
<1>3. HealsCounted
  BY <1>1, <1>2, CapsTyped DEF DriveInit, HealsCounted, Owed, NoHeals
<1> QED
  BY <1>1, <1>2, <1>3 DEF HealInv, AppliesRemedy

\* A step that neither counts nor heals, and does not stand before a healing
\* that was not owed, keeps the invariant.
LEMMA HealsUntouched ==
  ASSUME HealInv, DriveRecord', DOMAIN units' = DOMAIN units, UNCHANGED <<heals, healed>>,
         drive'.at # "apply" \/ UNCHANGED drive
  PROVE  HealInv'
<1>1. HealsTyped'
  BY DEF HealInv, HealsTyped
<1>2. AppliesRemedy'
  BY DEF HealInv, AppliesRemedy, Remedy
<1>3. \A u \in Unit, k \in HealKinds : Owed(u, k)' <= Owed(u, k)
  BY DEF Owed, Remedy, Also
<1>4. HealsCounted'
  <2> SUFFICES ASSUME NEW u \in Unit, NEW k \in HealKinds
               PROVE  healed[u][k] + Owed(u, k)' <= heals[u][k] /\ heals[u][k] <= HEAL_CAPS[k]
    BY DEF HealsCounted
  <2>1. healed[u][k] \in Nat /\ heals[u][k] \in Nat /\ Owed(u, k) \in Int /\ Owed(u, k)' \in Int
    BY DEF HealInv, HealsTyped, Owed
  <2> QED
    BY <1>3, <2>1 DEF HealInv, HealsCounted
<1> QED
  BY <1>1, <1>2, <1>4 DEF HealInv

LEMMA DriveRecordKept == DriveRecord /\ [DriveNext]_driveVars => DriveRecord'
<1> USE DEF DriveRecord
<1> SUFFICES ASSUME DriveRecord, DriveNext PROVE DriveRecord'
  BY DEF driveVars
<1>1. CASE StartDrive \/ CheckPlan \/ LoopTop \/ StopAtCeiling
  BY <1>1 DEF StartDrive, CheckPlan, LoopTop, StopAtCeiling, Goto, Stop, OffDuty
<1>2. CASE PassOver \/ RetryInterrupted \/ Dispatch \/ EndAttempt \/ RecordAttempt \/ Review
  BY <1>2 DEF PassOver, RetryInterrupted, Dispatch, EndAttempt, RecordAttempt, Review, Goto, NextTurn,
              SetUnitAside
<1>3. CASE MergeOwn \/ ReturnOwn \/ ProcessQueue \/ StartHealing \/ CountHeal \/ ApplyHeal \/ FinishHealing
  BY <1>3 DEF MergeOwn, ReturnOwn, ProcessQueue, StartHealing, CountHeal, ApplyHeal, FinishHealing,
              Goto, NextTurn, SetUnitAside, Stop, OffDuty
<1>4. CASE StewardBegins \/ StewardRecords \/ NoLessons \/ CloseMilestone \/ ReportMilestone \/ JudgeMilestone
  BY <1>4 DEF StewardBegins, StewardRecords, NoLessons, CloseMilestone, ReportMilestone, JudgeMilestone,
              Goto, Stop, OffDuty
<1>5. CASE \/ KillDrive \/ OwnerMerges
           \/ \E verdict \in Verdicts, refresh \in BOOLEAN : CheckPlanFile(verdict, refresh)
  BY <1>5 DEF KillDrive, OwnerMerges, CheckPlanFile, Stop, OffDuty
<1>6. CASE \E u \in Unit : Recover(u) \/ OwnerResumes(u) \/ OwnerEnqueues(u)
  BY <1>6 DEF Recover, OwnerResumes, OwnerEnqueues
<1> QED
  BY <1>1, <1>2, <1>3, <1>4, <1>5, <1>6 DEF DriveNext, DriveStep

LEMMA CountHealKeeps == HealInv /\ DriveRecord' /\ CountHeal => HealInv'
<1> SUFFICES ASSUME HealInv, DriveRecord', CountHeal PROVE HealInv'
  OBVIOUS
<1> DEFINE u == drive.turn
           remedy == Remedy(drive.seen[u])
<1>1. drive.at = "heal" /\ u \in Unit /\ UNCHANGED <<units, healed>>
  BY DEF CountHeal, At, U
<1>2. CASE remedy = None \/ ~Left(u, remedy)
  <2>1. UNCHANGED heals /\ drive'.at = drive.at
    BY <1>2 DEF CountHeal, U, NextTurn, HealInv, DriveRecord
  <2> QED
    BY <1>1, <2>1, HealsUntouched
<1>3. CASE remedy # None /\ Left(u, remedy)
  <2>1. remedy \in HealKinds
    BY <1>3, RemedyKinds
  <2>2. PICK kinds \in SUBSET HealKinds :
          /\ heals' = Counted(u, kinds)
          /\ \A k \in kinds : Left(u, k)
          /\ drive'.at = "apply" => kinds = Also(remedy) /\ drive'.turn = u /\ drive'.seen = drive.seen
    <3>1. CASE \A k \in Also(remedy) : Left(u, k)
      <4>1. heals' = Counted(u, Also(remedy)) /\ drive' = [drive EXCEPT !.at = "apply"]
        BY <1>3, <3>1 DEF CountHeal, U, Goto
      <4>2. Also(remedy) \in SUBSET HealKinds
        BY <2>1 DEF Also, HealKinds
      <4> QED  BY <3>1, <4>1, <4>2 DEF HealInv, DriveRecord
    <3>2. CASE ~ \A k \in Also(remedy) : Left(u, k)
      <4>1. heals' = Counted(u, {remedy}) /\ drive' = [drive EXCEPT !.turn = @ + 1]
        BY <1>3, <3>2 DEF CountHeal, U, NextTurn
      <4> QED  BY <1>1, <1>3, <2>1, <4>1 DEF HealInv, DriveRecord
    <3> QED  BY <3>1, <3>2
  <2>3. \A v \in Unit, k \in HealKinds :
          heals'[v][k] = heals[v][k] + (IF v = u /\ k \in kinds THEN 1 ELSE 0)
    BY <1>1, <2>2 DEF Counted, HealInv, HealsTyped
  <2>4. HealsTyped'
    BY <1>1, <2>2 DEF Counted, HealInv, HealsTyped
  <2>5. AppliesRemedy'
    BY <1>1, <2>1, <2>2 DEF AppliesRemedy, Remedy
  <2>6. \A v \in Unit, k \in HealKinds :
          Owed(v, k) = 0 /\ Owed(v, k)' <= (IF v = u /\ k \in kinds THEN 1 ELSE 0)
    <3> SUFFICES ASSUME NEW v \in Unit, NEW k \in HealKinds
                 PROVE  Owed(v, k) = 0 /\ Owed(v, k)' <= (IF v = u /\ k \in kinds THEN 1 ELSE 0)
      OBVIOUS
    <3>1. Owed(v, k) = 0
      BY <1>1 DEF Owed
    <3>2. CASE drive'.at = "apply" /\ drive'.turn = v
      <4>1. v = u /\ Remedy(drive.seen[v])' = remedy /\ kinds = Also(remedy)
        BY <2>2, <3>2 DEF Remedy
      <4>2. Also(Remedy(drive.seen[v]))' = kinds
        BY <4>1 DEF Also
      <4> QED
        BY <3>1, <4>1, <4>2 DEF Owed
    <3>3. CASE ~(drive'.at = "apply" /\ drive'.turn = v)
      BY <3>1, <3>3 DEF Owed
    <3> QED
      BY <3>2, <3>3
  <2>7. HealsCounted'
    <3> SUFFICES ASSUME NEW v \in Unit, NEW k \in HealKinds
                 PROVE  /\ healed[v][k] + Owed(v, k)' <= heals'[v][k]
                        /\ heals'[v][k] <= HEAL_CAPS[k]
      BY <1>1 DEF HealsCounted
    <3>1. healed[v][k] \in Nat /\ heals[v][k] \in Nat /\ Owed(v, k)' \in Int /\ HEAL_CAPS[k] \in Nat
      BY CapsTyped DEF HealInv, HealsTyped, Owed
    <3>2. healed[v][k] <= heals[v][k] /\ heals[v][k] <= HEAL_CAPS[k]
      BY <2>6, <3>1 DEF HealInv, HealsCounted
    <3>3. v = u /\ k \in kinds => heals[v][k] < HEAL_CAPS[k]
      BY <2>2 DEF Left
    <3> QED
      BY <2>3, <2>6, <3>1, <3>2, <3>3
  <2> QED
    BY <2>4, <2>5, <2>7 DEF HealInv
<1> QED
  BY <1>2, <1>3

LEMMA ApplyHealKeeps == HealInv /\ DriveRecord' /\ ApplyHeal => HealInv'
<1> SUFFICES ASSUME HealInv, DriveRecord', ApplyHeal PROVE HealInv'
  OBVIOUS
<1> DEFINE u == drive.turn
           kinds == Also(Remedy(drive.seen[u]))
<1>1. drive.at = "apply" /\ u \in Unit /\ drive'.at = "heal" /\ UNCHANGED heals
  BY DEF ApplyHeal, At, HealInv, AppliesRemedy, DriveRecord
<1>2. DOMAIN units' = Unit
  BY DEF ApplyHeal, Set
<1>3. healed' = [healed EXCEPT ![u] = [k \in HealKinds |-> healed[u][k] + (IF k \in kinds THEN 1 ELSE 0)]]
  BY DEF ApplyHeal, U
<1>4. HealsTyped'
  BY <1>1, <1>2, <1>3 DEF HealInv, HealsTyped
<1>5. \A v \in Unit, k \in HealKinds : healed'[v][k] = healed[v][k] + Owed(v, k) /\ Owed(v, k)' = 0
  <2> SUFFICES ASSUME NEW v \in Unit, NEW k \in HealKinds
               PROVE  healed'[v][k] = healed[v][k] + Owed(v, k) /\ Owed(v, k)' = 0
    OBVIOUS
  <2>1. healed[v][k] \in Nat
    BY DEF HealInv, HealsTyped
  <2> QED
    BY <1>1, <1>3, <2>1 DEF Owed, HealInv, HealsTyped
<1>6. HealsCounted'
  <2> SUFFICES ASSUME NEW v \in Unit, NEW k \in HealKinds
               PROVE  /\ healed'[v][k] + Owed(v, k)' <= heals[v][k]
                      /\ heals[v][k] <= HEAL_CAPS[k]
    BY <1>1, <1>2 DEF HealsCounted
  <2>1. healed'[v][k] \in Nat /\ healed'[v][k] = healed[v][k] + Owed(v, k) /\ Owed(v, k)' = 0
    BY <1>2, <1>4, <1>5 DEF HealsTyped
  <2> QED
    BY <2>1 DEF HealInv, HealsCounted
<1> QED
  BY <1>1, <1>4, <1>6 DEF HealInv, AppliesRemedy

\* Every other step of the drive and of the owner.
LEMMA OthersLeaveHeals ==
  ASSUME DriveRecord, DriveNext, ~CountHeal, ~ApplyHeal
  PROVE  /\ DOMAIN units' = DOMAIN units /\ UNCHANGED <<heals, healed>>
         /\ drive'.at # "apply" \/ UNCHANGED drive
<1> USE DEF DriveRecord
<1>1. CASE StartDrive
  BY <1>1 DEF StartDrive, HealsKept, Goto
<1>2. CASE LoopTop \/ StopAtCeiling
  <2>1. drive' = OffDuty \/ drive'.at \in {"end", "try"}
    BY <1>2, Zenon DEF LoopTop, StopAtCeiling, Stop
  <2> QED
    BY <1>2, <2>1 DEF LoopTop, StopAtCeiling, OffDuty
<1>3. CASE CheckPlan
  BY <1>3 DEF CheckPlan, Goto, Stop, OffDuty
<1>4. CASE PassOver \/ RetryInterrupted \/ Dispatch \/ EndAttempt \/ RecordAttempt \/ Review
  BY <1>4 DEF PassOver, RetryInterrupted, Dispatch, EndAttempt, RecordAttempt, Review, Trying, At,
              Goto, NextTurn, SetUnitAside, Set
<1>5. CASE ReturnOwn \/ ProcessQueue
  BY <1>5 DEF ReturnOwn, ProcessQueue, ProcessHead, Trying, At,
              Goto, Set, SetUnitAside, Stop, OffDuty
<1>6. CASE StartHealing \/ FinishHealing
  <2>1. drive' = OffDuty \/ drive'.at \in {"heal", "top"}
    BY <1>6 DEF StartHealing, FinishHealing, Goto, Stop
  <2> QED
    BY <1>6, <2>1 DEF StartHealing, FinishHealing, OffDuty
<1>7. CASE MergeOwn
  BY <1>7 DEF MergeOwn, ProcessHead, Set, Goto, At
<1>8. CASE StewardBegins \/ StewardRecords \/ NoLessons \/ CloseMilestone \/ ReportMilestone \/ JudgeMilestone
  BY <1>8 DEF StewardBegins, StewardRecords, NoLessons, CloseMilestone, ReportMilestone, JudgeMilestone,
              Goto, Stop, OffDuty, milestoneVars
<1>9. CASE \/ KillDrive \/ OwnerMerges
           \/ \E verdict \in Verdicts, refresh \in BOOLEAN : CheckPlanFile(verdict, refresh)
  BY <1>9 DEF KillDrive, OwnerMerges, CheckPlanFile, ProcessHead, Set, Stop, OffDuty
<1>10. CASE \E u \in Unit : Recover(u) \/ OwnerResumes(u) \/ OwnerEnqueues(u)
  BY <1>10 DEF Recover, OwnerResumes, OwnerEnqueues, Set
<1> QED
  BY <1>1, <1>2, <1>3, <1>4, <1>5, <1>6, <1>7, <1>8, <1>9, <1>10 DEF DriveNext, DriveStep

LEMMA HealInductive == HealInv /\ [DriveNext]_driveVars => HealInv'
<1> SUFFICES ASSUME HealInv, [DriveNext]_driveVars PROVE HealInv'
  OBVIOUS
<1>0. DriveRecord /\ DriveRecord'
  BY DriveRecordKept DEF HealInv
<1>1. CASE CountHeal
  BY <1>0, <1>1, CountHealKeeps
<1>2. CASE ApplyHeal
  BY <1>0, <1>2, ApplyHealKeeps
<1>3. CASE DriveNext /\ ~CountHeal /\ ~ApplyHeal
  BY <1>0, <1>3, OthersLeaveHeals, HealsUntouched
<1>4. CASE UNCHANGED driveVars
  BY <1>0, <1>4, HealsUntouched DEF driveVars
<1> QED
  BY <1>1, <1>2, <1>3, <1>4

\* Each kind of healing is done no more often than its cap, however many drives
\* are started, die between the count and the recovery, or are helped by the
\* owner, for every milestone and every mix of troubles.
THEOREM HealsCapped == DriveSpec => []HealsWithinCaps
<1>1. HealInv => HealsWithinCaps
  <2> SUFFICES ASSUME HealInv, NEW u \in Unit, NEW k \in HealKinds
               PROVE  healed[u][k] <= HEAL_CAPS[k]
    BY DEF HealsWithinCaps
  <2>1. healed[u][k] \in Nat /\ heals[u][k] \in Nat /\ Owed(u, k) \in {0, 1} /\ HEAL_CAPS[k] \in Nat
    BY CapsTyped DEF HealInv, HealsTyped, Owed
  <2> QED
    BY <2>1 DEF HealInv, HealsCounted
<1> QED
  BY <1>1, HealInitially, HealInductive, PTL DEF DriveSpec

(************************* The supervised process **************************)

(***************************** The health check ****************************)

\* The health thread's checks keep the streak honest: a check is flat only when
\* every signal could be compared and none moved.
StreakInv == HealthTypeOK /\ BusyNeverHung

LEMMA CheckKeepsStreak ==
  ASSUME StreakInv, NEW readable, CheckHealth(readable) \/ CheckGone(readable)
  PROVE  StreakInv'
<1>1. CASE CheckGone(readable)
  BY <1>1 DEF CheckGone, StreakInv, HealthTypeOK, BusyNeverHung
<1>2. CASE CheckHealth(readable)
  <2>1. /\ flat \in 0..FlatNeeded /\ still \in 0..FlatNeeded /\ flat <= still /\ flat < FlatNeeded
        /\ moved \subseteq Signals /\ readable \subseteq Signals
        /\ sampled' = readable /\ moved' = {} /\ flat' = FlatAfter(readable)
        /\ still' = IF moved = {} /\ still < FlatNeeded THEN still + 1 ELSE still
    BY <1>2 DEF CheckHealth, StreakInv, HealthTypeOK, BusyNeverHung
  <2>2. FlatAfter(readable) \in {0, flat} \/ (moved = {} /\ FlatAfter(readable) = flat + 1)
    BY <2>1 DEF FlatAfter, Known
  <2>3. flat' \in 0..FlatNeeded /\ still' \in 0..FlatNeeded /\ flat' <= still'
    BY <2>1, <2>2
  <2> QED
    BY <2>1, <2>3 DEF StreakInv, HealthTypeOK, BusyNeverHung
<1> QED
  BY <1>1, <1>2

LEMMA ProgressKeepsStreak ==
  ASSUME StreakInv, NEW x \in Signals, Progress(x) PROVE StreakInv'
BY DEF Progress, StreakInv, HealthTypeOK, BusyNeverHung

LEMMA StillStreak == ASSUME StreakInv, UNCHANGED healthVars PROVE StreakInv'
BY DEF healthVars, StreakInv, HealthTypeOK, BusyNeverHung

(*************************** The result of a process ***********************)

\* Which of the process group is left, by where the monitor is.
GroupInv ==
  /\ monitor.at = "spawn" => child = "none" /\ ~helper
  /\ monitor.at # "spawn" => child # "none" \/ monitor.at = "over"
  /\ child = "none" => ~helper
  /\ monitor.exited => child \in {"zombie", "reaped"}
  /\ monitor.groupReaped => child \in {"zombie", "reaped"} /\ ~helper
  /\ monitor.at \in {"reap", "drain"} => monitor.groupReaped
  /\ monitor.at = "drain" => child = "reaped"
  /\ result # NoResult => monitor.at = "over" /\ child \in {"none", "reaped"} /\ ~helper

\* A cancel for a hang comes after the hang's evidence.
EvidenceInv ==
  /\ caller["hung"] # "no" => evidence
  /\ reason = "hung" => evidence
  /\ result # NoResult => (result.reason = "hung" => result.hung)

SuperInv == SupervisorTypeOK /\ StreakInv /\ GroupInv /\ EvidenceInv

USE DEF SuperInv, IdleMonitor

LEMMA SuperInitially == SupervisorInit => SuperInv
<1> SUFFICES ASSUME SupervisorInit PROVE SuperInv
  OBVIOUS
<1>1. HealthTypeOK /\ StreakInv
  BY DEF SupervisorInit, HealthInit, StreakInv, HealthTypeOK, BusyNeverHung
<1>2. SupervisorTypeOK
  BY <1>1 DEF SupervisorInit, SupervisorTypeOK
<1>3. GroupInv /\ EvidenceInv
  BY DEF SupervisorInit, GroupInv, EvidenceInv, Canceller
<1> QED
  BY <1>1, <1>2, <1>3

LEMMA VerdictTyped ==
  ASSUME SuperInv, NEW m, m.cancelled \in BOOLEAN, m.timedOut \in BOOLEAN, NEW failed \in BOOLEAN
  PROVE  /\ Verdict(m, failed) \in [cancelled : BOOLEAN, timedOut : BOOLEAN, hung : BOOLEAN,
                                    reason : Canceller \cup {"none"}, error : BOOLEAN]
         /\ Verdict(m, failed).reason = "hung" => Verdict(m, failed).hung
<1>1. evidence \in BOOLEAN /\ reason \in Canceller \cup {"none"} /\ (reason = "hung" => evidence)
  BY DEF SupervisorTypeOK, EvidenceInv
<1>2. PICK why : why = IF m.cancelled THEN reason ELSE "none"
  OBVIOUS
<1>3. PICK h : h = (evidence /\ m.cancelled)
  OBVIOUS
<1>4. why \in Canceller \cup {"none"} /\ h \in BOOLEAN /\ (why = "hung" => h)
  <2>1. CASE m.cancelled
    BY <1>1, <1>2, <1>3, <2>1
  <2>2. CASE ~m.cancelled
    <3>1. why = "none" /\ h = FALSE
      BY <1>1, <1>2, <1>3, <2>2
    <3> QED
      BY <3>1
  <2> QED
    BY <2>1, <2>2
<1>5. Verdict(m, failed) = [cancelled |-> m.cancelled, timedOut |-> m.timedOut, hung |-> h,
                            reason |-> why, error |-> failed]
  BY <1>2, <1>3 DEF Verdict
<1> QED
  BY <1>4, <1>5

\* The monitor ends, and what it reports is so.
LEMMA FinishKeeps ==
  ASSUME SuperInv, NEW failed \in BOOLEAN, Finish(failed),
         child' \in {"none", "reaped"}, helper' = FALSE,
         UNCHANGED <<stray, streams, caller, reason, cancel, evidence, watch, deadline>>,
         UNCHANGED healthVars, monitor.exited \/ monitor.groupReaped => child' = "reaped"
  PROVE  SuperInv'
<1>0. PICK m : m = IF failed THEN IdleMonitor ELSE monitor
  OBVIOUS
<1>1. m.cancelled \in BOOLEAN /\ m.timedOut \in BOOLEAN
  BY <1>0 DEF SupervisorTypeOK
<1>2. result' = Verdict(m, failed) /\ monitor' = [monitor EXCEPT !.at = "over"]
  BY <1>0 DEF Finish
<1>3. /\ result' \in [cancelled : BOOLEAN, timedOut : BOOLEAN, hung : BOOLEAN,
                      reason : Canceller \cup {"none"}, error : BOOLEAN]
      /\ result'.reason = "hung" => result'.hung
  BY <1>1, <1>2, VerdictTyped
<1>4. StreakInv' /\ HealthTypeOK'
  BY StillStreak DEF StreakInv
<1>5. SupervisorTypeOK'
  BY <1>2, <1>3, <1>4 DEF SupervisorTypeOK
<1>6. EvidenceInv'
  BY <1>3 DEF EvidenceInv
<1>7. GroupInv'
  <2>1. /\ monitor'.at = "over" /\ monitor'.exited = monitor.exited
        /\ monitor'.groupReaped = monitor.groupReaped
    BY <1>2 DEF SupervisorTypeOK
  <2> QED
    BY <2>1 DEF GroupInv
<1> QED
  BY <1>4, <1>5, <1>6, <1>7

\* The monitor goes on, having signalled the group or not.
LEMMA MonitorKeeps ==
  ASSUME SuperInv, UNCHANGED result, MonitorOnly,
         monitor' \in [at : {"probe", "act", "reap", "drain", "fail"},
                       exited : BOOLEAN, groupReaped : BOOLEAN, lingered : BOOLEAN,
                       cancelled : BOOLEAN, timedOut : BOOLEAN,
                       kill : {"unset", "armed", "due"}, escalated : BOOLEAN],
         monitor.at \notin {"spawn", "over"}, child' \in {"running", "zombie", "reaped"},
         helper' \in BOOLEAN,
         monitor'.exited \/ monitor'.groupReaped => child' \in {"zombie", "reaped"},
         monitor'.groupReaped => ~helper',
         monitor'.at \in {"reap", "drain"} => monitor'.groupReaped,
         monitor'.at = "drain" => child' = "reaped"
  PROVE  SuperInv'
<1>1. StreakInv' /\ HealthTypeOK'
  BY StillStreak DEF StreakInv, MonitorOnly
<1>2. SupervisorTypeOK'
  BY <1>1 DEF SupervisorTypeOK, MonitorOnly
<1>3. EvidenceInv'
  BY DEF EvidenceInv, MonitorOnly
<1>4. result' = NoResult
  BY DEF GroupInv
<1>5. GroupInv'
  BY <1>4 DEF GroupInv
<1> QED
  BY <1>1, <1>2, <1>3, <1>5

LEMMA MonitorTyped ==
  ASSUME SuperInv, NEW at \in {"spawn", "probe", "act", "reap", "drain", "fail", "over"},
         monitor.at = at
  PROVE  /\ monitor \in [at : {"spawn", "probe", "act", "reap", "drain", "fail", "over"},
                         exited : BOOLEAN, groupReaped : BOOLEAN, lingered : BOOLEAN,
                         cancelled : BOOLEAN, timedOut : BOOLEAN,
                         kill : {"unset", "armed", "due"}, escalated : BOOLEAN]
         /\ child \in {"none", "running", "zombie", "reaped"} /\ helper \in BOOLEAN
         /\ at \notin {"spawn", "over"} => child \in {"running", "zombie", "reaped"}
BY DEF SupervisorTypeOK, GroupInv

\* A monitor that polls, acts on what it finds, reaps or fails.
LEMMA MonitorLoops ==
  ASSUME SuperInv,
         ProbeExit \/ ActOnExit \/ ActOnRequest \/ ActOnGrace \/ ReapChild \/ MonitorFails
  PROVE  SuperInv'
<1>1. monitor.at \notin {"spawn", "over"} /\ MonitorOnly /\ UNCHANGED result
  BY DEF ProbeExit, ActOnExit, ActOnRequest, ActOnGrace, ReapChild, MonitorFails
<1>2. /\ monitor \in [at : {"spawn", "probe", "act", "reap", "drain", "fail", "over"},
                      exited : BOOLEAN, groupReaped : BOOLEAN, lingered : BOOLEAN,
                      cancelled : BOOLEAN, timedOut : BOOLEAN,
                      kill : {"unset", "armed", "due"}, escalated : BOOLEAN]
      /\ child \in {"running", "zombie", "reaped"} /\ helper \in BOOLEAN
  BY <1>1, MonitorTyped DEF SupervisorTypeOK
<1>3. cancel \in BOOLEAN
  BY DEF SupervisorTypeOK
<1>4. CASE ProbeExit
  <2>1. monitor' = [monitor EXCEPT !.at = "act", !.exited = child # "running"]
        /\ UNCHANGED <<child, helper>>
    BY <1>4 DEF ProbeExit
  <2>2. (child # "running") \in BOOLEAN
    OBVIOUS
  <2> QED
    BY <1>1, <1>2, <2>1, <2>2, MonitorKeeps DEF GroupInv
<1>5. CASE ActOnExit
  <2>1. PICK at \in {"reap", "probe"} : monitor' = [monitor EXCEPT !.groupReaped = TRUE, !.at = at]
    BY <1>5 DEF ActOnExit
  <2>2. child' \in {"zombie", "reaped"} /\ helper' = FALSE
    BY <1>2, <1>5 DEF ActOnExit, KillGroup, GroupInv
  <2> QED
    BY <1>1, <1>2, <2>1, <2>2, MonitorKeeps
<1>6. CASE ActOnRequest
  <2>1. UNCHANGED <<child, helper>>
        /\ \E t \in BOOLEAN, k \in {"armed", "unset"} :
             monitor' = [monitor EXCEPT !.at = "probe", !.cancelled = cancel, !.timedOut = t, !.kill = k]
    BY <1>3, <1>6 DEF ActOnRequest
  <2>2. PICK t \in BOOLEAN, k \in {"armed", "unset"} :
          monitor' = [monitor EXCEPT !.at = "probe", !.cancelled = cancel, !.timedOut = t, !.kill = k]
    BY <2>1
  <2> QED
    BY <1>1, <1>2, <1>3, <2>1, <2>2, MonitorKeeps DEF GroupInv
<1>7. CASE ActOnGrace
  <2>1. /\ ~monitor.exited
        /\ \/ UNCHANGED <<child, helper>>
           \/ child' = (IF child = "running" THEN "zombie" ELSE child) /\ helper' = FALSE
        /\ \E e \in BOOLEAN : monitor' = [monitor EXCEPT !.at = "probe", !.escalated = e]
    <3>1. CASE monitor.kill = "due" /\ ~monitor.escalated
      BY <1>7, <3>1 DEF ActOnGrace, KillGroup
    <3>2. CASE ~(monitor.kill = "due" /\ ~monitor.escalated)
      <4>1. monitor' = [monitor EXCEPT !.at = "probe"] /\ UNCHANGED <<child, helper>>
        BY <1>7, <3>2 DEF ActOnGrace
      <4>2. monitor' = [monitor EXCEPT !.at = "probe", !.escalated = monitor.escalated]
            /\ monitor.escalated \in BOOLEAN
        BY <1>2, <4>1
      <4> QED
        BY <1>7, <4>1, <4>2 DEF ActOnGrace
    <3> QED
      BY <3>1, <3>2
  <2>2. PICK e \in BOOLEAN : monitor' = [monitor EXCEPT !.at = "probe", !.escalated = e]
    BY <2>1
  <2>3. /\ child' \in {"running", "zombie", "reaped"} /\ helper' \in BOOLEAN
        /\ child \in {"zombie", "reaped"} => child' = child
        /\ ~helper => ~helper'
    <3>1. CASE UNCHANGED <<child, helper>>
      BY <1>2, <3>1
    <3>2. CASE child' = (IF child = "running" THEN "zombie" ELSE child) /\ helper' = FALSE
      BY <1>2, <3>2
    <3> QED
      BY <2>1, <3>1, <3>2
  <2>4. /\ monitor'.at = "probe" /\ monitor'.exited = monitor.exited
        /\ monitor'.groupReaped = monitor.groupReaped
        /\ monitor' \in [at : {"probe", "act", "reap", "drain", "fail"},
                         exited : BOOLEAN, groupReaped : BOOLEAN, lingered : BOOLEAN,
                         cancelled : BOOLEAN, timedOut : BOOLEAN,
                         kill : {"unset", "armed", "due"}, escalated : BOOLEAN]
    BY <1>2, <2>2
  <2> QED
    BY <1>1, <2>3, <2>4, MonitorKeeps DEF GroupInv
<1>8. CASE ReapChild
  <2>1. monitor.at = "reap" /\ child' = "reaped" /\ monitor' = [monitor EXCEPT !.at = "drain"]
        /\ UNCHANGED helper
    BY <1>8 DEF ReapChild
  <2> QED
    BY <1>1, <1>2, <2>1, MonitorKeeps DEF GroupInv
<1>9. CASE MonitorFails
  <2>1. monitor' = [monitor EXCEPT !.at = "fail"] /\ UNCHANGED <<child, helper>>
    BY <1>9 DEF MonitorFails
  <2> QED
    BY <1>1, <1>2, <2>1, MonitorKeeps DEF GroupInv
<1> QED
  BY <1>4, <1>5, <1>6, <1>7, <1>8, <1>9

LEMMA Finishes ==
  ASSUME SuperInv, SpawnChildFails \/ DrainAndFinish \/ FailSafe PROVE SuperInv'
<1>1. CASE SpawnChildFails
  <2>1. monitor.at = "spawn" /\ child = "none" /\ helper = FALSE /\ ~monitor.exited /\ ~monitor.groupReaped
    BY <1>1, MonitorTyped DEF SpawnChildFails, GroupInv
  <2> QED
    BY <1>1, <2>1, FinishKeeps DEF SpawnChildFails
<1>2. CASE DrainAndFinish
  <2>1. child = "reaped" /\ helper = FALSE
    BY <1>2, MonitorTyped DEF DrainAndFinish, GroupInv
  <2> QED
    BY <1>2, <2>1, FinishKeeps DEF DrainAndFinish, MonitorOnly
<1>3. CASE FailSafe
  BY <1>3, FinishKeeps DEF FailSafe, MonitorOnly
<1> QED
  BY <1>1, <1>2, <1>3

LEMMA SpawnKeeps == ASSUME SuperInv, SpawnChild PROVE SuperInv'
<1>1. /\ monitor.at = "spawn" /\ child' = "running" /\ monitor' = [monitor EXCEPT !.at = "probe"]
      /\ watch' \in {"sleep", "off"}
      /\ UNCHANGED <<helper, stray, streams, caller, reason, cancel, evidence, deadline, result>>
      /\ UNCHANGED healthVars
  BY DEF SpawnChild
<1>2. child = "none" /\ ~helper /\ ~monitor.exited /\ ~monitor.groupReaped /\ result = NoResult
  BY <1>1 DEF GroupInv
<1>3. StreakInv' /\ HealthTypeOK'
  BY <1>1, StillStreak DEF StreakInv
<1>4. SupervisorTypeOK'
  BY <1>1, <1>3 DEF SupervisorTypeOK
<1>5. monitor'.at = "probe" /\ ~monitor'.exited /\ ~monitor'.groupReaped
  BY <1>1, <1>2, MonitorTyped
<1> QED
  BY <1>1, <1>2, <1>3, <1>4, <1>5 DEF GroupInv, EvidenceInv

\* Cancelling, health checks and what happens outside.
LEMMA CancelKeeps ==
  ASSUME SuperInv, OperatorCancels \/ CancelStep \/ DeclareHung PROVE SuperInv'
<1>1. CancelOnly
  BY DEF OperatorCancels, CancelStep, SetReason, SetCancel, DeclareHung
<1>2. StreakInv' /\ HealthTypeOK'
  BY <1>1, StillStreak DEF StreakInv, CancelOnly
<1>3. GroupInv'
  BY <1>1 DEF GroupInv, CancelOnly
<1>4. /\ caller' \in [Canceller -> {"no", "reason", "event", "done"}] /\ reason' \in Canceller \cup {"none"}
      /\ cancel' \in BOOLEAN /\ evidence' \in BOOLEAN /\ watch' \in {"sleep", "hung", "off"}
      /\ caller'["hung"] # "no" => evidence'
      /\ reason' = "hung" => evidence'
      /\ result' = result
  <2>1. CASE OperatorCancels
    BY <1>1, <2>1 DEF OperatorCancels, EnterCancel, CancelOnly, SupervisorTypeOK, EvidenceInv, Canceller
  <2>2. CASE CancelStep
    <3>1. PICK c \in Canceller : SetReason(c) \/ SetCancel(c)
      BY <2>2 DEF CancelStep
    <3>2. /\ caller[c] \in {"reason", "event"} /\ UNCHANGED <<evidence, watch, result>>
          /\ \E a \in {"event", "done"} : caller' = [caller EXCEPT ![c] = a]
          /\ reason' = reason \/ (reason' = c)
          /\ cancel' = cancel \/ cancel' = TRUE
      BY <1>1, <3>1 DEF SetReason, SetCancel, CancelOnly
    <3>3. /\ caller' \in [Canceller -> {"no", "reason", "event", "done"}]
          /\ caller'["hung"] # "no" => caller["hung"] # "no"
      BY <3>2 DEF SupervisorTypeOK, Canceller
    <3> QED
      BY <3>2, <3>3 DEF SupervisorTypeOK, EvidenceInv, Canceller
  <2>3. CASE DeclareHung
    BY <1>1, <2>3 DEF DeclareHung, EnterCancel, CancelOnly, SupervisorTypeOK, EvidenceInv, Canceller
  <2> QED
    BY <2>1, <2>2, <2>3
<1>5. SupervisorTypeOK'
  BY <1>1, <1>2, <1>4 DEF SupervisorTypeOK, CancelOnly
<1> QED
  BY <1>2, <1>3, <1>4, <1>5 DEF EvidenceInv

LEMMA HealthKeeps ==
  ASSUME SuperInv, HealthTurn \/ \E x \in Signals : ChildProgresses(x) PROVE SuperInv'
<1>1. /\ UNCHANGED <<child, helper, stray, streams, monitor, caller, reason, cancel, evidence,
                     deadline, result>>
      /\ watch' \in {"sleep", "hung", "off"}
  BY DEF HealthTurn, ChildProgresses, superVars, SupervisorTypeOK
<1>2. StreakInv'
  BY CheckKeepsStreak, ProgressKeepsStreak, StillStreak DEF HealthTurn, ChildProgresses
<1>3. SupervisorTypeOK'
  BY <1>1, <1>2 DEF SupervisorTypeOK, StreakInv
<1> QED
  BY <1>1, <1>2, <1>3 DEF GroupInv, EvidenceInv

LEMMA OutsideKeeps ==
  ASSUME SuperInv,
         ChildExits \/ ChildForks \/ ForkExits \/ StreamsEnd \/ TimePasses \/ DeadlinePasses
  PROVE  SuperInv'
<1>1. UNCHANGED <<caller, reason, cancel, evidence, watch, result>> /\ UNCHANGED healthVars
  BY DEF ChildExits, ChildForks, ForkExits, StreamsEnd, TimePasses, DeadlinePasses, Outside
<1>2. StreakInv' /\ HealthTypeOK' /\ EvidenceInv'
  BY <1>1, StillStreak DEF StreakInv, EvidenceInv
<1>3. /\ {helper, stray, streams, cancel, evidence} \subseteq BOOLEAN
      /\ child \in {"none", "running", "zombie", "reaped"}
      /\ deadline \in {"none", "ahead", "passed"}
      /\ monitor \in [at : {"spawn", "probe", "act", "reap", "drain", "fail", "over"},
                      exited : BOOLEAN, groupReaped : BOOLEAN, lingered : BOOLEAN,
                      cancelled : BOOLEAN, timedOut : BOOLEAN,
                      kill : {"unset", "armed", "due"}, escalated : BOOLEAN]
  BY DEF SupervisorTypeOK
\* What changes outside the threads.
<1>4. /\ child' = child \/ (child = "running" /\ child' = "zombie")
      /\ helper' = helper \/ (helper' = TRUE /\ child = "running") \/ helper' = FALSE
      /\ stray' \in BOOLEAN /\ streams' \in BOOLEAN /\ deadline' \in {"none", "ahead", "passed"}
      /\ \E k \in {"unset", "armed", "due"}, l \in BOOLEAN :
           monitor' = [monitor EXCEPT !.kill = k, !.lingered = l]
  <2>1. ASSUME UNCHANGED monitor
        PROVE  \E k \in {"unset", "armed", "due"}, l \in BOOLEAN :
                 monitor' = [monitor EXCEPT !.kill = k, !.lingered = l]
    <3>1. monitor' = [monitor EXCEPT !.kill = monitor.kill, !.lingered = monitor.lingered]
      BY <1>3, <2>1
    <3> QED
      BY <1>3, <3>1
  <2>2. CASE ChildExits
    BY <1>3, <2>1, <2>2 DEF ChildExits
  <2>3. CASE ChildForks
    BY <1>3, <2>1, <2>3 DEF ChildForks
  <2>4. CASE ForkExits
    BY <1>3, <2>1, <2>4 DEF ForkExits
  <2>5. CASE StreamsEnd \/ DeadlinePasses
    BY <1>3, <2>1, <2>5 DEF StreamsEnd, DeadlinePasses
  <2>6. CASE TimePasses
    <3>1. \/ monitor' = [monitor EXCEPT !.kill = "due", !.lingered = monitor.lingered]
          \/ monitor' = [monitor EXCEPT !.kill = monitor.kill, !.lingered = TRUE]
      BY <1>3, <2>6 DEF TimePasses
    <3>2. \E k \in {"unset", "armed", "due"}, l \in BOOLEAN :
            monitor' = [monitor EXCEPT !.kill = k, !.lingered = l]
      BY <1>3, <3>1
    <3> QED
      BY <1>3, <2>6, <3>2 DEF TimePasses
  <2> QED
    BY <2>2, <2>3, <2>4, <2>5, <2>6
<1>5. PICK k \in {"unset", "armed", "due"}, l \in BOOLEAN :
        monitor' = [monitor EXCEPT !.kill = k, !.lingered = l]
  BY <1>4
<1>6. /\ monitor' \in [at : {"spawn", "probe", "act", "reap", "drain", "fail", "over"},
                       exited : BOOLEAN, groupReaped : BOOLEAN, lingered : BOOLEAN,
                       cancelled : BOOLEAN, timedOut : BOOLEAN,
                       kill : {"unset", "armed", "due"}, escalated : BOOLEAN]
      /\ monitor'.at = monitor.at /\ monitor'.exited = monitor.exited
      /\ monitor'.groupReaped = monitor.groupReaped
  BY <1>3, <1>5
<1>7. helper' \in BOOLEAN /\ child' \in {"none", "running", "zombie", "reaped"}
  BY <1>3, <1>4
<1>8. SupervisorTypeOK'
  BY <1>1, <1>2, <1>4, <1>6, <1>7 DEF SupervisorTypeOK
<1>9. GroupInv'
  BY <1>1, <1>3, <1>4, <1>6 DEF GroupInv
<1> QED
  BY <1>2, <1>8, <1>9

LEMMA SuperInductive == SuperInv /\ [SupervisorNext]_supervisorVars => SuperInv'
<1> SUFFICES ASSUME SuperInv, [SupervisorNext]_supervisorVars PROVE SuperInv'
  OBVIOUS
<1>1. CASE UNCHANGED supervisorVars
  <2>1. StreakInv' /\ HealthTypeOK'
    BY <1>1, StillStreak DEF supervisorVars, StreakInv, healthVars
  <2> QED
    BY <1>1, <2>1 DEF supervisorVars, SupervisorTypeOK, GroupInv, EvidenceInv
<1> QED
  BY <1>1, MonitorLoops, Finishes, SpawnKeeps, CancelKeeps, HealthKeeps, OutsideKeeps
  DEF SupervisorNext, MonitorStep

\* The threads' locals, events and results keep their types.
THEOREM SupervisorTypeCorrect == SupervisorSpec => []SupervisorTypeOK
<1>1. SuperInv => SupervisorTypeOK
  OBVIOUS
<1> QED
  BY <1>1, SuperInitially, SuperInductive, PTL DEF SupervisorSpec

\* A result is reported when the group is gone, and a hang as a hang, however
\* the caller, the monitor and the health thread interleave.
THEOREM ReportedTruly == SupervisorSpec => []ResultIsTrue
<1>1. SuperInv => ResultIsTrue
  BY DEF GroupInv, EvidenceInv, ResultIsTrue
<1> QED
  BY <1>1, SuperInitially, SuperInductive, PTL DEF SupervisorSpec

\* However readings fail, a process is found hung only after that many intervals
\* in which nothing moved.
THEOREM OnlyIdleIsHung == SupervisorSpec => []BusyNeverHung
<1>1. SuperInv => BusyNeverHung
  BY DEF StreakInv
<1> QED
  BY <1>1, SuperInitially, SuperInductive, PTL DEF SupervisorSpec

(****************************** The files of a run **************************)

\* The documents a run may have, and what a reader may make of its files.
RunDoc == {d \in Doc : d.applied # << >>}
AnyDoc == RunDoc \cup {NoRun, Broken}

LEMMA DocsApart ==
  /\ \A d \in RunDoc : IsRun(d) /\ d.seq \in Nat /\ d.applied \in Seq(Event) /\ d.applied # << >>
  /\ ~IsRun(NoRun) /\ ~IsRun(Broken) /\ NoRun # Broken
  /\ NoRun.seq = -1 /\ Broken.seq = -2 /\ NoRun \notin RunDoc /\ Broken \notin RunDoc
BY DEF RunDoc, Doc, IsRun, NoRun, Broken

LEMMA ApplyTyped ==
  ASSUME NEW d \in AnyDoc, NEW e \in Line \ {Torn}
  PROVE  /\ Apply(d, e) \in AnyDoc
         /\ d \in RunDoc => Apply(d, e) \in RunDoc /\ Apply(d, e).seq = e.seq
                              /\ Apply(d, e).applied = IF e.start THEN <<e.id>>
                                                       ELSE Append(d.applied, e.id)
         /\ d # Broken /\ e.start =>
              /\ Apply(d, e) = [seq |-> e.seq, applied |-> <<e.id>>]
              /\ Apply(d, e) \in RunDoc
<1>1. e.seq \in Nat /\ e.id \in Event /\ e.start \in BOOLEAN
  BY DEF Line
<1>2. [seq |-> e.seq, applied |-> <<e.id>>] \in RunDoc
  <2>1. <<e.id>> \in Seq(Event) /\ Len(<<e.id>>) = 1
    BY <1>1
  <2>2. <<e.id>> # << >>
    BY <2>1
  <2> QED
    BY <1>1, <2>1, <2>2 DEF RunDoc, Doc
<1>3. ASSUME d \in RunDoc PROVE [seq |-> e.seq, applied |-> Append(d.applied, e.id)] \in RunDoc
  <2>1. d.applied \in Seq(Event)
    BY <1>3, DocsApart
  <2>2. /\ Append(d.applied, e.id) \in Seq(Event)
        /\ Len(Append(d.applied, e.id)) = Len(d.applied) + 1 /\ Len(d.applied) \in Nat
    BY <1>1, <2>1
  <2>3. Append(d.applied, e.id) # << >>
    <3>1. Len(<< >>) = 0
      OBVIOUS
    <3> QED
      BY <2>2, <3>1
  <2> QED
    BY <1>1, <2>2, <2>3 DEF RunDoc, Doc
<1> QED
  BY <1>1, <1>2, <1>3, DocsApart DEF Apply, AnyDoc

\* One line as a load reads it.
Reads(base, doc, entry) == IF IsNews(base, entry) THEN Apply(doc, entry) ELSE doc

LEMMA ReadsTyped ==
  ASSUME NEW base, NEW d \in AnyDoc, NEW entry \in Line PROVE Reads(base, d, entry) \in AnyDoc
BY ApplyTyped DEF Reads, IsNews

LEMMA LoadFolded ==
  ASSUME NEW base \in AnyDoc, NEW w \in Seq(Line)
  PROVE  \E got \in [0..Len(w) -> AnyDoc] :
           /\ LoadFrom(base, w) = got[Len(w)]
           /\ got[0] = base
           /\ \A k \in 1..Len(w) : got[k] = Reads(base, got[k - 1], w[k])
<1> DEFINE n == Len(w)
           V == AnyDoc
           fn == [p \in V \X Line |-> Reads(base, p[1], p[2])]
<1>1. n \in Nat /\ w \in [1..n -> Line] /\ DOMAIN w = 1..n
  OBVIOUS
<1>2. fn \in [V \X Line -> V]
  BY ReadsTyped
<1>3. \A d \in V, x \in Line : fn[<<d, x>>] = Reads(base, d, x)
  OBVIOUS
<1> HIDE DEF V, fn, n
<1>4. base \in V
  BY DEF V
<1>5. PICK iter : FoldsOver(iter, V, fn, base, n, w)
  BY <1>1, <1>2, <1>4, FoldExists
<1>6. /\ iter \in [SUBSET (1..n) -> V]
      /\ \A t \in SUBSET (1..n) :
           iter[t] = IF t = {} THEN base ELSE fn[<<iter[t \ {Max(t)}], w[Max(t)]>>]
  BY <1>5 DEF FoldsOver
<1> DEFINE Folds(f) ==
             f = [t \in SUBSET (1..n) |->
                    IF t = {} THEN base
                    ELSE IF IsNews(base, w[Max(t)]) THEN Apply(f[t \ {Max(t)}], w[Max(t)])
                         ELSE f[t \ {Max(t)}]]
<1>7. Folds(iter)
  <2>1. ASSUME NEW t \in SUBSET (1..n)
        PROVE  iter[t] = IF t = {} THEN base
                         ELSE IF IsNews(base, w[Max(t)]) THEN Apply(iter[t \ {Max(t)}], w[Max(t)])
                              ELSE iter[t \ {Max(t)}]
    <3>1. CASE t = {}
      BY <1>6, <3>1
    <3>2. CASE t # {}
      <4>1. Max(t) \in 1..n
        BY <1>1, <3>2, MaxOfSome
      <4>2. t \ {Max(t)} \in SUBSET (1..n) /\ iter[t \ {Max(t)}] \in V /\ w[Max(t)] \in Line
        BY <1>1, <1>6, <4>1
      <4> QED
        BY <1>3, <1>6, <3>2, <4>2 DEF Reads
    <3> QED
      BY <3>1, <3>2
  <2> QED
    BY <1>6, <2>1
<1> DEFINE F == CHOOSE f : Folds(f)
<1>8. Folds(F)
  BY <1>7
<1>9. LoadFrom(base, w) = F[1..n]
  BY <1>1 DEF LoadFrom, FoldLeft, MapThenFoldSet
<1> HIDE DEF F
<1>10. \A t \in SUBSET (1..n) :
        F[t] = IF t = {} THEN base ELSE Reads(base, F[t \ {Max(t)}], w[Max(t)])
  BY <1>8 DEF Reads
<1> DEFINE got == [k \in 0..n |-> F[1..k]]
<1>11. 1..0 = {} /\ F[{}] = base
  <2>1. {} \in SUBSET (1..n)
    OBVIOUS
  <2>2. F[{}] = base
    BY <1>10, <2>1
  <2> QED
    BY <2>2
<1>12. got[0] = base
  BY <1>1, <1>11
<1>13. ASSUME NEW k \in 1..n PROVE got[k] = Reads(base, got[k - 1], w[k])
  <2>1. /\ 1..k \in SUBSET (1..n) /\ 1..k # {} /\ Max(1..k) = k
        /\ (1..k) \ {Max(1..k)} = 1..k - 1
    BY <1>1, FoldSteps
  <2>2. F[1..k] = Reads(base, F[1..k - 1], w[k])
    BY <1>10, <2>1
  <2>3. k \in 0..n /\ k - 1 \in 0..n
    BY <1>1
  <2> QED
    BY <2>2, <2>3
<1> HIDE DEF got
<1> DEFINE S == {i \in Nat : i <= n => got[i] \in V}
<1>14. ASSUME NEW k \in Nat, k \in S PROVE k + 1 \in S
  <2> SUFFICES ASSUME k + 1 <= n PROVE got[k + 1] \in V
    OBVIOUS
  <2>1. k + 1 \in 1..n /\ (k + 1) - 1 = k /\ got[k] \in V /\ w[k + 1] \in Line
    BY <1>1, <1>14
  <2>2. got[k + 1] = Reads(base, got[k], w[k + 1])
    BY <1>13, <2>1
  <2> QED
    BY <2>1, <2>2, ReadsTyped DEF V
<1>15. \A k \in 0..n : got[k] \in V
  <2>1. 0 \in S
    BY <1>4, <1>12
  <2>2. Nat \subseteq S
    <3> HIDE DEF S
    <3> QED
      BY <1>14, <2>1, NumbersInduct
  <2> QED
    BY <1>1, <2>2
<1>16. got \in [0..n -> V] /\ got[n] = F[1..n]
  BY <1>1, <1>15 DEF got
<1> QED
  BY <1>9, <1>12, <1>13, <1>16 DEF V, n

\* A load goes through the lines in their order, and passes over what is no news.
LEMMA LoadGoesOn ==
  ASSUME NEW base \in AnyDoc
  PROVE  /\ LoadFrom(base, << >>) = base
         /\ \A s \in Seq(Line), x \in Line :
              LoadFrom(base, Append(s, x)) = Reads(base, LoadFrom(base, s), x)
         /\ \A s \in Seq(Line) : LoadFrom(base, s) \in AnyDoc
         /\ \A s \in Seq(Line) :
              (\A i \in 1..Len(s) : ~IsNews(base, s[i])) => LoadFrom(base, s) = base
<1>1. LoadFrom(base, << >>) = base
  <2>1. PICK s : s = << >>
    OBVIOUS
  <2>2. s \in Seq(Line) /\ Len(s) = 0
    BY <2>1
  <2>3. \E got \in [0..Len(s) -> AnyDoc] : LoadFrom(base, s) = got[Len(s)] /\ got[0] = base
    BY <2>2, LoadFolded
  <2> QED
    BY <2>1, <2>2, <2>3
<1>2. ASSUME NEW s \in Seq(Line), NEW x \in Line
      PROVE  LoadFrom(base, Append(s, x)) = Reads(base, LoadFrom(base, s), x)
  <2>1. PICK one \in [0..Len(s) -> AnyDoc] :
           /\ LoadFrom(base, s) = one[Len(s)]
           /\ one[0] = base
           /\ \A k \in 1..Len(s) : one[k] = Reads(base, one[k - 1], s[k])
    BY LoadFolded
  <2> DEFINE t == Append(s, x)
             n == Len(s)
  <2>2. /\ t \in Seq(Line) /\ n \in Nat /\ Len(t) = n + 1 /\ t[n + 1] = x
        /\ \A i \in 1..n : t[i] = s[i] /\ i \in 1..n + 1
    OBVIOUS
  <2> HIDE DEF t
  <2>3. PICK two \in [0..n + 1 -> AnyDoc] :
           /\ LoadFrom(base, t) = two[n + 1]
           /\ two[0] = base
           /\ \A k \in 1..n + 1 : two[k] = Reads(base, two[k - 1], t[k])
    BY <2>2, LoadFolded
  <2> DEFINE S == {k \in Nat : k <= n => one[k] = two[k]}
  <2>4. 0 \in S
    BY <2>1, <2>3
  <2>5. ASSUME NEW k \in Nat, k \in S PROVE k + 1 \in S
    <3> SUFFICES ASSUME k + 1 <= n PROVE one[k + 1] = two[k + 1]
      OBVIOUS
    <3>1. k + 1 \in 1..n /\ (k + 1) - 1 = k /\ one[k] = two[k]
      BY <2>2, <2>5
    <3> QED
      BY <2>1, <2>2, <2>3, <3>1
  <2> HIDE DEF S
  <2>6. n \in S
    BY <2>2, <2>4, <2>5, NumbersInduct
  <2>7. one[n] = two[n] /\ n + 1 \in 1..n + 1 /\ (n + 1) - 1 = n
    BY <2>2, <2>6 DEF S
  <2> QED
    BY <2>1, <2>2, <2>3, <2>7 DEF t
<1>3. ASSUME NEW s \in Seq(Line) PROVE LoadFrom(base, s) \in AnyDoc
  <2>1. PICK got \in [0..Len(s) -> AnyDoc] : LoadFrom(base, s) = got[Len(s)]
    BY LoadFolded
  <2>2. Len(s) \in 0..Len(s)
    OBVIOUS
  <2> QED
    BY <2>1, <2>2
<1>4. ASSUME NEW s \in Seq(Line), \A i \in 1..Len(s) : ~IsNews(base, s[i])
      PROVE  LoadFrom(base, s) = base
  <2> DEFINE n == Len(s)
  <2>1. PICK got \in [0..n -> AnyDoc] :
           /\ LoadFrom(base, s) = got[n]
           /\ got[0] = base
           /\ \A k \in 1..n : got[k] = Reads(base, got[k - 1], s[k])
    BY LoadFolded
  <2>2. n \in Nat
    OBVIOUS
  <2> DEFINE S == {k \in Nat : k <= n => got[k] = base}
  <2>3. 0 \in S
    BY <2>1
  <2>4. ASSUME NEW k \in Nat, k \in S PROVE k + 1 \in S
    <3> SUFFICES ASSUME k + 1 <= n PROVE got[k + 1] = base
      OBVIOUS
    <3>1. k + 1 \in 1..n /\ (k + 1) - 1 = k /\ got[k] = base
      BY <2>2, <2>4
    <3> QED
      BY <1>4, <2>1, <3>1 DEF Reads
  <2> HIDE DEF S
  <2>5. n \in S
    BY <2>2, <2>3, <2>4, NumbersInduct
  <2> QED
    BY <2>1, <2>2, <2>5 DEF S
<1> QED
  BY <1>1, <1>2, <1>3, <1>4

\* The last number of a log, and that of one more line.
LEMMA LastSeqIs ==
  ASSUME NEW s \in Seq(Line)
  PROVE  /\ LastSeq(s) \in Nat
         /\ \A i \in 1..Len(s) : s[i].seq <= LastSeq(s)
         /\ LastSeq(s) = 0 \/ \E i \in 1..Len(s) : s[i].seq = LastSeq(s)
<1> DEFINE n == Len(s)
           Greatest(k, m) == /\ m = 0 \/ \E i \in 1..k : s[i].seq = m
                             /\ \A i \in 1..k : s[i].seq <= m
           S == {k \in Nat : k <= n => \E m \in Nat : Greatest(k, m)}
<1>1. n \in Nat /\ DOMAIN s = 1..n /\ \A i \in 1..n : s[i].seq \in Nat
  BY DEF Line, Torn
<1>2. 0 \in S
  <2>1. Greatest(0, 0)
    OBVIOUS
  <2> QED
    BY <2>1
<1>3. ASSUME NEW k \in Nat, k \in S PROVE k + 1 \in S
  <2> SUFFICES ASSUME k + 1 <= n PROVE \E m \in Nat : Greatest(k + 1, m)
    OBVIOUS
  <2>1. PICK m \in Nat : Greatest(k, m)
    BY <1>1, <1>3
  <2>2. CASE s[k + 1].seq <= m
    <3>1. Greatest(k + 1, m)
      BY <1>1, <2>1, <2>2
    <3> QED
      BY <3>1
  <2>3. CASE ~(s[k + 1].seq <= m)
    <3>1. s[k + 1].seq \in Nat /\ \A i \in 1..k : s[i].seq <= s[k + 1].seq
      BY <1>1, <2>1, <2>3
    <3>2. Greatest(k + 1, s[k + 1].seq)
      BY <1>1, <3>1
    <3> QED
      BY <3>1, <3>2
  <2> QED
    BY <2>2, <2>3
<1>4. n \in S
  <2> HIDE DEF S
  <2> QED
    BY <1>1, <1>2, <1>3, NumbersInduct
<1>5. PICK m \in Nat : Greatest(n, m)
  BY <1>1, <1>4
<1> DEFINE T == {0} \cup {entry.seq : entry \in Range(s)}
<1>6. \A x : x \in T <=> x = 0 \/ \E i \in 1..n : x = s[i].seq
  BY <1>1 DEF Range
<1>7. m \in T /\ \A x \in T : m >= x
  <2> HIDE DEF T
  <2>1. m \in T
    BY <1>5, <1>6
  <2>2. ASSUME NEW x \in T PROVE m >= x
    BY <1>1, <1>5, <1>6
  <2> QED
    BY <2>1, <2>2
<1>8. Max(T) \in T /\ \A x \in T : Max(T) >= x
  <2> HIDE DEF T
  <2> QED
    BY <1>7 DEF Max
<1>9. LastSeq(s) = Max(T)
  BY DEF LastSeq
<1> HIDE DEF T
<1> QED
  BY <1>1, <1>6, <1>8, <1>9

LEMMA LastSeqGrows ==
  ASSUME NEW s \in Seq(Line), NEW x \in Line
  PROVE  LastSeq(Append(s, x)) = IF x.seq > LastSeq(s) THEN x.seq ELSE LastSeq(s)
<1> DEFINE t == Append(s, x)
           n == Len(s)
<1>1. /\ t \in Seq(Line) /\ n \in Nat /\ Len(t) = n + 1 /\ t[n + 1] = x
      /\ \A i \in 1..n : t[i] = s[i] /\ i \in 1..n + 1
  OBVIOUS
<1> HIDE DEF t
<1>2. /\ LastSeq(t) \in Nat /\ LastSeq(s) \in Nat /\ x.seq \in Nat
      /\ \A i \in 1..n + 1 : t[i].seq <= LastSeq(t)
      /\ LastSeq(t) = 0 \/ \E i \in 1..n + 1 : t[i].seq = LastSeq(t)
      /\ \A i \in 1..n : s[i].seq <= LastSeq(s)
      /\ LastSeq(s) = 0 \/ \E i \in 1..n : s[i].seq = LastSeq(s)
  BY <1>1, LastSeqIs DEF Line, Torn
<1>3. x.seq <= LastSeq(t) /\ LastSeq(s) <= LastSeq(t)
  BY <1>1, <1>2
<1>4. LastSeq(t) = x.seq \/ LastSeq(t) <= LastSeq(s)
  <2>1. CASE LastSeq(t) = 0
    BY <1>2, <2>1
  <2>2. ASSUME NEW i \in 1..n + 1, t[i].seq = LastSeq(t) PROVE LastSeq(t) = x.seq \/ LastSeq(t) <= LastSeq(s)
    BY <1>1, <1>2, <2>2
  <2> QED
    BY <1>2, <2>1, <2>2
<1> QED
  BY <1>2, <1>3, <1>4 DEF t

(******************************* The invariant ******************************)

\* Losing the snapshot of a log that starts its run loses nothing.
Rebuilt == LogStartsRun => LoadFrom(NoRun, log) = Loaded

\* A mutation holds the lock and the document its transaction has led to so far.
Mutating(p) ==
  /\ lock = p /\ op[p].doc \in RunDoc /\ Loaded \in RunDoc
  /\ ~op[p].start => op[p].doc = Loaded
  /\ op[p].at = "append" => op[p].left > 0
  /\ op[p].at = "save" => ~op[p].start /\ op[p].doc.seq = LastSeq(log)

StoreInv ==
  /\ StoreTypeOK
  /\ snapshot \in RunDoc \cup {NoRun} /\ snapshot.seq <= LastSeq(log)
  /\ IF snapshot = NoRun /\ log = << >> THEN Loaded = NoRun ELSE Loaded \in RunDoc
  /\ snapshot = NoRun => log = << >> \/ LogStartsRun
  /\ Rebuilt
  /\ \A p \in Processes : op[p].at # "idle" => Mutating(p)

LEMMA StoreInitially == StoreInit => StoreInv
<1> SUFFICES ASSUME StoreInit PROVE StoreInv
  OBVIOUS
<1>1. << >> \in Seq(Line) /\ Len(<< >>) = 0
  OBVIOUS
<1>2. LastSeq(log) = 0
  <2>1. PICK s : s = log
    OBVIOUS
  <2>2. s \in Seq(Line) /\ Len(s) = 0
    BY <1>1, <2>1 DEF StoreInit
  <2>3. \A i \in 1..Len(s) : FALSE
    BY <2>2
  <2>4. LastSeq(s) = 0
    BY <2>2, <2>3, LastSeqIs
  <2> QED
    BY <2>1, <2>4
<1>3. Loaded = NoRun
  BY LoadGoesOn DEF StoreInit, Loaded, AnyDoc
<1>4. ~LogStartsRun
  BY DEF StoreInit, LogStartsRun
<1>5. Idle \in [at : {"idle", "append", "save"}, doc : Doc \cup {NoRun}, left : 0..MaxBatch,
                start : BOOLEAN]
  BY SizeAssumption DEF Idle
<1>6. StoreTypeOK
  <2>1. 0 \in 0..MaxEvents
    BY SizeAssumption
  <2> HIDE DEF Idle, NoRun, Doc
  <2>2. op \in [Processes -> [at : {"idle", "append", "save"}, doc : Doc \cup {NoRun},
                              left : 0..MaxBatch, start : BOOLEAN]]
    BY <1>5 DEF StoreInit
  <2> QED
    BY <1>1, <2>1, <2>2 DEF StoreInit, StoreTypeOK
<1>7. snapshot.seq <= LastSeq(log)
  BY <1>2, DocsApart DEF StoreInit
<1>8. \A p \in Processes : op[p].at = "idle"
  BY DEF StoreInit, Idle
<1> QED
  BY <1>3, <1>4, <1>6, <1>7, <1>8 DEF StoreInit, StoreInv, Rebuilt

\* Whether the log starts the run with one more line.
LEMMA StartsWith ==
  ASSUME log \in Seq(Line), NEW x \in Line, log' = Append(log, x)
  PROVE  LogStartsRun' <=> \/ LogStartsRun
                           \/ x # Torn /\ x.start /\ \A i \in 1..Len(log) : log[i] = Torn
<1> DEFINE n == Len(log)
<1>1. /\ log' \in Seq(Line) /\ n \in Nat /\ DOMAIN log = 1..n /\ DOMAIN log' = 1..n + 1
      /\ log'[n + 1] = x /\ \A i \in 1..n : log'[i] = log[i]
  OBVIOUS
<1> HIDE DEF n
<1>2. ASSUME LogStartsRun PROVE LogStartsRun'
  <2>1. PICK i \in 1..n : log[i] # Torn /\ log[i].start /\ \A j \in 1..i - 1 : log[j] = Torn
    BY <1>1, <1>2 DEF LogStartsRun
  <2>2. i \in 1..n + 1 /\ log'[i] # Torn /\ log'[i].start /\ \A j \in 1..i - 1 : log'[j] = Torn
    BY <1>1, <2>1
  <2> QED
    BY <1>1, <2>2 DEF LogStartsRun
<1>3. ASSUME x # Torn, x.start, \A i \in 1..n : log[i] = Torn PROVE LogStartsRun'
  <2>1. n + 1 \in 1..n + 1 /\ log'[n + 1] # Torn /\ log'[n + 1].start
        /\ \A j \in 1..(n + 1) - 1 : log'[j] = Torn
    BY <1>1, <1>3
  <2> QED
    BY <1>1, <2>1 DEF LogStartsRun
<1>4. ASSUME LogStartsRun', ~LogStartsRun
      PROVE  x # Torn /\ x.start /\ \A i \in 1..n : log[i] = Torn
  <2>1. PICK i \in 1..n + 1 : log'[i] # Torn /\ log'[i].start /\ \A j \in 1..i - 1 : log'[j] = Torn
    BY <1>1, <1>4 DEF LogStartsRun
  <2>2. i \notin 1..n
    <3> SUFFICES ASSUME i \in 1..n PROVE FALSE
      OBVIOUS
    <3>1. log[i] # Torn /\ log[i].start /\ \A j \in 1..i - 1 : log[j] = Torn
      BY <1>1, <2>1
    <3> QED
      BY <1>1, <1>4, <3>1 DEF LogStartsRun
  <2>3. i = n + 1
    BY <1>1, <2>2
  <2> QED
    BY <1>1, <2>1, <2>3
<1> QED
  BY <1>2, <1>3, <1>4 DEF n

\* A fragment changes nothing for a reader.
LEMMA FragmentUnread ==
  ASSUME StoreInv, log' = Append(log, Torn), snapshot' = snapshot
  PROVE  /\ log' \in Seq(Line) /\ log' # << >> /\ Loaded' = Loaded /\ LastSeq(log') = LastSeq(log)
         /\ (LogStartsRun' <=> LogStartsRun) /\ Rebuilt'
<1>1. log \in Seq(Line) /\ Torn \in Line /\ snapshot \in AnyDoc /\ NoRun \in AnyDoc
  BY DEF StoreInv, StoreTypeOK, Line, AnyDoc
<1>2. log' \in Seq(Line) /\ log' # << >>
  BY <1>1
<1>3. \A b \in AnyDoc : LoadFrom(b, log') = LoadFrom(b, log)
  BY <1>1, LoadGoesOn DEF Reads, IsNews
<1>4. LastSeq(log') = LastSeq(log)
  <2>1. Torn.seq = 0 /\ LastSeq(log) \in Nat
    BY <1>1, LastSeqIs DEF Torn
  <2> QED
    BY <1>1, <2>1, LastSeqGrows
<1>5. LogStartsRun' <=> LogStartsRun
  BY <1>1, StartsWith
<1>6. Loaded' = Loaded
  BY <1>1, <1>3 DEF Loaded
<1> QED
  BY <1>1, <1>2, <1>3, <1>4, <1>5, <1>6 DEF StoreInv, Rebuilt

\* The next event of a mutation reaches every reader.
LEMMA EventRead ==
  ASSUME StoreInv, NEW p \in Processes, CanWrite(p), log' = Append(log, NextEvent(p)),
         snapshot' = snapshot
  PROVE  /\ log' \in Seq(Line) /\ log' # << >> /\ NextEvent(p) \in Line \ {Torn}
         /\ NextEvent(p).id \in Event /\ NextEvent(p).start = op[p].start
         /\ LastSeq(log') = LastSeq(log) + 1
         /\ Loaded' \in RunDoc /\ Loaded'.seq = LastSeq(log')
         /\ Loaded'.applied = IF op[p].start THEN <<NextEvent(p).id>>
                              ELSE Append(Loaded.applied, NextEvent(p).id)
         /\ Apply(op[p].doc, NextEvent(p)) = Loaded' /\ Rebuilt'
         /\ (LogStartsRun => LogStartsRun')
<1> DEFINE e == NextEvent(p)
<1>1. /\ log \in Seq(Line) /\ snapshot \in AnyDoc /\ NoRun \in AnyDoc /\ issued \in 0..MaxEvents
      /\ snapshot.seq <= LastSeq(log) /\ op[p].start \in BOOLEAN
      /\ op[p].doc \in RunDoc /\ Loaded \in RunDoc /\ (~op[p].start => op[p].doc = Loaded)
      /\ (~op[p].start => issued < MaxEvents) /\ (snapshot.seq \in Int)
  BY DocsApart DEF StoreInv, StoreTypeOK, AnyDoc, Mutating, CanWrite
<1>2. LastSeq(log) \in Nat
  BY <1>1, LastSeqIs
<1>3. e.seq = LastSeq(log) + 1 /\ e.start = op[p].start
      /\ e.id = IF op[p].start THEN op[p].doc.applied[1] ELSE issued + 1
  BY DEF NextEvent
<1>4. e.id \in Event
  <2>1. CASE op[p].start
    <3>1. op[p].doc.applied \in Seq(Event) /\ op[p].doc.applied # << >>
      BY <1>1, DocsApart
    <3> QED
      BY <1>3, <2>1, <3>1
  <2>2. CASE ~op[p].start
    BY <1>1, <1>3, <2>2, SizeAssumption DEF Event
  <2> QED
    BY <2>1, <2>2
<1>5. e \in Line \ {Torn}
  <2>1. e \in [seq : Nat, id : Event, start : BOOLEAN]
    BY <1>1, <1>2, <1>3, <1>4 DEF NextEvent
  <2> QED
    BY <1>2, <1>3, <2>1 DEF Line, Torn
<1> HIDE DEF e
<1>6. /\ log' = Append(log, e) /\ log' \in Seq(Line) /\ log' # << >>
  <2>1. log' = Append(log, e)
    BY DEF e
  <2> QED
    BY <1>1, <1>5, <2>1
<1>7. LastSeq(log') = LastSeq(log) + 1
  BY <1>1, <1>2, <1>3, <1>5, <1>6, LastSeqGrows
<1>8. ASSUME NEW b \in AnyDoc, b.seq <= LastSeq(log), b.seq \in Int
      PROVE  LoadFrom(b, log') = Apply(LoadFrom(b, log), e)
  <2>1. IsNews(b, e)
    BY <1>2, <1>3, <1>5, <1>8 DEF IsNews
  <2> QED
    BY <1>1, <1>5, <1>6, <2>1, LoadGoesOn DEF Reads
<1>9. Loaded' = Apply(Loaded, e)
  BY <1>1, <1>8 DEF Loaded
<1>10. /\ Loaded' \in RunDoc /\ Loaded'.seq = e.seq
       /\ Loaded'.applied = IF e.start THEN <<e.id>> ELSE Append(Loaded.applied, e.id)
  BY <1>1, <1>5, <1>9, ApplyTyped DEF AnyDoc
<1>11. Apply(op[p].doc, e) = Loaded'
  <2>1. CASE op[p].start
    <3>1. \A d \in RunDoc : Apply(d, e) = [seq |-> e.seq, applied |-> <<e.id>>]
      BY <1>3, <1>5, <2>1, ApplyTyped, DocsApart DEF AnyDoc
    <3> QED
      BY <1>1, <1>9, <3>1
  <2>2. CASE ~op[p].start
    BY <1>1, <1>9, <2>2
  <2> QED
    BY <1>1, <2>1, <2>2
<1>12. Rebuilt'
  <2> SUFFICES ASSUME LogStartsRun' PROVE LoadFrom(NoRun, log') = Loaded'
    BY DEF Rebuilt
  <2>1. LoadFrom(NoRun, log') = Apply(LoadFrom(NoRun, log), e)
    BY <1>1, <1>2, <1>8, DocsApart
  <2>2. CASE LogStartsRun
    BY <1>9, <2>1, <2>2 DEF StoreInv, Rebuilt
  <2>3. CASE e.start /\ \A i \in 1..Len(log) : log[i] = Torn
    <3>1. LoadFrom(NoRun, log) = NoRun
      BY <1>1, <2>3, LoadGoesOn DEF IsNews
    <3>2. Apply(NoRun, e) = [seq |-> e.seq, applied |-> <<e.id>>]
      BY <1>1, <1>5, <2>3, ApplyTyped, DocsApart
    <3>3. Apply(Loaded, e) = [seq |-> e.seq, applied |-> <<e.id>>]
      BY <1>1, <1>5, <2>3, ApplyTyped, DocsApart DEF AnyDoc
    <3> QED
      BY <1>9, <2>1, <3>1, <3>2, <3>3
  <2> QED
    BY <1>1, <1>5, <1>6, <2>2, <2>3, StartsWith
<1>13. LogStartsRun => LogStartsRun'
  BY <1>1, <1>5, <1>6, StartsWith
<1> QED
  BY <1>3, <1>4, <1>5, <1>6, <1>7, <1>10, <1>11, <1>12, <1>13 DEF e

(******************************** The steps *********************************)

Mutations == [at : {"idle", "append", "save"}, doc : Doc \cup {NoRun}, left : 0..MaxBatch,
              start : BOOLEAN]

\* Nobody but the lock's holder is in the middle of a mutation.
LEMMA Holder ==
  ASSUME StoreInv, NEW p \in Processes, op[p].at # "idle"
  PROVE  \A q \in Processes \ {p} : op[q].at = "idle"
BY DEF StoreInv, Mutating

LEMMA IdleTyped == Idle \in Mutations /\ Idle.at = "idle"
BY SizeAssumption DEF Idle, Mutations

\* A mutation's end leaves nobody in the middle of one.
LEMMA MutationEnds ==
  ASSUME StoreInv, NEW p \in Processes, op[p].at # "idle", EndMutation(p)
  PROVE  /\ lock' \in Processes \cup {NoProcess}
         /\ op' \in [Processes -> Mutations]
         /\ \A q \in Processes : op'[q].at = "idle"
<1>1. op \in [Processes -> Mutations]
  BY DEF StoreInv, StoreTypeOK, Mutations
<1>2. op'[p] = Idle /\ \A q \in Processes \ {p} : op'[q] = op[q]
  BY <1>1 DEF EndMutation
<1> QED
  BY <1>1, <1>2, Holder, IdleTyped DEF EndMutation

\* Where the files and what they hold stay, the invariant needs the mutations only.
LEMMA FilesStay ==
  ASSUME StoreInv, UNCHANGED <<snapshot, log, unended>>, issued' \in 0..MaxEvents,
         lock' \in Processes \cup {NoProcess}, op' \in [Processes -> Mutations],
         \A q \in Processes : op'[q].at # "idle" => Mutating(q)'
  PROVE  StoreInv' /\ Loaded' = Loaded
<1>1. Loaded' = Loaded /\ (LogStartsRun' <=> LogStartsRun) /\ LastSeq(log') = LastSeq(log)
  BY DEF Loaded, LogStartsRun
<1>2. Rebuilt'
  BY <1>1 DEF StoreInv, Rebuilt
<1>3. StoreTypeOK'
  BY DEF StoreInv, StoreTypeOK, Mutations
<1> QED
  BY <1>1, <1>2, <1>3 DEF StoreInv

LEMMA NobodyLocked ==
  ASSUME StoreInv, Unlocked PROVE \A q \in Processes : op[q].at = "idle"
BY ProcessAssumption DEF StoreInv, Mutating, Unlocked

\* A mutation that begins, its document loaded or new.
LEMMA Begun ==
  ASSUME StoreInv, Unlocked, NEW p \in Processes, NEW doc \in RunDoc, NEW n \in 1..MaxBatch,
         NEW start \in BOOLEAN, Begin(p, doc, n, start), Loaded' \in RunDoc,
         ~start => doc = Loaded'
  PROVE  /\ lock' \in Processes \cup {NoProcess}
         /\ op' \in [Processes -> Mutations]
         /\ \A q \in Processes : op'[q].at # "idle" => Mutating(q)'
<1>1. op \in [Processes -> Mutations]
  BY DEF StoreInv, StoreTypeOK, Mutations
<1>2. /\ op'[p] = [at |-> "append", doc |-> doc, left |-> n, start |-> start]
      /\ \A q \in Processes \ {p} : op'[q] = op[q]
      /\ DOMAIN op' = Processes /\ op' = [q \in Processes |-> op'[q]]
  BY <1>1 DEF Begin
<1>3. op'[p] \in Mutations
  <2>1. n \in 0..MaxBatch /\ doc \in Doc \cup {NoRun}
    BY SizeAssumption DEF RunDoc
  <2> QED
    BY <1>2, <2>1 DEF Mutations
<1>4. op' \in [Processes -> Mutations]
  BY <1>1, <1>2, <1>3
<1>5. Mutating(p)'
  BY <1>2 DEF Mutating, Begin
<1> QED
  BY <1>2, <1>4, <1>5, NobodyLocked DEF Begin

LEMMA NewDoc ==
  ASSUME NEW e \in Event
  PROVE  /\ [seq |-> 0, applied |-> <<e>>] \in RunDoc
         /\ [seq |-> 0, applied |-> <<e>>].seq = 0
<1>1. <<e>> \in Seq(Event) /\ Len(<<e>>) = 1
  OBVIOUS
<1>2. <<e>> # << >>
  BY <1>1
<1> QED
  BY <1>1, <1>2 DEF RunDoc, Doc

LEMMA NextIsEvent == issued \in 0..MaxEvents /\ issued < MaxEvents => issued + 1 \in Event
BY SizeAssumption DEF Event

LEMMA CreateStores ==
  ASSUME StoreInv, NEW p \in Processes, NEW n \in 1..MaxBatch, Create(p, n)
  PROVE  StoreInv' /\ Stored!Next
<1> DEFINE d == [seq |-> 0, applied |-> <<issued + 1>>]
<1>1. /\ issued \in 0..MaxEvents /\ issued + 1 \in Event /\ issued' = issued + 1
      /\ issued + 1 \in 0..MaxEvents
  BY NextIsEvent, SizeAssumption DEF StoreInv, StoreTypeOK, Create
<1>2. d \in RunDoc /\ d.seq = 0 /\ d.applied = <<issued + 1>>
  BY <1>1, NewDoc
<1>3. snapshot' = d /\ snapshot = NoRun /\ log = << >> /\ log' = log /\ Unlocked /\ unended' = unended
      /\ Begin(p, d, n, TRUE)
  BY DEF Create
<1> HIDE DEF d
<1>4. Loaded = NoRun
  BY <1>3 DEF StoreInv
<1>5. Loaded' = d
  BY <1>2, <1>3, LoadGoesOn DEF Loaded, AnyDoc
<1>6. /\ lock' \in Processes \cup {NoProcess} /\ op' \in [Processes -> Mutations]
      /\ \A q \in Processes : op'[q].at # "idle" => Mutating(q)'
  BY <1>2, <1>3, <1>5, Begun
<1>7. ~LogStartsRun'
  BY <1>3 DEF LogStartsRun
<1>8. LastSeq(log') \in Nat
  BY <1>3, LastSeqIs DEF StoreInv, StoreTypeOK
<1>9. StoreInv'
  <2>1. StoreTypeOK'
    BY <1>1, <1>2, <1>3, <1>6 DEF StoreInv, StoreTypeOK, Mutations, RunDoc
  <2>2. snapshot'.seq <= LastSeq(log')
    BY <1>2, <1>3, <1>8
  <2>3. snapshot' # NoRun /\ snapshot' \in RunDoc
    BY <1>2, <1>3, DocsApart
  <2> QED
    BY <1>2, <1>5, <1>6, <1>7, <2>1, <2>2, <2>3 DEF StoreInv, Rebuilt
<1>10. Stored!Create
  <2>1. IsRun(d) /\ ~IsRun(NoRun)
    BY <1>2, DocsApart
  <2> QED
    BY <1>1, <1>2, <1>4, <1>5, <2>1 DEF Stored!Create, IsRun
<1> QED
  BY <1>9, <1>10 DEF Stored!Next

LEMMA MutateStores ==
  ASSUME StoreInv, NEW p \in Processes, NEW n \in 1..MaxBatch, Mutate(p, n)
  PROVE  StoreInv' /\ Loaded' = Loaded
<1>1. Loaded \in RunDoc /\ Loaded' = Loaded
  BY DocsApart DEF StoreInv, Mutate, Loaded
<1>2. Unlocked /\ Begin(p, Loaded, n, FALSE) /\ UNCHANGED <<snapshot, log, unended, issued>>
  BY DEF Mutate
<1>3. /\ lock' \in Processes \cup {NoProcess} /\ op' \in [Processes -> Mutations]
      /\ \A q \in Processes : op'[q].at # "idle" => Mutating(q)'
  BY <1>1, <1>2, Begun
<1>4. issued' \in 0..MaxEvents
  BY <1>2 DEF StoreInv, StoreTypeOK
<1> QED
  BY <1>2, <1>3, <1>4, FilesStay

LEMMA ReplaceStores ==
  ASSUME StoreInv, NEW p \in Processes, NEW n \in 1..MaxBatch, Replace(p, n)
  PROVE  StoreInv' /\ Loaded' = Loaded
<1> DEFINE d == [seq |-> 0, applied |-> <<issued + 1>>]
<1>1. Loaded \in RunDoc /\ Loaded' = Loaded
  BY DocsApart DEF StoreInv, Replace, Loaded
<1>2. /\ issued \in 0..MaxEvents /\ issued + 1 \in Event /\ issued' \in 0..MaxEvents
  BY NextIsEvent, SizeAssumption DEF StoreInv, StoreTypeOK, Replace
<1>3. Unlocked /\ Begin(p, d, n, TRUE) /\ UNCHANGED <<snapshot, log, unended>> /\ d \in RunDoc
  BY <1>2, NewDoc DEF Replace
<1> HIDE DEF d
<1>4. /\ lock' \in Processes \cup {NoProcess} /\ op' \in [Processes -> Mutations]
      /\ \A q \in Processes : op'[q].at # "idle" => Mutating(q)'
  BY <1>1, <1>3, Begun
<1> QED
  BY <1>2, <1>3, <1>4, FilesStay

\* What every reader sees once a mutation's next event is on a line of its own.
LEMMA EventIsNext ==
  ASSUME StoreInv, NEW p \in Processes, CanWrite(p), log' = Append(log, NextEvent(p)),
         snapshot' = snapshot
  PROVE  Stored!Next
<1> DEFINE e == NextEvent(p)
<1>1. /\ e.id \in Event /\ Loaded' \in RunDoc
      /\ Loaded'.applied = IF op[p].start THEN <<e.id>> ELSE Append(Loaded.applied, e.id)
  BY EventRead
<1>2. Loaded \in RunDoc
  BY DEF StoreInv, CanWrite, Mutating
<1>3. /\ IsRun(Loaded) /\ Loaded.applied # << >> /\ IsRun(Loaded')
  BY <1>1, <1>2, DocsApart
<1> HIDE DEF e
<1>4. (IF IsRun(Loaded) THEN Loaded.applied ELSE << >>)' = Loaded'.applied
  BY <1>3 DEF IsRun
<1>5. CASE op[p].start
  BY <1>1, <1>3, <1>4, <1>5 DEF Stored!Next, Stored!Replan
<1>6. CASE ~op[p].start
  BY <1>1, <1>3, <1>4, <1>6 DEF Stored!Next, Stored!Write
<1> QED
  BY <1>5, <1>6

LEMMA IssueTyped ==
  ASSUME StoreInv, NEW p \in Processes, CanWrite(p), Issue(p) PROVE issued' \in 0..MaxEvents
BY SizeAssumption DEF StoreInv, StoreTypeOK, CanWrite, Issue

LEMMA AppendEventStores ==
  ASSUME StoreInv, NEW p \in Processes, AppendEvent(p)
  PROVE  StoreInv' /\ Stored!Next
<1> DEFINE e == NextEvent(p)
<1>1. /\ CanWrite(p) /\ log' = Append(log, e) /\ snapshot' = snapshot /\ unended' = FALSE
      /\ lock' = lock /\ issued' \in 0..MaxEvents
  BY IssueTyped DEF AppendEvent, AddLine
<1>2. op \in [Processes -> Mutations] /\ op[p].at = "append"
  BY <1>1 DEF StoreInv, StoreTypeOK, Mutations, CanWrite
<1>3. /\ log' \in Seq(Line) /\ log' # << >> /\ LastSeq(log') = LastSeq(log) + 1
      /\ Loaded' \in RunDoc /\ Loaded'.seq = LastSeq(log')
      /\ Apply(op[p].doc, e) = Loaded' /\ Rebuilt' /\ (LogStartsRun => LogStartsRun')
  BY <1>1, EventRead
<1>4. op' = [op EXCEPT ![p] = [at |-> IF op[p].left = 1 THEN "save" ELSE "append",
                               doc |-> Apply(op[p].doc, e), left |-> op[p].left - 1,
                               start |-> FALSE]]
  BY DEF AppendEvent
<1> HIDE DEF e
<1>5. /\ op'[p] = [at |-> IF op[p].left = 1 THEN "save" ELSE "append", doc |-> Loaded',
                   left |-> op[p].left - 1, start |-> FALSE]
      /\ \A q \in Processes \ {p} : op'[q] = op[q]
      /\ op' \in [Processes -> {op'[q] : q \in Processes}]
  BY <1>2, <1>3, <1>4
<1>6. op[p].left \in 1..MaxBatch /\ lock = p
  BY <1>2 DEF StoreInv, Mutating, Mutations
<1>7. op'[p] \in Mutations
  <2>1. op[p].left - 1 \in 0..MaxBatch
    BY <1>6, SizeAssumption
  <2> QED
    BY <1>3, <1>5, <2>1 DEF Mutations, RunDoc
<1>8. op' \in [Processes -> Mutations]
  BY <1>2, <1>5, <1>7
<1>9. Mutating(p)'
  BY <1>1, <1>3, <1>5, <1>6, SizeAssumption DEF Mutating
<1>10. \A q \in Processes : op'[q].at # "idle" => Mutating(q)'
  BY <1>2, <1>5, <1>9, Holder
<1>11. StoreInv'
  <2>1. StoreTypeOK'
    BY <1>1, <1>3, <1>8 DEF StoreInv, StoreTypeOK, Mutations
  <2>2. snapshot'.seq <= LastSeq(log')
    <3>1. snapshot.seq \in Int /\ LastSeq(log) \in Nat /\ snapshot.seq <= LastSeq(log)
      BY DocsApart, LastSeqIs DEF StoreInv, StoreTypeOK
    <3> QED
      BY <1>1, <1>3, <3>1
  <2>3. snapshot' = NoRun => LogStartsRun'
    <3>1. log = << >> /\ snapshot = NoRun => Loaded = NoRun
      BY DEF StoreInv
    <3>2. Loaded # NoRun
      BY <1>2, DocsApart DEF StoreInv, Mutating
    <3> QED
      BY <1>1, <1>3, <3>1, <3>2 DEF StoreInv
  <2> QED
    BY <1>1, <1>3, <1>10, <2>1, <2>2, <2>3 DEF StoreInv
<1> QED
  BY <1>1, <1>11, EventIsNext DEF e

\* A log that has grown while its mutation ended.
LEMMA GrownLog ==
  ASSUME StoreInv, NEW p \in Processes, CanWrite(p), EndMutation(p), snapshot' = snapshot,
         unended' \in BOOLEAN, issued' \in 0..MaxEvents, log' \in Seq(Line), log' # << >>,
         LastSeq(log') >= LastSeq(log), Loaded' \in RunDoc, Rebuilt',
         LogStartsRun => LogStartsRun'
  PROVE  StoreInv'
<1>1. op[p].at # "idle"
  BY DEF CanWrite
<1>2. /\ lock' \in Processes \cup {NoProcess} /\ op' \in [Processes -> Mutations]
      /\ \A q \in Processes : op'[q].at = "idle"
  BY <1>1, MutationEnds
<1>3. StoreTypeOK'
  BY <1>2 DEF StoreInv, StoreTypeOK, Mutations
<1>4. snapshot'.seq <= LastSeq(log')
  <2>1. /\ snapshot.seq \in Int /\ LastSeq(log) \in Nat /\ LastSeq(log') \in Nat
        /\ snapshot.seq <= LastSeq(log)
    BY DocsApart, LastSeqIs DEF StoreInv, StoreTypeOK
  <2> QED
    BY <2>1
<1>5. snapshot' = NoRun => LogStartsRun'
  <2>1. Loaded # NoRun
    BY <1>1, DocsApart DEF StoreInv, Mutating
  <2> QED
    BY <2>1 DEF StoreInv
<1> QED
  BY <1>2, <1>3, <1>4, <1>5 DEF StoreInv

LEMMA AppendFailsStores ==
  ASSUME StoreInv, NEW p \in Processes, AppendFails(p)
  PROVE  StoreInv' /\ (Stored!Next \/ Loaded' = Loaded)
<1>1. /\ CanWrite(p) /\ EndMutation(p) /\ snapshot' = snapshot /\ issued' \in 0..MaxEvents
      /\ unended' \in BOOLEAN /\ op[p].at # "idle"
      /\ \/ log' = log
         \/ log' = Append(log, Torn)
         \/ log' = Append(log, NextEvent(p))
  BY IssueTyped DEF AppendFails, AddLine, CanWrite
<1>2. Loaded \in RunDoc /\ log \in Seq(Line) /\ LastSeq(log) \in Nat
  BY <1>1, LastSeqIs DEF StoreInv, StoreTypeOK, Mutating
<1>3. CASE log' = log
  <2>1. /\ lock' \in Processes \cup {NoProcess} /\ op' \in [Processes -> Mutations]
        /\ \A q \in Processes : op'[q].at = "idle"
    BY <1>1, MutationEnds
  <2>2. Loaded' = Loaded /\ (LogStartsRun' <=> LogStartsRun) /\ LastSeq(log') = LastSeq(log)
    BY <1>1, <1>3 DEF Loaded, LogStartsRun
  <2>3. Rebuilt'
    BY <1>3, <2>2 DEF StoreInv, Rebuilt
  <2>4. StoreTypeOK'
    BY <1>1, <1>3, <2>1 DEF StoreInv, StoreTypeOK, Mutations
  <2> QED
    BY <1>1, <1>3, <2>1, <2>2, <2>3, <2>4 DEF StoreInv
<1>4. CASE log' = Append(log, Torn)
  <2>1. /\ log' \in Seq(Line) /\ log' # << >> /\ Loaded' = Loaded
        /\ LastSeq(log') = LastSeq(log) /\ (LogStartsRun' <=> LogStartsRun) /\ Rebuilt'
    BY <1>1, <1>4, FragmentUnread
  <2> QED
    BY <1>1, <1>2, <2>1, GrownLog
<1>5. CASE log' = Append(log, NextEvent(p))
  <2>1. /\ log' \in Seq(Line) /\ log' # << >> /\ LastSeq(log') = LastSeq(log) + 1
        /\ Loaded' \in RunDoc /\ Rebuilt' /\ (LogStartsRun => LogStartsRun')
    BY <1>1, <1>5, EventRead
  <2>2. LastSeq(log') >= LastSeq(log)
    BY <1>2, <2>1
  <2>3. StoreInv'
    BY <1>1, <2>1, <2>2, GrownLog
  <2>4. Stored!Next
    BY <1>1, <1>5, EventIsNext
  <2> QED
    BY <2>3, <2>4
<1> QED
  BY <1>1, <1>3, <1>4, <1>5

\* The document saved is what a reader would have made of the files without it.
LEMMA SaveStores ==
  ASSUME StoreInv, NEW p \in Processes, Save(p)
  PROVE  StoreInv' /\ Loaded' = Loaded
<1> DEFINE d == op[p].doc
<1>1. /\ op[p].at = "save" /\ snapshot' = d /\ log' = log /\ unended' = unended
      /\ issued' = issued /\ EndMutation(p)
  BY DEF Save
<1>2. /\ d \in RunDoc /\ d = Loaded /\ d.seq = LastSeq(log) /\ log \in Seq(Line)
  BY <1>1 DEF StoreInv, StoreTypeOK, Mutating
<1> HIDE DEF d
<1>3. /\ lock' \in Processes \cup {NoProcess} /\ op' \in [Processes -> Mutations]
      /\ \A q \in Processes : op'[q].at = "idle"
  BY <1>1, MutationEnds
<1>4. LastSeq(log) \in Nat /\ \A i \in 1..Len(log) : log[i].seq <= LastSeq(log)
  BY <1>2, LastSeqIs
<1>5. LoadFrom(d, log) = d
  <2>1. ASSUME NEW i \in 1..Len(log) PROVE ~IsNews(d, log[i])
    <3>1. log[i].seq \in Nat
      BY <1>2 DEF Line, Torn
    <3> QED
      BY <1>2, <1>4, <3>1 DEF IsNews
  <2> QED
    BY <1>2, <2>1, LoadGoesOn DEF AnyDoc
<1>6. Loaded' = Loaded
  BY <1>1, <1>2, <1>5 DEF Loaded
<1>7. (LogStartsRun' <=> LogStartsRun) /\ LastSeq(log') = LastSeq(log)
  BY <1>1 DEF LogStartsRun
<1>8. Rebuilt'
  BY <1>1, <1>6, <1>7 DEF StoreInv, Rebuilt
<1>9. StoreTypeOK'
  BY <1>1, <1>2, <1>3 DEF StoreInv, StoreTypeOK, Mutations, RunDoc
<1>10. snapshot'.seq <= LastSeq(log') /\ snapshot' # NoRun
  BY <1>1, <1>2, <1>4, DocsApart
<1> QED
  BY <1>1, <1>2, <1>3, <1>6, <1>8, <1>9, <1>10 DEF StoreInv

LEMMA FailStores ==
  ASSUME StoreInv, NEW p \in Processes, Fail(p)
  PROVE  StoreInv' /\ Loaded' = Loaded
<1>1. op[p].at # "idle" /\ EndMutation(p) /\ UNCHANGED <<snapshot, log, unended, issued>>
  BY DEF Fail
<1>2. /\ lock' \in Processes \cup {NoProcess} /\ op' \in [Processes -> Mutations]
      /\ \A q \in Processes : op'[q].at = "idle"
  BY <1>1, MutationEnds
<1>3. issued' \in 0..MaxEvents
  BY <1>1 DEF StoreInv, StoreTypeOK
<1> QED
  BY <1>1, <1>2, <1>3, FilesStay

LEMMA LossStores == ASSUME StoreInv, LoseSnapshot PROVE StoreInv' /\ Loaded' = Loaded
<1>1. /\ LogStartsRun /\ snapshot' = NoRun /\ log' = log /\ op' = op /\ lock' = lock
      /\ unended' = unended /\ issued' = issued
  BY DEF LoseSnapshot
<1>2. Loaded' = Loaded
  BY <1>1 DEF StoreInv, Rebuilt, Loaded
<1>3. (LogStartsRun' <=> LogStartsRun) /\ LastSeq(log') = LastSeq(log) /\ log # << >>
  BY <1>1 DEF LogStartsRun
<1>4. Rebuilt'
  BY <1>1, <1>2 DEF Rebuilt, Loaded
<1>5. StoreTypeOK'
  BY <1>1 DEF StoreInv, StoreTypeOK
<1>6. snapshot'.seq <= LastSeq(log')
  <2>1. LastSeq(log) \in Nat
    BY LastSeqIs DEF StoreInv, StoreTypeOK
  <2> QED
    BY <1>1, <2>1, DocsApart
<1>7. ASSUME NEW q \in Processes, op'[q].at # "idle" PROVE Mutating(q)'
  BY <1>1, <1>2, <1>3, <1>7 DEF StoreInv, Mutating
<1>8. Loaded \in RunDoc
  BY <1>3 DEF StoreInv
<1> QED
  BY <1>1, <1>2, <1>3, <1>4, <1>5, <1>6, <1>7, <1>8 DEF StoreInv

LEMMA StoreStep ==
  ASSUME StoreInv, [StoreNext]_storeVars
  PROVE  StoreInv' /\ (Stored!Next \/ Loaded' = Loaded)
<1>1. ASSUME NEW p \in Processes, NEW n \in 1..MaxBatch,
             Create(p, n) \/ Mutate(p, n) \/ Replace(p, n)
      PROVE  StoreInv' /\ (Stored!Next \/ Loaded' = Loaded)
  BY <1>1, CreateStores, MutateStores, ReplaceStores
<1>2. ASSUME NEW p \in Processes, AppendEvent(p) \/ AppendFails(p) \/ Save(p) \/ Fail(p)
      PROVE  StoreInv' /\ (Stored!Next \/ Loaded' = Loaded)
  BY <1>2, AppendEventStores, AppendFailsStores, SaveStores, FailStores
<1>3. ASSUME UNCHANGED storeVars PROVE StoreInv' /\ Loaded' = Loaded
  BY <1>3 DEF storeVars, StoreInv, StoreTypeOK, Loaded, Rebuilt, LogStartsRun, Mutating
<1> QED
  BY <1>1, <1>2, <1>3, LossStores DEF StoreNext

\* The files of a run have their types (runs/store.py, runs/fsutil.py).
THEOREM StoreTypeCorrect == StoreSpec => []StoreTypeOK
<1>1. StoreInv => StoreTypeOK
  BY DEF StoreInv
<1> QED
  BY <1>1, StoreInitially, StoreStep, PTL DEF StoreSpec

\* What a process would load behaves as an EventLog (_load_unlocked, append_jsonl).
THEOREM StoreKeepsLog == StoreSpec => StoredSpec
<1>1. StoreInit => Stored!Init
  <2> SUFFICES ASSUME StoreInit PROVE Stored!Init
    OBVIOUS
  <2>1. Loaded = NoRun
    BY StoreInitially DEF StoreInit, StoreInv
  <2> QED
    BY <2>1, DocsApart DEF Stored!Init
<1>2. StoreInv /\ [StoreNext]_storeVars
        => [Stored!Next]_(IF IsRun(Loaded) THEN Loaded.applied ELSE << >>)
  BY StoreStep DEF IsRun
<1>3. StoreInv /\ [StoreNext]_storeVars => StoreInv'
  BY StoreStep
<1> QED
  BY <1>1, <1>2, <1>3, StoreInitially, PTL DEF StoreSpec, StoredSpec, Stored!Spec

==============================================================================
