---------------------------- MODULE Attempt_proofs ----------------------------
(***************************************************************************)
(* What goes to review, what the next attempt is told, at which tier it is *)
(* made and how a restart decides about it, what is left of the work in a  *)
(* checkout that is cleaned up, which lessons a learning pass takes, and   *)
(* what the guard over the shared git state lets pass, for every set of    *)
(* gate plans, number of repair turns, length of history, set of tiers,    *)
(* costs and grants, set of pieces of work, number of lessons, set of      *)
(* units and number of commits.                                            *)
(***************************************************************************)
EXTENDS AttemptWork, Steward, Worktrees, EscalatedUnit, SharedGitState, Inductions,
        SequenceTheorems, FiniteSetTheorems, TLAPS

(****************************** The learning loop **************************)

\* The lessons from one number to another were agreed to by these.
AgreedTo(from, to, who) == \A l \in from + 1..to : lessons[l] \in who

Status == {"no change", "rejected", "not approved", "conflict", "not merged", "merged", "skipped"}

RunRecord == [from : Nat, to : Nat, status : Status]

LearningInv ==
  /\ lessons \in Seq(Reviewers)
  /\ torn \in BOOLEAN
  /\ DOMAIN learning = {"runs", "seen", "mergedAt"}
  /\ learning.runs \in Seq(RunRecord) /\ learning.seen \in Nat
  /\ mergedUnits \in Nat /\ learning.mergedAt \in 0..mergedUnits
  /\ learning.seen <= Len(lessons)
  /\ \A i \in DOMAIN learning.runs :
       /\ learning.runs[i].from = IF i = 1 THEN 0 ELSE learning.runs[i - 1].to
       /\ learning.runs[i].from < learning.runs[i].to /\ learning.runs[i].to <= learning.seen
  /\ learning.seen = IF learning.runs = << >> THEN 0 ELSE learning.runs[Len(learning.runs)].to
  /\ branches \subseteq 1..Number

InPass == pass.at \in {"turn", "review", "gates", "landed"}

\* A pass takes the lessons after the last recorded one, and holds its branch.
PassInv ==
  /\ pass.at \in {"off", "loop", "turn", "review", "gates", "landed"}
  /\ InPass =>
       /\ DOMAIN pass = {"at", "from", "to", "mergedAt", "missing", "approved", "outside", "old"}
       /\ pass.from = learning.seen /\ pass.to \in Nat
       /\ pass.from < pass.to /\ pass.to <= Len(lessons)
       /\ pass.mergedAt \in 0..mergedUnits
       /\ pass.approved \subseteq Reviewers /\ pass.missing \subseteq Reviewers
       /\ AgreedTo(pass.from, pass.to, pass.missing \cup pass.approved)
       /\ pass.outside = FALSE
       /\ Number \in branches
       /\ pass.at \in {"gates", "landed"} => pass.missing = {}

\* A landed pass that no record counts yet: its drive died, or is about to write
\* it, and its branch keeps the next one from beginning.
LandedInv ==
  /\ tip \in Seq(PassCommit)
  /\ \A i \in Landed :
       /\ tip[i].from < tip[i].to /\ tip[i].to <= Len(lessons)
       /\ AgreedTo(tip[i].from, tip[i].to, tip[i].approved)
       /\ ~tip[i].outside
       /\ tip[i].on = i - 1
       /\ \A j \in Landed : i < j => tip[i].to <= tip[j].from
       /\ tip[i].to > learning.seen =>
            /\ Number \in branches /\ pass.at \in {"off", "loop", "landed"}
            /\ pass.at = "landed" => tip[i].to <= pass.to

StewardInv == LearningInv /\ PassInv /\ LandedInv

LEMMA StewardInitially == StewardInit => StewardInv
<1> SUFFICES ASSUME StewardInit PROVE StewardInv
  OBVIOUS
<1>1. LearningInv
  <2>1. /\ lessons = << >> /\ torn = FALSE /\ branches = {} /\ mergedUnits = 0
        /\ learning.runs = << >> /\ learning.seen = 0 /\ learning.mergedAt = 0
        /\ DOMAIN learning = {"runs", "seen", "mergedAt"}
    BY DEF StewardInit
  <2>2. << >> \in Seq(Reviewers) /\ << >> \in Seq(RunRecord) /\ Len(<< >>) = 0 /\ DOMAIN << >> = {}
    OBVIOUS
  <2>3. learning.runs \in Seq(RunRecord) /\ \A i \in DOMAIN learning.runs : FALSE
    BY <2>1, <2>2
  <2>4. lessons \in Seq(Reviewers) /\ learning.seen <= Len(lessons) /\ learning.mergedAt \in 0..mergedUnits
    BY <2>1, <2>2
  <2>5. /\ learning.seen = IF learning.runs = << >> THEN 0 ELSE learning.runs[Len(learning.runs)].to
    BY <2>1
  <2>6. torn \in BOOLEAN /\ learning.seen \in Nat /\ mergedUnits \in Nat /\ branches \subseteq 1..Number
    <3>1. 0 \in Nat
      OBVIOUS
    <3> QED
      BY <2>1, <3>1, Zenon
  <2> QED
    BY <2>1, <2>3, <2>4, <2>5, <2>6 DEF LearningInv
<1>2. PassInv
  BY DEF StewardInit, PassInv, InPass, NoPass
<1>3. LandedInv
  BY DEF StewardInit, LandedInv, Landed
<1> QED
  BY <1>1, <1>2, <1>3 DEF StewardInv

LEMMA LandedTyped ==
  ASSUME LandedInv
  PROVE  \A i \in DOMAIN tip : tip[i] \in PassCommit /\ i \in Nat /\ tip[i].from \in Nat /\ tip[i].to \in Nat
<1> SUFFICES ASSUME NEW i \in DOMAIN tip
             PROVE  tip[i] \in PassCommit /\ i \in Nat /\ tip[i].from \in Nat /\ tip[i].to \in Nat
  OBVIOUS
<1>1. tip[i] \in PassCommit /\ i \in Nat
  BY DEF LandedInv
<1> QED
  BY <1>1 DEF PassCommit

\* What is due is all the readable lessons that are new.
LEMMA WhatIsDue ==
  ASSUME LearningInv, NEW final, IsDue(final)
  PROVE  /\ ~torn /\ learning.seen < Len(lessons)
         /\ learning.seen + Len(Pending) = Len(lessons)
         /\ \A l \in learning.seen + 1..Len(lessons) : lessons[l] \in Range(Pending)
<1>1. Pending # << >> /\ lessons \in Seq(Reviewers) /\ learning.seen \in Nat
      /\ learning.seen <= Len(lessons) /\ Len(lessons) \in Nat /\ torn \in BOOLEAN
  BY DEF IsDue, LearningInv
<1>2. ~torn
  <2>1. ASSUME torn PROVE FALSE
    <3>1. Pending = SubSeq(<< >>, learning.seen + 1, 0)
      BY <2>1 DEF Pending, ReadableLessons
    <3>2. SubSeq(<< >>, learning.seen + 1, 0) = << >>
      BY <1>1
    <3> QED
      BY <1>1, <3>1, <3>2
  <2> QED
    BY <1>1, <2>1
<1>3. Pending = SubSeq(lessons, learning.seen + 1, Len(lessons))
  BY <1>2 DEF Pending, ReadableLessons
<1>4. learning.seen < Len(lessons)
  <2>1. ASSUME learning.seen = Len(lessons) PROVE FALSE
    <3>1. SubSeq(lessons, learning.seen + 1, Len(lessons)) = << >>
      BY <1>1, <2>1
    <3> QED
      BY <1>1, <1>3, <3>1
  <2> QED
    BY <1>1, <2>1
<1>5. /\ Len(Pending) = Len(lessons) - learning.seen
      /\ DOMAIN Pending = 1..Len(lessons) - learning.seen
      /\ \A i \in 1..Len(lessons) - learning.seen : Pending[i] = lessons[learning.seen + i]
  BY <1>1, <1>3, <1>4
<1>6. ASSUME NEW l \in learning.seen + 1..Len(lessons) PROVE lessons[l] \in Range(Pending)
  <2>1. l - learning.seen \in 1..Len(lessons) - learning.seen
    BY <1>1, <1>6
  <2>2. lessons[l] = Pending[l - learning.seen]
    BY <1>1, <1>5, <2>1
  <2> QED
    BY <1>5, <2>1, <2>2 DEF Range
<1> QED
  BY <1>1, <1>2, <1>4, <1>5, <1>6

\* Lessons are appended; those that were agreed to stay so.
LEMMA AddKeeps == ASSUME StewardInv, NEW r \in Reviewers, AddLesson(r) PROVE StewardInv'
<1>1. /\ lessons' = Append(lessons, r) /\ lessons \in Seq(Reviewers)
      /\ UNCHANGED <<torn, learning, branches, tip, mergedUnits, pass>>
  BY DEF AddLesson, StewardInv, LearningInv
<1>2. /\ lessons' \in Seq(Reviewers) /\ Len(lessons') = Len(lessons) + 1 /\ Len(lessons) \in Nat
      /\ \A l \in 1..Len(lessons) : lessons'[l] = lessons[l]
  BY <1>1
<1>3. ASSUME NEW from \in Nat, NEW to \in Nat, to <= Len(lessons), NEW who, AgreedTo(from, to, who)
      PROVE  AgreedTo(from, to, who)'
  <2>1. \A l \in from + 1..to : l \in 1..Len(lessons)
    BY <1>2, <1>3
  <2> QED
    BY <1>2, <1>3, <2>1 DEF AgreedTo
<1>4. LearningInv'
  BY <1>1, <1>2 DEF StewardInv, LearningInv, Number
<1>5. PassInv'
  BY <1>1, <1>2, <1>3 DEF StewardInv, PassInv, InPass, Number, LearningInv
<1>6. LandedInv'
  <2>1. \A i \in Landed : tip[i].from \in Nat /\ tip[i].to \in Nat
    BY LandedTyped DEF StewardInv, Landed
  <2>2. \A i \in Landed : AgreedTo(tip[i].from, tip[i].to, tip[i].approved)'
    BY <1>1, <1>3, <2>1 DEF StewardInv, LandedInv
  <2> QED
    BY <1>1, <1>2, <2>1, <2>2 DEF StewardInv, LandedInv, Landed, Number
<1> QED
  BY <1>4, <1>5, <1>6 DEF StewardInv

\* Steps of the pass itself that record nothing and land nothing.
LEMMA PassStep ==
  ASSUME StewardInv, UNCHANGED <<lessons, torn, learning, tip, mergedUnits>>, PassInv',
         branches \subseteq branches', branches' \subseteq 1..Number,
         pass.at # "landed",
         InPass' => InPass \/ Number \notin branches,
         pass'.at # "landed"
  PROVE  StewardInv'
<1>1. LearningInv'
  BY DEF StewardInv, LearningInv, Number
<1>2. LandedInv'
  <2>1. \A i \in Landed : tip[i].to > learning.seen =>
          Number \in branches /\ pass.at \in {"off", "loop", "landed"}
    BY DEF StewardInv, LandedInv
  <2>2. \A i \in Landed : tip[i].to > learning.seen => pass'.at \in {"off", "loop"} /\ Number \in branches'
    BY <2>1 DEF PassInv, InPass, StewardInv
  <2> QED
    BY <2>2 DEF StewardInv, LandedInv, Landed, Number, AgreedTo
<1> QED
  BY <1>1, <1>2 DEF StewardInv

LEMMA BeginPassKeeps == ASSUME StewardInv, NEW final \in BOOLEAN, BeginPass(final) PROVE StewardInv'
<1>1. /\ pass.at = "loop" /\ IsDue(final) /\ branches' = branches \cup {Number}
      /\ UNCHANGED <<lessons, torn, learning, tip, mergedUnits>>
      /\ LearningInv
  BY DEF BeginPass, StewardInv
<1>2. learning.runs \in Seq(RunRecord) /\ Number \in Nat /\ Number \in 1..Number
      /\ branches \subseteq 1..Number
  BY <1>1 DEF LearningInv, Number
<1>3. CASE Number \in branches
  <2>1. pass' = NoPass
    BY <1>3 DEF BeginPass
  <2>2. PassInv' /\ ~InPass' /\ pass'.at # "landed"
    BY <2>1 DEF PassInv, InPass, NoPass
  <2> QED
    BY <1>1, <1>2, <2>2, PassStep
<1>4. CASE Number \notin branches
  <2>1. pass' = [at |-> "turn", from |-> learning.seen, to |-> learning.seen + Len(Pending),
                 mergedAt |-> mergedUnits, missing |-> Range(Pending), approved |-> {},
                 outside |-> FALSE, old |-> tip]
    BY <1>4 DEF BeginPass
  <2>2. /\ pass'.at = "turn" /\ pass'.from = learning.seen /\ pass'.to = learning.seen + Len(Pending)
        /\ pass'.mergedAt = mergedUnits /\ pass'.missing = Range(Pending) /\ pass'.approved = {}
        /\ pass'.outside = FALSE
        /\ DOMAIN pass' = {"at", "from", "to", "mergedAt", "missing", "approved", "outside", "old"}
    BY <2>1
  <2>3. /\ learning.seen < Len(lessons) /\ learning.seen + Len(Pending) = Len(lessons)
        /\ \A l \in learning.seen + 1..Len(lessons) : lessons[l] \in Range(Pending)
    BY <1>1, WhatIsDue
  <2>4. /\ learning.seen \in Nat /\ Len(lessons) \in Nat /\ mergedUnits \in Nat
        /\ \A l \in 1..Len(lessons) : lessons[l] \in Reviewers
    BY <1>1 DEF LearningInv
  <2>5. Range(Pending) \subseteq Reviewers
    <3>1. Pending \in Seq(Reviewers)
      BY <1>1, <2>3, <2>4 DEF Pending, ReadableLessons, LearningInv
    <3> QED
      BY <3>1 DEF Range
  <2>6. PassInv'
    BY <1>1, <2>2, <2>3, <2>4, <2>5 DEF PassInv, InPass, AgreedTo, Number
  <2> QED
    BY <1>1, <1>2, <1>4, <2>2, <2>6, PassStep
<1> QED
  BY <1>3, <1>4

\* A pass that is over is put on file: the next one takes later lessons.
LEMMA OnFile ==
  ASSUME LearningInv, NEW to \in Nat, learning.seen < to, to <= Len(lessons), NEW mergedAt \in 0..mergedUnits,
         NEW status \in Status,
         learning' = [runs |-> Append(learning.runs, [from |-> learning.seen, to |-> to, status |-> status]),
                      seen |-> to, mergedAt |-> mergedAt],
         UNCHANGED <<lessons, torn, branches, mergedUnits>>
  PROVE  LearningInv' /\ Number' = Number + 1 /\ learning'.seen = to /\ Number' \notin branches'
<1> DEFINE old == learning.runs
           r == [from |-> learning.seen, to |-> to, status |-> status]
<1>1. /\ learning'.runs = Append(old, r) /\ learning'.seen = to /\ learning'.mergedAt = mergedAt
      /\ DOMAIN learning' = {"runs", "seen", "mergedAt"}
  OBVIOUS
<1>2. r \in RunRecord /\ old \in Seq(RunRecord) /\ learning.seen \in Nat
  BY DEF RunRecord, LearningInv
<1>3. /\ Append(old, r) \in Seq(RunRecord) /\ Len(Append(old, r)) = Len(old) + 1 /\ Len(old) \in Nat
      /\ \A i \in 1..Len(old) : Append(old, r)[i] = old[i]
      /\ Append(old, r)[Len(old) + 1] = r
  BY <1>2
<1>4. Number' = Number + 1 /\ Number \in Nat
  BY <1>1, <1>3 DEF Number
<1>5. ASSUME NEW i \in 1..Len(old) + 1
      PROVE  /\ Append(old, r)[i].from = IF i = 1 THEN 0 ELSE Append(old, r)[i - 1].to
             /\ Append(old, r)[i].from < Append(old, r)[i].to /\ Append(old, r)[i].to <= to
  <2>1. CASE i \in 1..Len(old)
    <3>1. /\ old[i].from = IF i = 1 THEN 0 ELSE old[i - 1].to
          /\ old[i].from < old[i].to /\ old[i].to <= learning.seen /\ old[i].to \in Nat
      <4>1. i \in DOMAIN old /\ old[i] \in RunRecord
        BY <1>2, <2>1
      <4> QED
        BY <4>1 DEF LearningInv, RunRecord
    <3>2. i # 1 => i - 1 \in 1..Len(old)
      BY <1>3, <2>1
    <3> QED
      BY <1>2, <1>3, <2>1, <3>1, <3>2
  <2>2. CASE i = Len(old) + 1
    <3>1. learning.seen = IF old = << >> THEN 0 ELSE old[Len(old)].to
      BY DEF LearningInv
    <3>2. CASE Len(old) = 0
      BY <1>2, <1>3, <2>2, <3>1, <3>2
    <3>3. CASE Len(old) # 0
      <4>1. Len(old) \in 1..Len(old) /\ old # << >> /\ i # 1 /\ i - 1 = Len(old)
        BY <1>3, <2>2, <3>3
      <4> QED
        BY <1>2, <1>3, <2>2, <3>1, <4>1
    <3> QED
      BY <3>2, <3>3
  <2> QED
    BY <1>3, <2>1, <2>2
<1>6. /\ DOMAIN learning'.runs = 1..Len(old) + 1
      /\ learning'.runs # << >> /\ learning'.runs[Len(learning'.runs)].to = to
  <2>1. Append(old, r) # << >> /\ DOMAIN Append(old, r) = 1..Len(old) + 1
    BY <1>2, <1>3
  <2> QED
    BY <1>1, <1>3, <2>1
<1>7. branches' \subseteq 1..Number /\ 1..Number \subseteq 1..Number'
  BY <1>4 DEF LearningInv
<1>8. LearningInv'
  BY <1>1, <1>2, <1>3, <1>5, <1>6, <1>7 DEF LearningInv
<1> QED
  BY <1>1, <1>4, <1>7, <1>8

LEMMA RecordKeeps ==
  ASSUME StewardInv, InPass, NEW status \in Status, RecordPass(status) PROVE StewardInv'
<1>1. /\ learning' = [runs |-> Append(learning.runs, [from |-> learning.seen, to |-> pass.to, status |-> status]),
                      seen |-> pass.to, mergedAt |-> pass.mergedAt]
      /\ pass' = [at |-> "loop"] /\ UNCHANGED <<lessons, torn, branches, tip, mergedUnits>>
      /\ pass.to \in Nat /\ learning.seen < pass.to /\ pass.to <= Len(lessons)
      /\ pass.mergedAt \in 0..mergedUnits
  BY DEF RecordPass, StewardInv, PassInv
<1>2. LearningInv' /\ learning'.seen = pass.to
  BY <1>1, OnFile DEF StewardInv
<1>3. PassInv'
  BY <1>1 DEF PassInv, InPass
<1>4. \A i \in Landed : tip[i].to <= pass.to
  <2>1. \A i \in Landed : tip[i].to \in Nat /\ (tip[i].to > learning.seen => pass.at = "landed" /\ tip[i].to <= pass.to)
    BY LandedTyped DEF StewardInv, LandedInv, InPass, Landed
  <2>2. learning.seen \in Nat
    BY DEF StewardInv, LearningInv
  <2> QED
    BY <1>1, <2>1, <2>2
<1>5. LandedInv'
  <2>1. \A i \in Landed : tip[i].to \in Nat
    BY LandedTyped DEF StewardInv, Landed
  <2> QED
    BY <1>1, <1>2, <1>4, <2>1 DEF StewardInv, LandedInv, Landed, AgreedTo
<1> QED
  BY <1>2, <1>3, <1>5 DEF StewardInv

LEMMA SkipKeeps == ASSUME StewardInv, SkipPass PROVE StewardInv'
<1>1. PICK final \in BOOLEAN : IsDue(final)
  BY DEF SkipPass
<1>2. /\ learning.seen < Len(lessons) /\ learning.seen + Len(Pending) = Len(lessons)
      /\ learning.seen \in Nat /\ Len(lessons) \in Nat /\ mergedUnits \in Nat
  BY <1>1, WhatIsDue DEF StewardInv, LearningInv
<1>3. /\ learning' = [runs |-> Append(learning.runs,
                             [from |-> learning.seen, to |-> Len(lessons), status |-> "skipped"]),
                      seen |-> Len(lessons), mergedAt |-> mergedUnits]
      /\ pass.at = "loop" /\ UNCHANGED <<lessons, torn, branches, tip, mergedUnits, pass>>
  BY <1>2 DEF SkipPass
<1>4. LearningInv' /\ learning'.seen = Len(lessons)
  <2>1. mergedUnits \in 0..mergedUnits /\ LearningInv /\ "skipped" \in Status
    BY <1>2 DEF StewardInv, Status
  <2> QED
    BY <1>2, <1>3, <2>1, OnFile
<1>5. PassInv'
  BY <1>3 DEF PassInv, InPass
<1>6. LandedInv'
  <2>1. \A i \in Landed : tip[i].to \in Nat /\ tip[i].to <= Len(lessons)
    BY LandedTyped DEF StewardInv, LandedInv, Landed
  <2> QED
    BY <1>2, <1>3, <1>4, <2>1 DEF StewardInv, LandedInv, Landed, AgreedTo
<1> QED
  BY <1>4, <1>5, <1>6 DEF StewardInv

\* A commit is put on the target: a unit's, or the pass's own.
LEMMA UnitLands == ASSUME StewardInv, LandUnit PROVE StewardInv'
<1>1. /\ tip' = Append(tip, UnitCommit) /\ mergedUnits' = mergedUnits + 1
      /\ UNCHANGED <<lessons, torn, learning, branches, pass>>
  BY DEF LandUnit
<1>2. tip \in Seq(PassCommit) /\ UnitCommit \in PassCommit
  BY DEF StewardInv, LandedInv, UnitCommit, PassCommit
<1>3. /\ tip' \in Seq(PassCommit) /\ Len(tip') = Len(tip) + 1 /\ Len(tip) \in Nat
      /\ \A i \in 1..Len(tip) : tip'[i] = tip[i]
      /\ tip'[Len(tip) + 1] = UnitCommit /\ DOMAIN tip = 1..Len(tip) /\ DOMAIN tip' = 1..Len(tip) + 1
  BY <1>1, <1>2
<1>4. Landed' = Landed /\ \A i \in Landed : tip'[i] = tip[i]
  <2>1. \A i \in 1..Len(tip) + 1 : i \in 1..Len(tip) \/ i = Len(tip) + 1
    BY <1>3
  <2>2. \A i \in 1..Len(tip) : i \in 1..Len(tip) + 1
    BY <1>3
  <2> QED
    BY <1>3, <2>1, <2>2 DEF Landed
<1>5. LandedInv'
  BY <1>1, <1>3, <1>4 DEF StewardInv, LandedInv, AgreedTo, Number
<1>6. LearningInv'
  BY <1>1 DEF StewardInv, LearningInv, Number
<1>7. PassInv'
  <2>1. mergedUnits \in Nat
    BY DEF StewardInv, LearningInv
  <2>2. \A m \in 0..mergedUnits : m \in 0..mergedUnits'
    BY <1>1, <2>1
  <2> QED
    BY <1>1, <2>2 DEF StewardInv, PassInv, InPass, AgreedTo, Number
<1> QED
  BY <1>5, <1>6, <1>7 DEF StewardInv

LEMMA PassLands == ASSUME StewardInv, LandPass PROVE StewardInv'
<1> DEFINE new == [n |-> Number, from |-> pass.from, to |-> pass.to, approved |-> pass.approved,
                   outside |-> pass.outside, on |-> Len(pass.old)]
<1>1. /\ pass.at = "gates" /\ tip = pass.old /\ tip' = Append(tip, new)
      /\ pass' = [pass EXCEPT !.at = "landed"]
      /\ UNCHANGED <<lessons, torn, learning, branches, mergedUnits>>
  BY DEF LandPass
<1>2. /\ pass.from = learning.seen /\ pass.to \in Nat /\ learning.seen \in Nat
      /\ pass.from < pass.to /\ pass.to <= Len(lessons) /\ pass.outside = FALSE /\ pass.missing = {}
      /\ AgreedTo(pass.from, pass.to, pass.missing \cup pass.approved) /\ Number \in branches
      /\ pass.approved \subseteq Reviewers
      /\ DOMAIN pass = {"at", "from", "to", "mergedAt", "missing", "approved", "outside", "old"}
      /\ tip \in Seq(PassCommit) /\ learning.runs \in Seq(RunRecord)
  BY <1>1 DEF StewardInv, PassInv, InPass, LearningInv, LandedInv
<1>3. AgreedTo(pass.from, pass.to, pass.approved)
  BY <1>2 DEF AgreedTo
<1>4. Number \in Nat /\ Number # 0 /\ Len(pass.old) = Len(tip) /\ Len(tip) \in Nat
  BY <1>1, <1>2 DEF Number
<1>5. pass.outside \in BOOLEAN
  BY <1>2
<1>6. new \in PassCommit /\ new # UnitCommit
  BY <1>1, <1>2, <1>4, <1>5 DEF PassCommit, UnitCommit
<1>7. /\ tip' \in Seq(PassCommit) /\ Len(tip') = Len(tip) + 1
      /\ \A i \in 1..Len(tip) : tip'[i] = tip[i]
      /\ tip'[Len(tip) + 1] = new /\ DOMAIN tip = 1..Len(tip) /\ DOMAIN tip' = 1..Len(tip) + 1
  BY <1>1, <1>2, <1>6
<1>8. /\ \A i \in Landed : i \in 1..Len(tip) /\ tip'[i] = tip[i]
      /\ \A i \in Landed' : i \in Landed \/ i = Len(tip) + 1
  <2>1. \A i \in 1..Len(tip) + 1 : i \in 1..Len(tip) \/ i = Len(tip) + 1
    BY <1>4
  <2> QED
    BY <1>7, <2>1 DEF Landed
<1>9. \A i \in Landed : tip[i].to \in Nat /\ tip[i].to <= learning.seen
  BY <1>1, <1>2, LandedTyped DEF StewardInv, LandedInv, Landed
<1>10. pass'.at = "landed" /\ pass'.to = pass.to /\ pass'.from = pass.from
  BY <1>1, <1>2
<1>11. LandedInv'
  <2>1. ASSUME NEW i \in Landed'
        PROVE  /\ tip'[i].from < tip'[i].to /\ tip'[i].to <= Len(lessons)
               /\ AgreedTo(tip'[i].from, tip'[i].to, tip'[i].approved)
               /\ ~tip'[i].outside
               /\ tip'[i].on = i - 1
               /\ tip'[i].to <= pass.to
               /\ \A j \in Landed' : i < j => tip'[i].to <= tip'[j].from
    <3>1. CASE i \in Landed
      <4>1. tip'[i] = tip[i] /\ tip[i].to <= pass.to
        BY <1>2, <1>8, <1>9, <3>1
      <4>2. ASSUME NEW j \in Landed', i < j PROVE tip'[i].to <= tip'[j].from
        BY <1>2, <1>7, <1>8, <1>9, <3>1, <4>1, <4>2 DEF StewardInv, LandedInv
      <4> QED
        BY <3>1, <4>1, <4>2 DEF StewardInv, LandedInv
    <3>2. CASE i = Len(tip) + 1
      <4>1. \A j \in Landed' : ~(i < j)
        BY <1>4, <1>8, <3>2
      <4> QED
        BY <1>1, <1>2, <1>3, <1>4, <1>7, <3>2, <4>1
    <3> QED
      BY <1>8, <2>1, <3>1, <3>2
  <2>2. Number' \in branches'
    BY <1>1, <1>2 DEF Number
  <2> QED
    BY <1>1, <1>7, <1>10, <2>1, <2>2 DEF LandedInv, AgreedTo
<1>12. LearningInv'
  BY <1>1 DEF StewardInv, LearningInv, Number
<1>13. PassInv'
  BY <1>1, <1>2 DEF StewardInv, PassInv, InPass, AgreedTo, Number
<1> QED
  BY <1>11, <1>12, <1>13 DEF StewardInv

\* The steward's turn, the reviews and the merge go on.
LEMMA TurnKeeps ==
  ASSUME StewardInv,
         EndTurn \/ (\E r \in Reviewers : ReviewPass(r)) \/ BeginMerge \/ NotLanded \/ RecordLanded
  PROVE  StewardInv'
<1>1. InPass
  BY DEF EndTurn, ReviewPass, BeginMerge, NotLanded, RecordLanded, InPass
<1>2. ASSUME NEW status \in Status, RecordPass(status) PROVE StewardInv'
  BY <1>1, <1>2, RecordKeeps
<1>3. ASSUME pass'.at \in {"review", "gates"},
             DOMAIN pass' = {"at", "from", "to", "mergedAt", "missing", "approved", "outside", "old"},
             pass'.from = pass.from, pass'.to = pass.to, pass'.mergedAt = pass.mergedAt,
             pass'.outside = pass.outside, pass'.missing \subseteq Reviewers,
             pass'.approved \subseteq Reviewers,
             pass.missing \cup pass.approved \subseteq pass'.missing \cup pass'.approved,
             pass'.at = "gates" => pass'.missing = {}, pass.at # "landed",
             UNCHANGED <<lessons, torn, learning, branches, tip, mergedUnits>>
      PROVE  StewardInv'
  <2>1. PassInv'
    BY <1>1, <1>3 DEF StewardInv, PassInv, InPass, AgreedTo, Number
  <2>2. branches' \subseteq 1..Number
    BY <1>3 DEF StewardInv, LearningInv
  <2> QED
    BY <1>1, <1>3, <2>1, <2>2, PassStep
<1>4. /\ DOMAIN pass = {"at", "from", "to", "mergedAt", "missing", "approved", "outside", "old"}
      /\ pass.missing \subseteq Reviewers /\ pass.approved \subseteq Reviewers
      /\ pass.at \in {"gates", "landed"} => pass.missing = {}
  BY <1>1 DEF StewardInv, PassInv
<1>5. CASE EndTurn
  <2>1. ASSUME GoOn([pass EXCEPT !.at = "review"]), pass.at = "turn" PROVE StewardInv'
    BY <1>3, <1>4, <2>1 DEF GoOn
  <2> QED
    BY <1>2, <1>5, <2>1 DEF EndTurn, Status
<1>6. ASSUME NEW r \in Reviewers, ReviewPass(r) PROVE StewardInv'
  <2>1. ASSUME GoOn([pass EXCEPT !.missing = @ \ {r}, !.approved = @ \cup {r}]), pass.at = "review"
        PROVE  StewardInv'
    BY <1>3, <1>4, <2>1 DEF GoOn
  <2> QED
    BY <1>2, <1>6, <2>1 DEF ReviewPass, Status
<1>7. CASE BeginMerge
  <2>1. ASSUME GoOn([pass EXCEPT !.at = "gates", !.old = tip]), pass.at = "review", pass.missing = {}
        PROVE  StewardInv'
    BY <1>3, <1>4, <2>1 DEF GoOn
  <2> QED
    BY <1>2, <1>7, <2>1 DEF BeginMerge, Status
<1>8. CASE NotLanded \/ RecordLanded
  BY <1>2, <1>8 DEF NotLanded, RecordLanded, Status
<1> QED
  BY <1>5, <1>6, <1>7, <1>8

LEMMA StewardInductive == StewardInv /\ [StewardNext]_stewardVars => StewardInv'
<1> SUFFICES ASSUME StewardInv, [StewardNext]_stewardVars PROVE StewardInv'
  OBVIOUS
<1>1. ASSUME UNCHANGED <<lessons, learning, branches, tip, mergedUnits, pass>>, torn' \in BOOLEAN
      PROVE  StewardInv'
  BY <1>1 DEF StewardInv, LearningInv, PassInv, InPass, LandedInv, Landed, AgreedTo, Number
<1>2. CASE TearLine \/ UNCHANGED stewardVars
  BY <1>1, <1>2 DEF TearLine, stewardVars, StewardInv, LearningInv
<1>3. ASSUME pass' = NoPass \/ (pass.at = "off" /\ pass' = [at |-> "loop"]),
             UNCHANGED <<lessons, torn, learning, branches, tip, mergedUnits>>
      PROVE  StewardInv'
  <2>1. pass'.at \in {"off", "loop"}
    BY <1>3 DEF NoPass
  <2>2. LearningInv' /\ PassInv'
    BY <1>3, <2>1 DEF StewardInv, LearningInv, PassInv, InPass, Number
  <2>3. LandedInv'
    BY <1>3, <2>1 DEF StewardInv, LandedInv, Landed, AgreedTo, Number
  <2> QED
    BY <2>2, <2>3 DEF StewardInv
<1>4. CASE StartLoop \/ DriveDies
  BY <1>3, <1>4 DEF StartLoop, DriveDies
<1> QED
  BY <1>2, <1>4, AddKeeps, UnitLands, SkipKeeps, BeginPassKeeps, TurnKeeps, PassLands DEF StewardNext

\* What the learning loop has counted lies within the lessons and the merges
\* there are, and its branches are those of its runs and the next.
THEOREM StewardTypeCorrect == StewardSpec => []StewardTypeOK
<1>1. StewardInv => StewardTypeOK
  BY DEF StewardInv, LearningInv, LandedInv, StewardTypeOK, Number
<1> QED
  BY <1>1, StewardInitially, StewardInductive, PTL DEF StewardSpec

\* Lessons reach the practice files once and as agreed, wherever the drive dies.
THEOREM LessonsCountOnce == StewardSpec => []LessonsTakenOnce
<1>1. StewardInv => LessonsTakenOnce
  BY DEF StewardInv, LearningInv, LandedInv, LessonsTakenOnce, AgreedTo
<1> QED
  BY <1>1, StewardInitially, StewardInductive, PTL DEF StewardSpec

(************************* The checkout of a unit **************************)

Cleaning == task.at \in {"ignored", "bundle", "remove", "branch", "marker"}

Stored == UNION {archived[n] : n \in ArchiveName}

IgnoredName == [kind |-> "ignored", tip |-> task.tip]

TaskRecord ==
  [at : {"none", "added", "marked", "ignored", "bundle", "remove", "branch", "marker"},
   unique : SUBSET Commits, orphans : SUBSET Detached, unlisted : SUBSET Detached,
   ignored : SUBSET Ignored, tip : Tip]

CheckoutRecord ==
  [there : BOOLEAN, dirty : BOOLEAN, ignored : SUBSET Ignored, visited : SUBSET Detached]

BranchRecord == [there : BOOLEAN, commits : SUBSET Commits, tip : Tip]

\* The type invariant, variable by variable.
TreeTyped ==
  /\ done \subseteq Work
  /\ target \in [merges : 0..MaxMerges, commits : SUBSET Commits]
  /\ branch \in BranchRecord /\ checkout \in CheckoutRecord /\ task \in TaskRecord
  /\ owned \in BOOLEAN /\ recorded \in BOOLEAN /\ active \in BOOLEAN /\ overtaken \in BOOLEAN
  /\ archived \in [ArchiveName -> SUBSET Work]
  /\ archiveRefs \subseteq Detached
  /\ overwritten \subseteq Work /\ dropped \subseteq Commits /\ cut \subseteq Detached
  /\ diedAt \in 0..MaxCrashes

\* What a cleanup has still to save, or has saved, while nothing runs.
CleanupInv ==
  /\ Cleaning => ~active
  /\ task.at \in {"ignored", "bundle"} =>
       Orphans \subseteq task.orphans \cup task.unlisted /\ (task.unique = {} => Unique = {})
  /\ task.at = "ignored" => IgnoredFiles \subseteq task.ignored
  /\ task.at = "bundle" => IgnoredFiles \subseteq archived[IgnoredName]
  /\ task.at = "remove" => IgnoredFiles \cup Orphans \subseteq Stored \cup task.unlisted
  /\ task.at \in {"remove", "branch"} => Unique \subseteq Stored

WorktreeInv ==
  /\ TreeTyped
  /\ LossesAccounted
  /\ overtaken \/ CleanupInv
  /\ task.unlisted # {} => Cardinality(Detached) > MaxOrphans

LEMMA Typed == TreeTyped => WorktreeTypeOK
<1>1. {owned, recorded, active, overtaken} \subseteq BOOLEAN <=>
        owned \in BOOLEAN /\ recorded \in BOOLEAN /\ active \in BOOLEAN /\ overtaken \in BOOLEAN
  OBVIOUS
<1> QED
  BY <1>1, Zenon DEF WorktreeTypeOK, TreeTyped, BranchRecord, CheckoutRecord, TaskRecord

LEMMA NothingTyped ==
  NoBranch \in BranchRecord /\ NoCheckout \in CheckoutRecord /\ NoTask \in TaskRecord
<1>1. NoBranch.tip \in Tip
  BY WorktreeAssumption DEF NoBranch, Tip
<1> QED
  BY <1>1 DEF NoBranch, BranchRecord, NoCheckout, CheckoutRecord, NoTask, TaskRecord

LEMMA TreesInitially == WorktreeInit => WorktreeInv
<1> SUFFICES ASSUME WorktreeInit PROVE WorktreeInv
  OBVIOUS
<1>1. archived \in [ArchiveName -> SUBSET Work]
  BY DEF WorktreeInit
<1>2. target \in [merges : 0..MaxMerges, commits : SUBSET Commits] /\ diedAt \in 0..MaxCrashes
  BY WorktreeAssumption DEF WorktreeInit
<1>3. TreeTyped
  BY <1>1, <1>2, NothingTyped DEF WorktreeInit, TreeTyped
<1> QED
  BY <1>3 DEF WorktreeInv, WorktreeInit, LossesAccounted, CleanupInv, Cleaning, NoTask

LEMMA AddKeepsTree == ASSUME WorktreeInv, AddWorktree PROVE WorktreeInv'
<1>1. /\ task' = [NoTask EXCEPT !.at = "added"] /\ UNCHANGED <<overtaken, overwritten, dropped, cut, done, archived, target>>
      /\ branch' = [there |-> TRUE, commits |-> {}, tip |-> [commit |-> NoWork, base |-> target.merges]]
      /\ checkout' = [NoCheckout EXCEPT !.there = TRUE] /\ ~branch.there /\ ~checkout.there
  BY DEF AddWorktree, historyVars
<1>2. TreeTyped'
  <2>1. branch' \in BranchRecord
    BY <1>1 DEF WorktreeInv, TreeTyped, Tip, BranchRecord
  <2>2. task' \in TaskRecord /\ checkout' \in CheckoutRecord
    BY <1>1, NothingTyped DEF TaskRecord, CheckoutRecord
  <2>3. UNCHANGED <<owned, recorded, active, archiveRefs, diedAt>>
    BY DEF AddWorktree, historyVars
  <2> QED
    BY <1>1, <2>1, <2>2, <2>3 DEF WorktreeInv, TreeTyped
<1>3. Kept \subseteq Kept'
  BY <1>1 DEF Kept, NoCheckout
<1>4. LossesAccounted'
  BY <1>1, <1>3 DEF WorktreeInv, LossesAccounted
<1>5. CleanupInv'
  BY <1>1 DEF CleanupInv, Cleaning, NoTask
<1> QED
  BY <1>1, <1>2, <1>4, <1>5 DEF WorktreeInv, NoTask

LEMMA CreationKeepsTree ==
  ASSUME WorktreeInv, WriteMarker \/ RecordWorkspace PROVE WorktreeInv'
<1>1. /\ UNCHANGED <<overtaken, overwritten, dropped, cut, done, archived, target, branch, checkout,
                     archiveRefs, diedAt>>
      /\ task' = [task EXCEPT !.at = "marked"] \/ task' = NoTask
  BY DEF WriteMarker, RecordWorkspace, historyVars
<1>2. TreeTyped'
  <2>1. /\ owned' = owned \/ owned' = TRUE
        /\ recorded' = recorded \/ recorded' = TRUE
        /\ active' = active \/ active' = TRUE
    BY DEF WriteMarker, RecordWorkspace
  <2>2. task' \in TaskRecord
    BY <1>1, NothingTyped DEF WorktreeInv, TreeTyped, TaskRecord
  <2> QED
    BY <1>1, <2>1, <2>2 DEF WorktreeInv, TreeTyped
<1>3. Kept' = Kept
  BY <1>1 DEF Kept
<1>4. LossesAccounted'
  BY <1>1, <1>3 DEF WorktreeInv, LossesAccounted
<1>5. task'.at \in {"marked", "none"} /\ task'.unlisted \in {{}, task.unlisted}
  BY <1>1 DEF WorktreeInv, TreeTyped, NoTask, TaskRecord
<1>6. CleanupInv'
  BY <1>5 DEF CleanupInv, Cleaning
<1> QED
  BY <1>2, <1>4, <1>5, <1>6 DEF WorktreeInv

\* A unit that is started under a cleanup is what the invariant excludes.
LEMMA RunKeepsTree == ASSUME WorktreeInv, RunAgain PROVE WorktreeInv'
<1>1. /\ UNCHANGED <<done, target, checkout, owned, recorded, archived, archiveRefs, task, overwritten,
                     dropped, cut, diedAt>>
      /\ active' = TRUE /\ overtaken' = (overtaken \/ task.at # "none")
      /\ branch' = branch \/ branch' = [branch EXCEPT !.tip = IF branch.commits = {}
                                   THEN [commit |-> NoWork, base |-> target.merges] ELSE @]
  BY DEF RunAgain
<1>2. /\ branch' \in BranchRecord
      /\ branch'.there = branch.there /\ branch'.commits = branch.commits
  <2>1. branch \in BranchRecord
        /\ [commit |-> NoWork, base |-> target.merges] \in Tip
    BY DEF WorktreeInv, TreeTyped, Tip
  <2> QED
    BY <1>1, <2>1 DEF BranchRecord
<1>3. TreeTyped'
  BY <1>1, <1>2 DEF WorktreeInv, TreeTyped
<1>4. Kept' = Kept
  BY <1>1, <1>2 DEF Kept
<1>5. LossesAccounted'
  BY <1>1, <1>4 DEF WorktreeInv, LossesAccounted
<1>6. overtaken' \/ CleanupInv'
  BY <1>1 DEF CleanupInv, Cleaning
<1> QED
  BY <1>1, <1>3, <1>5, <1>6 DEF WorktreeInv

\* While a runner works, no cleanup does.
LEMMA RunnerKeepsTree ==
  ASSUME WorktreeInv,
         \/ \E w \in Work : CommitWork(w) \/ CommitDetached(w) \/ LeaveIgnored(w)
         \/ \E t \in Commits \cup {NoWork} : DropTip(t)
         \/ Touch \/ StopUnit
  PROVE  WorktreeInv'
<1>1. /\ UNCHANGED <<target, archived, archiveRefs, task, overtaken, overwritten, cut, diedAt,
                     owned, recorded>>
      /\ active
  BY DEF CommitWork, CommitDetached, LeaveIgnored, Produce, DropTip, Touch, StopUnit, historyVars
<1>2. CASE StopUnit
  <2>1. /\ active' = FALSE /\ UNCHANGED <<done, branch, checkout, dropped>>
    BY <1>2 DEF StopUnit, historyVars
  <2>2. Kept' = Kept /\ TreeTyped'
    BY <1>1, <2>1 DEF Kept, WorktreeInv, TreeTyped
  <2>3. Unique' = Unique /\ Orphans' = Orphans /\ IgnoredFiles' = IgnoredFiles /\ Stored' = Stored
    BY <1>1, <2>1 DEF Unique, Orphans, IgnoredFiles, Stored
  <2>4. overtaken \/ ~Cleaning
    BY <1>1 DEF WorktreeInv, CleanupInv
  <2>5. overtaken' \/ CleanupInv'
    BY <1>1, <2>4 DEF CleanupInv, Cleaning
  <2> QED
    BY <1>1, <2>1, <2>2, <2>5 DEF WorktreeInv, LossesAccounted
<1>3. CASE \/ \E w \in Work : CommitWork(w) \/ CommitDetached(w) \/ LeaveIgnored(w)
           \/ \E t \in Commits \cup {NoWork} : DropTip(t)
           \/ Touch
  <2>1. overtaken' \/ CleanupInv'
    <3>1. overtaken \/ ~Cleaning
      BY <1>1 DEF WorktreeInv, CleanupInv
    <3> QED
      BY <1>1, <3>1 DEF CleanupInv, Cleaning
  <2>2. CASE Touch
    <3>1. /\ checkout' = [checkout EXCEPT !.dirty = ~@] /\ UNCHANGED <<done, branch, active, dropped>>
      BY <2>2 DEF Touch, historyVars
    <3>2. /\ checkout' \in CheckoutRecord /\ checkout'.there = checkout.there
          /\ checkout'.ignored = checkout.ignored /\ checkout'.visited = checkout.visited
      BY <3>1 DEF WorktreeInv, TreeTyped, CheckoutRecord
    <3>3. Kept' = Kept
      BY <1>1, <3>1, <3>2 DEF Kept
    <3>4. TreeTyped'
      BY <1>1, <3>1, <3>2 DEF WorktreeInv, TreeTyped
    <3> QED
      BY <1>1, <2>1, <3>1, <3>3, <3>4 DEF WorktreeInv, LossesAccounted
  <2>3. CASE \E w \in Work : CommitWork(w) \/ CommitDetached(w) \/ LeaveIgnored(w)
    <3>1. PICK w \in Work : CommitWork(w) \/ CommitDetached(w) \/ LeaveIgnored(w)
      BY <2>3
    <3>2. /\ done' = done \cup {w} /\ UNCHANGED <<active, dropped>> /\ checkout.there
      BY <3>1 DEF CommitWork, CommitDetached, LeaveIgnored, Produce, historyVars
    <3>3. /\ branch \in BranchRecord
          /\ checkout \in CheckoutRecord
      BY DEF WorktreeInv, TreeTyped
    <3>4. CASE CommitWork(w)
      <4>1. /\ branch' = [branch EXCEPT !.commits = @ \cup {w}, !.tip = [@ EXCEPT !.commit = w]]
            /\ checkout' = checkout /\ w \in Commits /\ branch.there
        BY <3>4 DEF CommitWork
      <4>2. branch'.tip \in Tip /\ branch'.there /\ branch'.commits = branch.commits \cup {w}
        BY <3>3, <4>1 DEF Tip, BranchRecord
      <4>3. TreeTyped'
        BY <1>1, <3>2, <3>3, <4>1, <4>2 DEF WorktreeInv, TreeTyped, BranchRecord
      <4>4. Kept \cup {w} \subseteq Kept'
        BY <1>1, <4>1, <4>2 DEF Kept
      <4> QED
        BY <1>1, <2>1, <3>2, <4>3, <4>4 DEF WorktreeInv, LossesAccounted
    <3>5. CASE CommitDetached(w)
      <4>1. /\ checkout' = [checkout EXCEPT !.visited = @ \cup {w}]
            /\ branch' = branch /\ w \in Detached
        BY <3>5 DEF CommitDetached
      <4>2. /\ checkout'.there /\ checkout'.visited = checkout.visited \cup {w}
            /\ checkout'.ignored = checkout.ignored
        BY <3>2, <3>3, <4>1
      <4>3. TreeTyped'
        BY <1>1, <3>2, <3>3, <4>1 DEF WorktreeInv, TreeTyped, CheckoutRecord
      <4>4. Kept \cup {w} \subseteq Kept'
        BY <1>1, <3>2, <4>1, <4>2 DEF Kept
      <4> QED
        BY <1>1, <2>1, <3>2, <4>3, <4>4 DEF WorktreeInv, LossesAccounted
    <3>6. CASE LeaveIgnored(w)
      <4>1. /\ checkout' = [checkout EXCEPT !.ignored = @ \cup {w}]
            /\ branch' = branch /\ w \in Ignored
        BY <3>6 DEF LeaveIgnored
      <4>2. /\ checkout'.there /\ checkout'.ignored = checkout.ignored \cup {w}
            /\ checkout'.visited = checkout.visited
        BY <3>2, <3>3, <4>1
      <4>3. TreeTyped'
        BY <1>1, <3>2, <3>3, <4>1 DEF WorktreeInv, TreeTyped, CheckoutRecord
      <4>4. Kept \cup {w} \subseteq Kept'
        BY <1>1, <3>2, <4>1, <4>2 DEF Kept
      <4> QED
        BY <1>1, <2>1, <3>2, <4>3, <4>4 DEF WorktreeInv, LossesAccounted
    <3> QED
      BY <3>1, <3>4, <3>5, <3>6
  <2>4. CASE \E t \in Commits \cup {NoWork} : DropTip(t)
    <3>1. PICK t \in Commits \cup {NoWork} : DropTip(t)
      BY <2>4
    <3> DEFINE w == branch.tip.commit
    <3>2. /\ branch' = [branch EXCEPT !.commits = @ \ {w}, !.tip = [@ EXCEPT !.commit = t]]
          /\ dropped' = dropped \cup {w} /\ w \in branch.commits
          /\ UNCHANGED <<done, checkout, active>>
      BY <3>1 DEF DropTip
    <3> HIDE DEF w
    <3>3. branch \in BranchRecord /\ w \in Commits
      BY <3>2 DEF WorktreeInv, TreeTyped, BranchRecord
    <3>4. /\ branch'.tip \in Tip /\ branch'.there = branch.there
          /\ branch'.commits = branch.commits \ {w} /\ branch' \in BranchRecord
      BY <3>2, <3>3 DEF Tip, BranchRecord
    <3>5. TreeTyped'
      BY <1>1, <3>2, <3>3, <3>4 DEF WorktreeInv, TreeTyped
    <3>6. Kept \subseteq Kept' \cup {w}
      BY <1>1, <3>2, <3>4 DEF Kept
    <3> QED
      BY <1>1, <2>1, <3>2, <3>5, <3>6 DEF WorktreeInv, LossesAccounted
  <2> QED
    BY <1>3, <2>2, <2>3, <2>4
<1> QED
  BY <1>2, <1>3

\* A merge leaves less to be saved.
LEMMA MergeKeepsTree == ASSUME WorktreeInv, MergeUnit PROVE WorktreeInv'
<1>1. /\ UNCHANGED <<done, branch, checkout, owned, recorded, active, archived, archiveRefs, task,
                     overtaken, overwritten, dropped, cut, diedAt>>
      /\ target' = [merges |-> target.merges + 1, commits |-> target.commits \cup branch.commits]
      /\ target.merges < MaxMerges /\ target.merges \in 0..MaxMerges
      /\ target.commits \subseteq Commits /\ branch.commits \subseteq Commits
  BY DEF MergeUnit, historyVars, WorktreeInv, TreeTyped, BranchRecord
<1>2. target'.merges \in 0..MaxMerges /\ target'.commits = target.commits \cup branch.commits
  BY <1>1, WorktreeAssumption
<1>3. TreeTyped'
  BY <1>1, <1>2 DEF WorktreeInv, TreeTyped
<1>4. Kept \subseteq Kept'
  BY <1>1, <1>2 DEF Kept
<1>5. Unique' \subseteq Unique /\ Orphans' = Orphans /\ IgnoredFiles' = IgnoredFiles /\ Stored' = Stored
  BY <1>1, <1>2 DEF Unique, Orphans, IgnoredFiles, Stored
<1>6. CleanupInv => CleanupInv'
  BY <1>1, <1>5 DEF CleanupInv, Cleaning, IgnoredName
<1> QED
  BY <1>1, <1>3, <1>4, <1>6 DEF WorktreeInv, LossesAccounted

\* A list is not cut before it is longer than the limit.
LEMMA ListCut ==
  ASSUME NEW all \in SUBSET Detached, NEW kept \in Listed(all)
  PROVE  kept \subseteq all /\ (all \ kept # {} => Cardinality(Detached) > MaxOrphans)
<1>1. CASE Cardinality(all) <= MaxOrphans
  BY <1>1 DEF Listed
<1>2. CASE ~(Cardinality(all) <= MaxOrphans)
  <2>1. IsFiniteSet(all) /\ Cardinality(all) <= Cardinality(Detached)
    BY WorktreeAssumption, FS_Subset
  <2>2. Cardinality(all) \in Nat /\ Cardinality(Detached) \in Nat
    BY <2>1, WorktreeAssumption, FS_CardinalityType
  <2> QED
    BY <1>2, <2>1, <2>2, WorktreeAssumption DEF Listed
<1> QED
  BY <1>1, <1>2

\* A cleanup begins where nothing works, and notes all that only the unit has.
LEMMA BeginKeepsTree ==
  ASSUME WorktreeInv, NEW archive \in BOOLEAN, NEW orphans \in SUBSET Detached,
         BeginCleanup(archive, orphans)
  PROVE  WorktreeInv'
<1>1. /\ UNCHANGED <<done, target, branch, checkout, owned, recorded, active, archived,
                     archiveRefs, overtaken, overwritten, dropped, cut, diedAt>>
      /\ task' = [at |-> "ignored", unique |-> Unique, orphans |-> orphans,
                  unlisted |-> Orphans \ orphans, ignored |-> IgnoredFiles,
                  tip |-> IF branch.there THEN branch.tip ELSE NoBranch.tip]
      /\ ~active /\ orphans \in Listed(Orphans)
  BY DEF BeginCleanup, historyVars
<1>6. Orphans \in SUBSET Detached
  BY DEF WorktreeInv, TreeTyped, CheckoutRecord, Orphans
<1>7. task'.unlisted # {} => Cardinality(Detached) > MaxOrphans
  BY <1>1, <1>6, ListCut
<1>2. task' \in TaskRecord
  <2>1. NoBranch.tip \in Tip /\ branch.tip \in Tip /\ Unique \subseteq Commits
        /\ Orphans \subseteq Detached /\ IgnoredFiles \subseteq Ignored
    BY NothingTyped DEF WorktreeInv, TreeTyped, BranchRecord, CheckoutRecord, Unique, Orphans, IgnoredFiles
  <2> QED
    BY <1>1, <2>1 DEF TaskRecord
<1>3. TreeTyped'
  BY <1>1, <1>2 DEF WorktreeInv, TreeTyped
<1>4. Kept' = Kept /\ Unique' = Unique /\ Orphans' = Orphans /\ IgnoredFiles' = IgnoredFiles
  BY <1>1 DEF Kept, Unique, Orphans, IgnoredFiles
<1>5. CleanupInv'
  BY <1>1, <1>4 DEF CleanupInv, Cleaning
<1> QED
  BY <1>1, <1>3, <1>4, <1>5, <1>7 DEF WorktreeInv, LossesAccounted

\* What a replaced file alone held counts as overwritten.
LEMMA ReplaceKeepsStored ==
  ASSUME TreeTyped, NEW n \in ArchiveName, NEW content \in SUBSET Work, ReplaceFile(n, content)
  PROVE  /\ archived' \in [ArchiveName -> SUBSET Work] /\ overwritten' \subseteq Work
         /\ overwritten \subseteq overwritten' /\ Stored \subseteq Stored' \cup overwritten'
         /\ content \subseteq Stored'
         /\ \A m \in ArchiveName \ {n} : archived'[m] = archived[m]
         /\ archived'[n] = content
<1>1. /\ archived' = [archived EXCEPT ![n] = content] /\ archived \in [ArchiveName -> SUBSET Work]
      /\ overwritten' = overwritten \cup {w \in archived[n] \ content :
                           \A m \in ArchiveName \ {n} : w \notin archived[m]}
      /\ overwritten \subseteq Work
  BY DEF ReplaceFile, TreeTyped
<1>2. /\ archived' \in [ArchiveName -> SUBSET Work] /\ archived'[n] = content
      /\ \A m \in ArchiveName \ {n} : archived'[m] = archived[m]
  BY <1>1
<1>3. ASSUME NEW w \in Stored PROVE w \in Stored' \cup overwritten'
  <2>1. PICK m \in ArchiveName : w \in archived[m]
    BY <1>3 DEF Stored
  <2>2. CASE \E k \in ArchiveName \ {n} : w \in archived[k]
    BY <1>2, <2>2 DEF Stored
  <2>3. CASE ~\E k \in ArchiveName \ {n} : w \in archived[k]
    <3>1. w \in archived[n]
      BY <2>1, <2>3
    <3>2. CASE w \in content
      BY <1>2, <3>2 DEF Stored
    <3>3. CASE w \notin content
      BY <1>1, <2>3, <3>1, <3>3
    <3> QED
      BY <3>2, <3>3
  <2> QED
    BY <2>2, <2>3
<1> QED
  BY <1>1, <1>2, <1>3 DEF Stored

LEMMA IgnoredKeepsTree == ASSUME WorktreeInv, ArchiveIgnored PROVE WorktreeInv'
<1>1. /\ UNCHANGED <<done, target, branch, checkout, owned, recorded, active, archiveRefs,
                     overtaken, dropped, cut, diedAt>>
      /\ task.at = "ignored" /\ task' = [task EXCEPT !.at = "bundle"]
      /\ task \in TaskRecord /\ checkout \in CheckoutRecord
  BY DEF ArchiveIgnored, WorktreeInv, TreeTyped
<1>2. /\ task' \in TaskRecord /\ task'.at = "bundle" /\ task'.tip = task.tip
      /\ task'.orphans = task.orphans /\ task'.unlisted = task.unlisted
      /\ task'.unique = task.unique
      /\ task.ignored \subseteq Ignored /\ task.tip \in Tip
  BY <1>1 DEF TaskRecord
<1>3. /\ IgnoredName \in ArchiveName /\ IgnoredName' = IgnoredName
      /\ task.ignored \cap checkout.ignored \in SUBSET Work
  BY <1>2 DEF IgnoredName, ArchiveName, Work
<1>4. /\ archived' \in [ArchiveName -> SUBSET Work] /\ overwritten' \subseteq Work
      /\ overwritten \subseteq overwritten' /\ Stored \subseteq Stored' \cup overwritten'
      /\ task.ignored \cap IgnoredFiles \subseteq archived'[IgnoredName]
  <2>1. CASE task.ignored = {}
    BY <1>1, <2>1 DEF ArchiveIgnored, WorktreeInv, TreeTyped, Stored
  <2>2. CASE task.ignored # {}
    <3>1. ReplaceFile(IgnoredName, task.ignored \cap checkout.ignored)
      BY <2>2 DEF ArchiveIgnored, IgnoredName
    <3> QED
      BY <1>3, <3>1, ReplaceKeepsStored DEF WorktreeInv, IgnoredFiles
  <2> QED
    BY <2>1, <2>2
<1>5. TreeTyped'
  BY <1>1, <1>2, <1>4 DEF WorktreeInv, TreeTyped
<1>6. Kept \subseteq Kept' \cup overwritten'
  BY <1>1, <1>4 DEF Kept, Stored
<1>7. Unique' = Unique /\ Orphans' = Orphans /\ IgnoredFiles' = IgnoredFiles
  BY <1>1 DEF Unique, Orphans, IgnoredFiles
<1>8. CleanupInv => CleanupInv'
  BY <1>1, <1>2, <1>3, <1>4, <1>7 DEF CleanupInv, Cleaning
<1> QED
  BY <1>1, <1>2, <1>4, <1>5, <1>6, <1>8 DEF WorktreeInv, LossesAccounted

\* The bundle has another name than the file of ignored files.
LEMMA BundleKeepsTree == ASSUME WorktreeInv, BundleWork PROVE WorktreeInv'
<1>1. /\ UNCHANGED <<done, target, branch, checkout, owned, recorded, active, overtaken, dropped, cut,
                     diedAt>>
      /\ task.at = "bundle" /\ archiveRefs' = {}
      /\ task \in TaskRecord /\ checkout \in CheckoutRecord /\ branch \in BranchRecord
      /\ task' = NoTask \/ task' = [task EXCEPT !.at = "remove"]
  BY DEF BundleWork, WorktreeInv, TreeTyped
<1>2. /\ task' \in TaskRecord /\ task'.at \in {"none", "remove"}
      /\ task'.at = "remove" => task'.unlisted = task.unlisted
      /\ task'.unlisted \in {{}, task.unlisted}
      /\ task.orphans \subseteq Detached /\ task.tip \in Tip
  BY <1>1, NothingTyped DEF TaskRecord, NoTask
<1> DEFINE name == [kind |-> "bundle", tip |-> task.tip]
           content == task.orphans \cup (IF task.unique = {} THEN {} ELSE Unique)
<1>3. /\ IgnoredName \in ArchiveName \ {name} /\ name \in ArchiveName
      /\ content \in SUBSET Work
  BY <1>1, <1>2 DEF IgnoredName, ArchiveName, Work, Unique, BranchRecord
<1>4. /\ archived' \in [ArchiveName -> SUBSET Work] /\ overwritten' \subseteq Work
      /\ overwritten \subseteq overwritten' /\ Stored \subseteq Stored' \cup overwritten'
      /\ archived'[IgnoredName] = archived[IgnoredName]
      /\ task'.at = "remove" => content \subseteq Stored'
  <2>2. CASE ReplaceFile(name, content)
    <3> HIDE DEF name, content
    <3> QED
      BY <1>3, <2>2, ReplaceKeepsStored DEF WorktreeInv
  <2>3. CASE task.unique = {} /\ task.orphans = {}
    <3>1. UNCHANGED <<archived, overwritten>> /\ content = {}
      BY <2>3 DEF BundleWork
    <3> QED
      BY <3>1 DEF WorktreeInv, TreeTyped, Stored
  <2>4. CASE ~(task.unique = {} /\ task.orphans = {}) /\ task.orphans \cap archiveRefs # {}
    <3>1. task'.at # "remove" /\ UNCHANGED <<archived, overwritten>>
      BY <2>4 DEF BundleWork, NoTask
    <3> QED
      BY <3>1 DEF WorktreeInv, TreeTyped, Stored
  <2>5. CASE ~(task.unique = {} /\ task.orphans = {}) /\ task.orphans \cap archiveRefs = {}
    <3>1. ReplaceFile([kind |-> "bundle", tip |-> task.tip],
                      task.orphans \cup (IF task.unique = {} THEN {} ELSE Unique))
      BY <2>5 DEF BundleWork
    <3> QED
      BY <2>2, <3>1
  <2> QED
    BY <2>3, <2>4, <2>5
<1> HIDE DEF name, content
<1>5. TreeTyped'
  BY <1>1, <1>2, <1>4 DEF WorktreeInv, TreeTyped
<1>6. Kept \subseteq Kept' \cup overwritten'
  BY <1>1, <1>4 DEF Kept, Stored
<1>7. Unique' = Unique /\ Orphans' = Orphans /\ IgnoredFiles' = IgnoredFiles
  BY <1>1 DEF Unique, Orphans, IgnoredFiles
<1>8. CleanupInv => CleanupInv'
  <2> SUFFICES ASSUME CleanupInv, task'.at = "remove" PROVE CleanupInv'
    BY <1>2 DEF CleanupInv, Cleaning
  <2>1. IgnoredFiles \subseteq archived'[IgnoredName]
    BY <1>1, <1>4 DEF CleanupInv
  <2>2. Orphans \cup Unique \subseteq content \cup task.unlisted /\ Unique \subseteq content
    BY <1>1 DEF CleanupInv, content
  <2>3. /\ IgnoredFiles \cup Orphans \subseteq Stored' \cup task'.unlisted
        /\ Unique \subseteq Stored'
    BY <1>2, <1>3, <1>4, <2>1, <2>2 DEF Stored
  <2> QED
    BY <1>1, <1>7, <2>3 DEF CleanupInv, Cleaning
<1> QED
  BY <1>1, <1>2, <1>4, <1>5, <1>6, <1>8 DEF WorktreeInv, LossesAccounted

\* What goes with the checkout, and with the branch, is in an archive.
LEMMA RemoveKeepsTree ==
  ASSUME WorktreeInv, RemoveCheckout \/ DeleteBranch \/ RemoveMarker PROVE WorktreeInv'
<1>1. /\ UNCHANGED <<done, target, recorded, active, archived, archiveRefs, overtaken, overwritten,
                     dropped, diedAt>>
      /\ Stored' = Stored
      /\ task \in TaskRecord /\ checkout \in CheckoutRecord /\ branch \in BranchRecord
  BY DEF RemoveCheckout, DeleteBranch, RemoveMarker, historyVars, WorktreeInv, TreeTyped, Stored
<1>2. CASE RemoveCheckout
  <2>1. /\ UNCHANGED <<branch, owned>> /\ task.at = "remove"
        /\ \/ task' = NoTask /\ checkout' = checkout /\ cut' = cut
           \/ /\ task' = [task EXCEPT !.at = "branch"] /\ checkout' = NoCheckout
              /\ cut' = cut \cup task.unlisted
    BY <1>2 DEF RemoveCheckout, historyVars
  <2>2. task' \in TaskRecord /\ task'.at \in {"none", "branch"} /\ checkout' \in CheckoutRecord
        /\ task'.unlisted \in {{}, task.unlisted} /\ cut' \subseteq cut \cup task.unlisted
        /\ cut \subseteq cut' /\ cut' \subseteq Detached
    BY <1>1, <2>1, NothingTyped DEF TaskRecord, NoTask, WorktreeInv, TreeTyped
  <2>3. TreeTyped'
    BY <1>1, <2>1, <2>2 DEF WorktreeInv, TreeTyped
  <2>4. Kept' = Kept \/ (checkout' = NoCheckout /\ task.at = "remove" /\ task.unlisted \subseteq cut')
    BY <1>1, <2>1 DEF Kept
  <2>5. CleanupInv => Kept \subseteq Kept' \cup cut'
    BY <1>1, <2>1, <2>4 DEF Kept, Stored, CleanupInv, IgnoredFiles, Orphans
  <2>6. CleanupInv => CleanupInv'
    BY <1>1, <2>1, <2>2 DEF CleanupInv, Cleaning, Unique
  <2> QED
    BY <1>1, <2>2, <2>3, <2>5, <2>6 DEF WorktreeInv, LossesAccounted
<1>3. CASE DeleteBranch
  <2>1. /\ UNCHANGED <<checkout, owned, cut>> /\ task.at = "branch"
        /\ branch' = NoBranch /\ task' = [task EXCEPT !.at = "marker"]
    BY <1>3 DEF DeleteBranch, historyVars
  <2>2. /\ task' \in TaskRecord /\ task'.at = "marker" /\ branch' \in BranchRecord
        /\ task'.unlisted = task.unlisted
    BY <1>1, <2>1, NothingTyped DEF TaskRecord
  <2>3. TreeTyped'
    BY <1>1, <2>1, <2>2 DEF WorktreeInv, TreeTyped
  <2>4. CleanupInv => Kept \subseteq Kept'
    BY <1>1, <2>1 DEF Kept, Stored, CleanupInv, Unique
  <2>5. CleanupInv => CleanupInv'
    BY <1>1, <2>1, <2>2 DEF CleanupInv, Cleaning
  <2> QED
    BY <1>1, <2>1, <2>2, <2>3, <2>4, <2>5 DEF WorktreeInv, LossesAccounted
<1>4. CASE RemoveMarker
  <2>1. UNCHANGED <<checkout, branch, cut>> /\ owned' = FALSE /\ task' = NoTask
    BY <1>4 DEF RemoveMarker, historyVars
  <2>2. TreeTyped'
    BY <1>1, <2>1, NothingTyped DEF WorktreeInv, TreeTyped
  <2>3. Kept' = Kept /\ CleanupInv'
    BY <1>1, <2>1 DEF Kept, CleanupInv, Cleaning, NoTask
  <2> QED
    BY <1>1, <2>1, <2>2, <2>3 DEF WorktreeInv, LossesAccounted, NoTask
<1> QED
  BY <1>2, <1>3, <1>4

LEMMA DeathKeepsTree == ASSUME WorktreeInv, TaskDies PROVE WorktreeInv'
<1>1. /\ UNCHANGED <<done, target, branch, checkout, owned, recorded, active, archived,
                     overtaken, overwritten, dropped, cut>>
      /\ task' = NoTask /\ diedAt' = diedAt + 1 /\ diedAt < MaxCrashes
      /\ archiveRefs' = archiveRefs \/ archiveRefs' = task.orphans
      /\ task \in TaskRecord
  BY DEF TaskDies, WorktreeInv, TreeTyped
<1>2. diedAt' \in 0..MaxCrashes
  BY <1>1, WorktreeAssumption DEF WorktreeInv, TreeTyped
<1>3. archiveRefs' \subseteq Detached
  BY <1>1 DEF WorktreeInv, TreeTyped, TaskRecord
<1>4. TreeTyped'
  BY <1>1, <1>2, <1>3, NothingTyped DEF WorktreeInv, TreeTyped
<1>5. Kept' = Kept /\ CleanupInv'
  BY <1>1 DEF Kept, CleanupInv, Cleaning, NoTask
<1> QED
  BY <1>1, <1>4, <1>5 DEF WorktreeInv, LossesAccounted, NoTask

LEMMA TreesInductive == WorktreeInv /\ [WorktreeNext]_worktreeVars => WorktreeInv'
<1> SUFFICES ASSUME WorktreeInv, [WorktreeNext]_worktreeVars PROVE WorktreeInv'
  OBVIOUS
<1>1. CASE UNCHANGED worktreeVars
  BY <1>1 DEF worktreeVars, WorktreeInv, TreeTyped, LossesAccounted, Kept, CleanupInv,
       Cleaning, Unique, Orphans, IgnoredFiles, IgnoredName, Stored
<1>2. CASE WorktreeNext
  BY <1>2, AddKeepsTree, CreationKeepsTree, RunKeepsTree, RunnerKeepsTree, MergeKeepsTree,
     BeginKeepsTree, IgnoredKeepsTree, BundleKeepsTree, RemoveKeepsTree, DeathKeepsTree
     DEF WorktreeNext, RunnerStep, CleanupStep
<1> QED
  BY <1>1, <1>2

\* Work is lost only where a later archive takes an earlier one's name, where
\* the unit took the commit off its branch, where there are more orphans than
\* cleanup lists, or where the unit is started under its cleanup: whatever step
\* of a cleanup its process dies at (worktrees/manager.py, cleanup), for every
\* set of pieces of work and every number of merges, crashes and listed orphans.
THEOREM WorkAccounted == WorktreeSpec => []LossesAccounted
<1>1. WorktreeInv => LossesAccounted
  BY DEF WorktreeInv
<1> QED
  BY <1>1, TreesInitially, TreesInductive, PTL DEF WorktreeSpec

\* Every worktree operation keeps the checkout, its archives and its refs well formed.
THEOREM WorktreesTyped == WorktreeSpec => []WorktreeTypeOK
<1>1. WorktreeInv => WorktreeTypeOK
  BY Typed DEF WorktreeInv
<1> QED
  BY <1>1, TreesInitially, TreesInductive, PTL DEF WorktreeSpec

(***************************** The controller ******************************)

Costs == [Tier -> Nat]

ControllerRecord ==
  [tier : Tier, at : Nat, spent : Nat, here : Nat, extra : Nat, reserve : Nat,
   action : {"attempt", "repair", "escalate", "stop", "done"}, history : Seq(Attempt)]

Objective(h) == {i \in 1..Len(h) : h[i].objective}

\* A controller went up a tier at most once for each objective failure it saw.
Earned(c) == c \in ControllerRecord /\ c.tier <= Cardinality(Objective(c.history))

LEMMA ReserveSpent ==
  ASSUME NEW c, Earned(c)
  PROVE  /\ Earned(SpendReserve(c)) /\ SpendReserve(c).history = c.history
         /\ SpendReserve(c).action = "stop" => SpendReserve(c).reserve = 0
         /\ (c.action # "stop" \/ c.reserve = 0) => SpendReserve(c) = c
<1>1. CASE c.reserve > 0 /\ c.action = "stop"
  <2> DEFINE d == [c EXCEPT !.extra = @ + c.reserve, !.reserve = 0, !.action = "repair"]
  <2>1. d \in ControllerRecord
    <3>1. c \in ControllerRecord /\ c.extra + c.reserve \in Nat
      BY DEF Earned, ControllerRecord
    <3> QED
      BY <3>1 DEF ControllerRecord
  <2>2. d.tier = c.tier /\ d.history = c.history /\ d.reserve = 0
    BY DEF Earned, ControllerRecord
  <2>3. SpendReserve(c) = d
    BY <1>1 DEF SpendReserve
  <2> HIDE DEF d
  <2> QED
    BY <1>1, <2>1, <2>2, <2>3 DEF Earned
<1>2. CASE ~(c.reserve > 0 /\ c.action = "stop")
  <2>1. SpendReserve(c) = c
    BY <1>2 DEF SpendReserve
  <2>2. c.reserve \in Nat
    BY DEF Earned, ControllerRecord
  <2> QED
    BY <1>2, <2>1, <2>2
<1> QED
  BY <1>1, <1>2

LEMMA Counted ==
  ASSUME NEW h \in Seq(Attempt), NEW a \in Attempt
  PROVE  /\ Append(h, a) \in Seq(Attempt)
         /\ Cardinality(Objective(h)) \in Nat
         /\ a.objective => Cardinality(Objective(Append(h, a))) = Cardinality(Objective(h)) + 1
         /\ ~a.objective => Cardinality(Objective(Append(h, a))) = Cardinality(Objective(h))
<1> DEFINE n == Len(h)
           g == Append(h, a)
<1>1. /\ n \in Nat /\ g \in Seq(Attempt) /\ Len(g) = n + 1 /\ g[n + 1] = a
      /\ \A i \in 1..n : g[i] = h[i]
      /\ \A i \in 1..n + 1 : i \in 1..n \/ i = n + 1
      /\ \A i \in 1..n : i \in 1..n + 1 /\ i # n + 1
  OBVIOUS
<1> HIDE DEF g
<1>2. IsFiniteSet(Objective(h)) /\ Cardinality(Objective(h)) \in Nat
  <2>1. IsFiniteSet(1..n) /\ Objective(h) \subseteq 1..n
    BY <1>1, FS_Interval DEF Objective
  <2> QED
    BY <2>1, FS_Subset, FS_CardinalityType
<1>3. n + 1 \notin Objective(h)
  BY <1>1 DEF Objective
<1>4. CASE a.objective
  <2>1. Objective(g) = Objective(h) \cup {n + 1}
    BY <1>1, <1>4 DEF Objective
  <2>2. Cardinality(Objective(h) \cup {n + 1}) = Cardinality(Objective(h)) + 1
    <3> HIDE DEF n
    <3> QED
      BY <1>2, <1>3, FS_AddElement
  <2> QED
    BY <1>1, <1>2, <1>4, <2>1, <2>2 DEF g
<1>5. CASE ~a.objective
  <2>1. Objective(g) = Objective(h)
    BY <1>1, <1>5 DEF Objective
  <2> QED
    BY <1>1, <1>2, <1>5, <2>1 DEF g
<1> QED
  BY <1>4, <1>5

LEMMA Decided ==
  ASSUME NEW est \in Costs, NEW c \in ControllerRecord, NEW a \in Attempt,
         NEW d, d = Decide(c, a, est)
  PROVE  /\ d \in ControllerRecord /\ d.history = c.history
         /\ d.tier = c.tier \/ (a.objective /\ d.tier = c.tier + 1)
<1>1. /\ MaxTier \in Nat /\ c.tier \in 0..MaxTier /\ est \in [0..MaxTier -> Nat]
  BY EscalationAssumption DEF ControllerRecord, Tier, Costs
<1> DEFINE Now(action) == [c EXCEPT !.action = action]
           Up == [c EXCEPT !.tier = @ + 1, !.at = 0, !.here = 0, !.action = "escalate"]
           canEscalate == a.objective /\ c.tier < MaxTier
<1>2. \A action \in {"attempt", "repair", "escalate", "stop", "done"} :
        /\ Now(action) \in ControllerRecord
        /\ Now(action).history = c.history /\ Now(action).tier = c.tier
  BY DEF ControllerRecord
<1>3. canEscalate => Up \in ControllerRecord /\ Up.history = c.history /\ Up.tier = c.tier + 1
  <2> SUFFICES ASSUME canEscalate
               PROVE  Up \in ControllerRecord /\ Up.history = c.history /\ Up.tier = c.tier + 1
    OBVIOUS
  <2>1. c.tier + 1 \in Tier
    BY <1>1 DEF Tier
  <2> QED
    BY <2>1 DEF ControllerRecord
<1>4. MoveUp(c, est) \in {Up, Now("stop")}
  BY DEF MoveUp
<1>5. d \in {Now("done"), Now("stop"), Now("repair")} \/ (canEscalate /\ d = MoveUp(c, est))
  <2>1. CASE a.passed
    BY <2>1 DEF Decide
  <2>2. CASE ~a.passed /\ c.spent >= MaxCost
    BY <2>2 DEF Decide
  <2>3. CASE ~a.passed /\ ~(c.spent >= MaxCost) /\ c.at < Cap(c)
    <3>1. c.spent < MaxCost
      BY <2>3, EscalationAssumption DEF ControllerRecord
    <3> QED
      BY <2>3, <3>1 DEF Decide
  <2>4. CASE ~a.passed /\ ~(c.spent >= MaxCost) /\ ~(c.at < Cap(c))
    BY <2>4 DEF Decide
  <2> QED
    BY <2>1, <2>2, <2>3, <2>4
<1> HIDE DEF Now, Up
<1> QED
  BY <1>2, <1>3, <1>4, <1>5

LEMMA Recorded ==
  ASSUME NEW est \in Costs, NEW c, Earned(c), NEW a \in Attempt,
         NEW d, d = Record(c, a, est)
  PROVE  /\ Earned(d) /\ d.history = Append(c.history, a)
         /\ d.action = "stop" => d.reserve = 0
<1> DEFINE counted == [c EXCEPT !.at = @ + 1, !.spent = @ + a.cost, !.here = @ + a.cost,
                                !.history = Append(@, a)]
           after == Decide(counted, a, est)
<1>1. /\ c \in ControllerRecord /\ c.history \in Seq(Attempt) /\ c.tier \in Nat
      /\ c.tier <= Cardinality(Objective(c.history)) /\ a.cost \in Nat
  <2>1. c \in ControllerRecord /\ c.tier <= Cardinality(Objective(c.history))
    BY DEF Earned
  <2>2. c.history \in Seq(Attempt) /\ c.tier \in Tier
    BY <2>1 DEF ControllerRecord
  <2>3. a.cost \in Nat
    BY EscalationAssumption DEF Attempt
  <2> QED
    BY <2>1, <2>2, <2>3, EscalationAssumption DEF Tier
<1>2. Append(c.history, a) \in Seq(Attempt)
  BY <1>1, Counted
<1>3. counted \in ControllerRecord
  <2>1. c.at + 1 \in Nat /\ c.spent + a.cost \in Nat /\ c.here + a.cost \in Nat
    BY <1>1 DEF ControllerRecord
  <2> QED
    BY <1>1, <1>2, <2>1 DEF ControllerRecord
<1>4. counted.tier = c.tier /\ counted.history = Append(c.history, a)
  BY <1>1 DEF ControllerRecord
<1>5. d = SpendReserve(after)
  BY DEF Record
<1> HIDE DEF counted
<1>6. /\ after \in ControllerRecord /\ after.history = Append(c.history, a)
      /\ after.tier = c.tier \/ (a.objective /\ after.tier = c.tier + 1)
  BY <1>3, <1>4, Decided
<1> HIDE DEF after
<1>7. Earned(after)
  BY <1>1, <1>6, Counted DEF Earned
<1> QED
  BY <1>5, <1>6, <1>7, ReserveSpent

LEMMA Started ==
  ASSUME NEW est \in Costs, NEW granted \in Nat
  PROVE  /\ Earned(Start(granted, est)) /\ Start(granted, est).history = << >>
         /\ est[0] <= MaxCost => Start(granted, est).action = "attempt"
<1>1. 0 \in Tier
  BY EscalationAssumption DEF Tier
<1> DEFINE c == NewController(granted)
           d == Start(granted, est)
<1>2. c \in ControllerRecord /\ c.history = << >> /\ c.tier = 0
  BY <1>1 DEF NewController, ControllerRecord
<1> HIDE DEF c
<1>3. d \in ControllerRecord /\ d.history = c.history /\ d.tier = c.tier
  BY <1>2 DEF Start, ControllerRecord, c
<1>4. est[0] <= MaxCost => d.action = "attempt"
  BY <1>2 DEF Start, ControllerRecord, c
<1> HIDE DEF d
<1>5. Objective(<< >>) = {} /\ Cardinality({}) = 0
  BY FS_EmptySet DEF Objective
<1>6. d.history = << >> /\ d.tier = 0
  BY <1>2, <1>3
<1>7. Earned(d)
  <2>1. Objective(d.history) = {}
    BY <1>5, <1>6
  <2>2. Cardinality(Objective(d.history)) = 0
    BY <1>5, <2>1
  <2> QED
    BY <1>3, <1>6, <2>2 DEF Earned
<1> QED
  BY <1>4, <1>6, <1>7 DEF d

LEMMA ReplayedOne ==
  ASSUME NEW est \in Costs, NEW c, Earned(c), NEW a \in Attempt
  PROVE  Earned(ReplayOne(c, a, est))
  BY Recorded DEF ReplayOne

(********************************* Replaying *******************************)

EarnedRecord == {c \in ControllerRecord : Earned(c)}

LEMMA ReplayFolded ==
  ASSUME NEW est \in Costs, NEW granted \in Nat, NEW w \in Seq(Attempt)
  PROVE  \E got \in [0..Len(w) -> EarnedRecord] :
           /\ Replayed(w, granted, est) = got[Len(w)]
           /\ got[0] = Start(granted, est)
           /\ \A k \in 1..Len(w) : got[k] = ReplayOne(got[k - 1], w[k], est)
<1> DEFINE n == Len(w)
           V == EarnedRecord
           op == [p \in V \X Attempt |-> ReplayOne(p[1], p[2], est)]
           none == Start(granted, est)
<1>1. n \in Nat /\ w \in [1..n -> Attempt] /\ DOMAIN w = 1..n
  OBVIOUS
<1>2. op \in [V \X Attempt -> V]
  <2>1. ASSUME NEW c \in V, NEW a \in Attempt PROVE ReplayOne(c, a, est) \in V
    BY ReplayedOne DEF Earned, EarnedRecord
  <2> HIDE DEF V
  <2> QED
    BY <2>1
<1>3. \A c \in V, a \in Attempt : op[<<c, a>>] = ReplayOne(c, a, est)
  OBVIOUS
<1>4. none \in V
  BY Started DEF EarnedRecord, Earned
<1> HIDE DEF V, op, n, none
<1>5. PICK iter : FoldsOver(iter, V, op, none, n, w)
  BY <1>1, <1>2, <1>4, FoldExists
<1>6. /\ iter \in [SUBSET (1..n) -> V]
      /\ \A t \in SUBSET (1..n) :
           iter[t] = IF t = {} THEN none ELSE op[<<iter[t \ {Max(t)}], w[Max(t)]>>]
  BY <1>5 DEF FoldsOver
<1> DEFINE Folds(f) ==
             f = [t \in SUBSET (1..n) |-> IF t = {} THEN none
                                          ELSE ReplayOne(f[t \ {Max(t)}], w[Max(t)], est)]
<1>7. Folds(iter)
  <2>1. ASSUME NEW t \in SUBSET (1..n)
        PROVE  iter[t] = IF t = {} THEN none ELSE ReplayOne(iter[t \ {Max(t)}], w[Max(t)], est)
    <3>1. CASE t = {}
      BY <1>6, <3>1
    <3>2. CASE t # {}
      <4>1. Max(t) \in 1..n
        BY <1>1, <3>2, MaxOfSome
      <4>2. t \ {Max(t)} \in SUBSET (1..n) /\ iter[t \ {Max(t)}] \in V /\ w[Max(t)] \in Attempt
        BY <1>1, <1>6, <4>1
      <4> QED
        BY <1>3, <1>6, <3>2, <4>2
    <3> QED
      BY <3>1, <3>2
  <2> QED
    BY <1>6, <2>1
<1> DEFINE F == CHOOSE f : Folds(f)
<1>8. Folds(F)
  BY <1>7
<1>9. Replayed(w, granted, est) = F[1..n]
  BY <1>1 DEF Replayed, FoldLeft, MapThenFoldSet, none
<1> HIDE DEF F
<1>10. \A t \in SUBSET (1..n) :
        F[t] = IF t = {} THEN none ELSE ReplayOne(F[t \ {Max(t)}], w[Max(t)], est)
  BY <1>8
<1> DEFINE got == [k \in 0..n |-> F[1..k]]
<1>11. 1..0 = {} /\ F[{}] = none
  <2>1. {} \in SUBSET (1..n)
    OBVIOUS
  <2>2. F[{}] = none
    BY <1>10, <2>1
  <2> QED
    BY <2>2
<1>12. got[0] = none
  BY <1>1, <1>11
<1>13. ASSUME NEW k \in 1..n PROVE got[k] = ReplayOne(got[k - 1], w[k], est)
  <2>1. /\ 1..k \in SUBSET (1..n) /\ 1..k # {} /\ Max(1..k) = k
        /\ (1..k) \ {Max(1..k)} = 1..k - 1
    BY <1>1, FoldSteps
  <2>2. F[1..k] = ReplayOne(F[1..k - 1], w[k], est)
    BY <1>10, <2>1
  <2>3. k \in 0..n /\ k - 1 \in 0..n
    BY <1>1
  <2> QED
    BY <2>2, <2>3
<1> HIDE DEF got
<1> DEFINE S == {i \in Nat : i <= n => got[i] \in V}
<1>14. ASSUME NEW k \in Nat, k \in S PROVE k + 1 \in S
  <2> SUFFICES ASSUME k + 1 <= n PROVE got[k + 1] \in V
    OBVIOUS
  <2>1. k + 1 \in 1..n /\ (k + 1) - 1 = k /\ got[k] \in V /\ w[k + 1] \in Attempt
    BY <1>1, <1>14
  <2>2. got[k + 1] = ReplayOne(got[k], w[k + 1], est)
    BY <1>13, <2>1
  <2> QED
    BY <2>1, <2>2, ReplayedOne DEF V, EarnedRecord, Earned
<1>15. \A k \in 0..n : got[k] \in V
  <2>1. 0 \in S
    BY <1>4, <1>12
  <2>2. Nat \subseteq S
    <3> HIDE DEF S
    <3> QED
      BY <1>14, <2>1, NumbersInduct
  <2> QED
    BY <1>1, <2>2
<1>16. got \in [0..n -> V] /\ got[n] = F[1..n]
  BY <1>1, <1>15 DEF got
<1> QED
  BY <1>9, <1>12, <1>13, <1>16 DEF V, n, none

\* A replay starts anew, and goes on from the replay of what came before.
LEMMA ReplayGoesOn ==
  ASSUME NEW est \in Costs, NEW granted \in Nat
  PROVE  /\ Replayed(<< >>, granted, est) = Start(granted, est)
         /\ \A s \in Seq(Attempt), a \in Attempt :
              Replayed(Append(s, a), granted, est)
                = ReplayOne(Replayed(s, granted, est), a, est)
         /\ \A s \in Seq(Attempt) : Earned(Replayed(s, granted, est))
<1>1. Replayed(<< >>, granted, est) = Start(granted, est)
  <2>1. PICK s : s = << >>
    OBVIOUS
  <2>2. s \in Seq(Attempt) /\ Len(s) = 0
    BY <2>1
  <2>3. \E got \in [0..Len(s) -> EarnedRecord] :
           /\ Replayed(s, granted, est) = got[Len(s)]
           /\ got[0] = Start(granted, est)
           /\ \A k \in 1..Len(s) : got[k] = ReplayOne(got[k - 1], s[k], est)
    BY <2>2, ReplayFolded
  <2> QED
    BY <2>1, <2>2, <2>3
<1>2. ASSUME NEW s \in Seq(Attempt), NEW a \in Attempt
      PROVE  Replayed(Append(s, a), granted, est) = ReplayOne(Replayed(s, granted, est), a, est)
  <2>1. PICK one \in [0..Len(s) -> EarnedRecord] :
           /\ Replayed(s, granted, est) = one[Len(s)]
           /\ one[0] = Start(granted, est)
           /\ \A k \in 1..Len(s) : one[k] = ReplayOne(one[k - 1], s[k], est)
    BY ReplayFolded
  <2> DEFINE t == Append(s, a)
             n == Len(s)
  <2>2. /\ t \in Seq(Attempt) /\ n \in Nat /\ Len(t) = n + 1 /\ t[n + 1] = a
        /\ \A i \in 1..n : t[i] = s[i] /\ i \in 1..n + 1
    OBVIOUS
  <2> HIDE DEF t
  <2>3. PICK two \in [0..n + 1 -> EarnedRecord] :
           /\ Replayed(t, granted, est) = two[n + 1]
           /\ two[0] = Start(granted, est)
           /\ \A k \in 1..n + 1 : two[k] = ReplayOne(two[k - 1], t[k], est)
    BY <2>2, ReplayFolded
  <2> DEFINE S == {k \in Nat : k <= n => one[k] = two[k]}
  <2>4. 0 \in S
    BY <2>1, <2>3
  <2>5. ASSUME NEW k \in Nat, k \in S PROVE k + 1 \in S
    <3> SUFFICES ASSUME k + 1 <= n PROVE one[k + 1] = two[k + 1]
      OBVIOUS
    <3>1. k + 1 \in 1..n /\ (k + 1) - 1 = k /\ one[k] = two[k]
      BY <2>2, <2>5
    <3> QED
      BY <2>1, <2>2, <2>3, <3>1
  <2> HIDE DEF S
  <2>6. n \in S
    BY <2>2, <2>4, <2>5, NumbersInduct
  <2>7. one[n] = two[n] /\ n + 1 \in 1..n + 1 /\ (n + 1) - 1 = n
    BY <2>2, <2>6 DEF S
  <2> QED
    BY <2>1, <2>2, <2>3, <2>7 DEF t
<1>3. ASSUME NEW s \in Seq(Attempt) PROVE Earned(Replayed(s, granted, est))
  <2>1. PICK got \in [0..Len(s) -> EarnedRecord] : Replayed(s, granted, est) = got[Len(s)]
    BY ReplayFolded
  <2>2. Len(s) \in 0..Len(s)
    OBVIOUS
  <2> QED
    BY <2>1, <2>2 DEF EarnedRecord
<1> QED
  BY <1>1, <1>2, <1>3

\* What a replay makes of the attempts it took in is what it made of them all.
LEMMA ReplayOfHistory ==
  ASSUME NEW est \in Costs, NEW granted \in Nat, NEW s \in Seq(Attempt)
  PROVE  /\ Replayed(s, granted, est).history \in Seq(Attempt)
         /\ Replayed(Replayed(s, granted, est).history, granted, est) = Replayed(s, granted, est)
         /\ est[0] <= MaxCost => (Replayed(s, granted, est).action = "stop"
                                    => Replayed(s, granted, est).reserve = 0)
<1> DEFINE R(t) == Replayed(t, granted, est)
           Good(t) == /\ R(R(t).history) = R(t)
                      /\ est[0] <= MaxCost => (R(t).action = "stop" => R(t).reserve = 0)
           S == {n \in Nat : \A t \in Seq(Attempt) : Len(t) = n => Good(t)}
<1>1. /\ R(<< >>) = Start(granted, est)
      /\ \A t \in Seq(Attempt), a \in Attempt : R(Append(t, a)) = ReplayOne(R(t), a, est)
      /\ \A t \in Seq(Attempt) : Earned(R(t)) /\ R(t).history \in Seq(Attempt)
  BY ReplayGoesOn DEF Earned, ControllerRecord
<1> HIDE DEF R
<1>2. 0 \in S
  <2>1. ASSUME NEW t \in Seq(Attempt), Len(t) = 0 PROVE t = << >>
    BY <2>1
  <2>2. Good(<< >>)
    BY <1>1, Started
  <2> QED
    BY <2>1, <2>2
<1>3. ASSUME NEW n \in Nat, n \in S PROVE n + 1 \in S
  <2> SUFFICES ASSUME NEW t \in Seq(Attempt), Len(t) = n + 1 PROVE Good(t)
    OBVIOUS
  <2>1. PICK u \in Seq(Attempt), a \in Attempt : t = Append(u, a) /\ Len(u) = n
    <3> DEFINE u == SubSeq(t, 1, n)
    <3>1. u \in Seq(Attempt) /\ Len(u) = n /\ t[n + 1] \in Attempt /\ t = Append(u, t[n + 1])
      OBVIOUS
    <3> QED
      BY <3>1
  <2>2. Good(u)
    BY <1>3, <2>1
  <2> DEFINE c == R(u)
  <2>3. R(t) = ReplayOne(c, a, est) /\ Earned(c) /\ c.history \in Seq(Attempt)
    BY <1>1, <2>1
  <2>4. CASE Finished(c)
    <3>1. R(t) = c
      BY <2>3, <2>4 DEF ReplayOne
    <3> QED
      BY <2>2, <3>1
  <2>5. CASE ~Finished(c)
    <3>1. R(t) = Record(c, a, est)
      BY <2>3, <2>5 DEF ReplayOne
    <3>2. R(t).history = Append(c.history, a) /\ (R(t).action = "stop" => R(t).reserve = 0)
      <4> HIDE DEF c
      <4>1. PICK d : d = R(t)
        OBVIOUS
      <4>2. d = Record(c, a, est)
        BY <3>1, <4>1
      <4>3. d.history = Append(c.history, a) /\ (d.action = "stop" => d.reserve = 0)
        BY <2>3, <4>2, Recorded
      <4> QED
        BY <4>1, <4>3
    <3>3. R(Append(c.history, a)) = ReplayOne(R(c.history), a, est)
      BY <1>1, <2>3
    <3>4. R(c.history) = c
      BY <2>2
    <3>5. R(R(t).history) = R(t)
      BY <2>5, <3>1, <3>2, <3>3, <3>4 DEF ReplayOne
    <3> QED
      BY <3>2, <3>5
  <2> QED
    BY <2>4, <2>5
<1> HIDE DEF S
<1>4. Len(s) \in S
  BY <1>2, <1>3, NumbersInduct
<1>5. Good(s)
  BY <1>4 DEF S
<1> QED
  BY <1>1, <1>5 DEF R

(******************************** The theorems *****************************)

\* The controller in memory is the replay of what it has seen; the next one is a
\* replay of what was written, which is the same unless a write was refused.
EscalationInv ==
  /\ phase \in Phase /\ attempts \in Seq(Attempt)
  /\ estimate \in TierCosts /\ estimate \in Costs
  /\ grant \in 0..MaxGrants /\ known \in 0..MaxGrants
  /\ resuming \in 0..MaxGrants \cup {NotResuming}
  /\ Earned(ctrl)

\* The first attempt fits the budget, whatever the tiers cost.
FirstAttemptFits == \A est \in TierCosts : est[0] <= MaxCost

RebuiltInv ==
  /\ estimate \in TierCosts
  /\ live => Replayed(ctrl.history, known, estimate) = ctrl
  /\ live => (ctrl.action = "stop" => ctrl.reserve = 0)
  /\ live /\ saved => Replayed(attempts, known, estimate) = ctrl

LEMMA RebuiltEarned ==
  ASSUME NEW est \in Costs, NEW granted \in Nat, NEW s \in Seq(Attempt)
  PROVE  Earned(Replay(s, granted, est))
  BY ReplayGoesOn, ReserveSpent DEF Replay

LEMMA HeldEarned ==
  ASSUME EscalationInv PROVE Earned(Controller)
<1>1. CASE live
  BY <1>1 DEF Controller, EscalationInv
<1>2. CASE ~live
  <2>1. Controller = Replay(attempts, grant, estimate)
    BY <1>2 DEF Controller
  <2> QED
    BY <2>1, RebuiltEarned DEF EscalationInv
<1> QED
  BY <1>1, <1>2

LEMMA ReturnedAttempts ==
  ASSUME NEW s \in Seq(Attempt), NEW by \in Returner PROVE Returned(s, by) \in Seq(Attempt)
<1>1. CASE s = << >> \/ ~Last(s).passed
  BY <1>1 DEF Returned
<1>2. CASE ~(s = << >> \/ ~Last(s).passed)
  <2>1. Front(s) \in Seq(Attempt) /\ Last(s) \in Attempt
    BY <1>2 DEF Front, Last
  <2>2. [Last(s) EXCEPT !.passed = FALSE, !.objective = TRUE, !.returned = by] \in Attempt
    <3>1. PICK a : a = Last(s)
      OBVIOUS
    <3>2. [a EXCEPT !.passed = FALSE, !.objective = TRUE, !.returned = by] \in Attempt
      BY <2>1, <3>1 DEF Attempt
    <3> QED
      BY <3>1, <3>2
  <2> QED
    BY <1>2, <2>1, <2>2 DEF Returned
<1> QED
  BY <1>1, <1>2

LEMMA NothingEarned == Earned(NewController(0))
<1>1. 0 \in Tier
  BY EscalationAssumption DEF Tier
<1>2. PICK c : c = NewController(0)
  OBVIOUS
<1>3. c \in ControllerRecord /\ c.history = << >> /\ c.tier = 0
  BY <1>1, <1>2 DEF NewController, ControllerRecord
<1>4. Objective(c.history) = {}
  BY <1>3 DEF Objective
<1>5. Cardinality(Objective(c.history)) = 0
  BY <1>4, FS_EmptySet
<1> QED
  BY <1>2, <1>3, <1>5 DEF Earned

LEMMA EscalationStep ==
  ASSUME EscalationInv, [EscalationNext]_escalationVars PROVE EscalationInv'
<1>1. Earned(Controller) /\ MaxGrants \in Nat
  BY HeldEarned, GrantAssumption
<1>2. /\ attempts \in Seq(Attempt) /\ estimate \in Costs /\ grant \in Nat /\ known \in Nat
      /\ phase \in Phase /\ resuming \in Nat \cup {NotResuming} /\ NotResuming = -1
  BY <1>1 DEF EscalationInv, NotResuming
<1>3. CASE AssignAttempt
  BY <1>1, <1>2, <1>3 DEF AssignAttempt, Hold, EscalationInv, Phase
<1>4. ASSUME NEW p \in BOOLEAN, NEW o \in BOOLEAN, NEW k \in AttemptCosts,
             FinishAttempt([passed |-> p, objective |-> o /\ ~p, cost |-> k, returned |-> "no"])
      PROVE  EscalationInv'
  <2>1. PICK a : a = [passed |-> p, objective |-> o /\ ~p, cost |-> k, returned |-> "no"]
    OBVIOUS
  <2>2. a \in Attempt
    BY <2>1 DEF Attempt
  <2>3. PICK c : c = Record(Controller, a, estimate)
    OBVIOUS
  <2>4. Earned(c) /\ c.history \in Seq(Attempt)
    <3>1. PICK b : b = Controller
      OBVIOUS
    <3>2. Earned(b) /\ c = Record(b, a, estimate) /\ estimate \in Costs
      BY <1>1, <1>2, <2>3, <3>1
    <3>3. Earned(c)
      BY <2>2, <3>2, Recorded
    <3> QED
      BY <3>3 DEF Earned, ControllerRecord
  <2>5. FinishAttempt(a)
    BY <1>4, <2>1
  <2>6. /\ live' = TRUE /\ ctrl' = c /\ known' \in {known, grant}
        /\ attempts' \in {c.history, attempts}
        /\ phase' \in {"reviewing", "stopped", "ready"}
        /\ UNCHANGED <<grant, estimate, resuming>>
    BY <2>3, <2>5 DEF FinishAttempt, Hold
  <2> QED
    BY <1>2, <2>4, <2>6 DEF EscalationInv, Phase
<1>5. CASE FinishUnrecorded
  BY <1>1, <1>2, <1>5 DEF FinishUnrecorded, Hold, EscalationInv, Phase
<1>6. ASSUME NEW by \in Returner, ReturnForChanges(by) PROVE EscalationInv'
  <2>1. attempts' = Returned(attempts, by) /\ attempts' \in Seq(Attempt)
    BY <1>2, <1>6, ReturnedAttempts DEF ReturnForChanges
  <2>3. Earned(Replay(attempts', grant, estimate))
    BY <1>2, <2>1, RebuiltEarned
  <2>5. /\ known' = grant /\ ctrl' \in {ctrl, Replay(attempts', grant, estimate)}
        /\ phase' \in {"stopped", "ready"}
        /\ UNCHANGED <<grant, estimate, resuming>>
    BY <1>6 DEF ReturnForChanges, ControllerRebuilt
  <2> QED
    BY <1>2, <2>1, <2>3, <2>5 DEF EscalationInv, Phase
<1>7. CASE MergeAttempted
  BY <1>2, <1>7 DEF MergeAttempted, EscalationInv, Phase
<1>8. CASE RestartConductor
  BY <1>2, <1>8 DEF RestartConductor, EscalationInv, Phase
<1>9. ASSUME NEW n \in 0..MaxGrants, PlanResume(n) PROVE EscalationInv'
  BY <1>1, <1>2, <1>9 DEF PlanResume, EscalationInv
<1>10. CASE ExecuteResume
  BY <1>2, <1>10 DEF ExecuteResume, EscalationInv, Phase
<1>11. CASE HealGrant
  BY <1>1, <1>2, <1>11 DEF HealGrant, EscalationInv, Phase
<1>12. CASE UNCHANGED escalationVars
  BY <1>2, <1>12 DEF escalationVars, EscalationInv
<1> QED
  BY <1>3, <1>4, <1>5, <1>6, <1>7, <1>8, <1>9, <1>10, <1>11, <1>12 DEF EscalationNext

LEMMA EscalationAlways == EscalationSpec => []EscalationInv
<1>1. EscalationInit => EscalationInv
  <2>1. Earned(NewController(0))
    BY NothingEarned
  <2> QED
    BY <2>1, GrantAssumption DEF EscalationInit, EscalationInv, Phase, Costs, NotResuming
<1> QED
  BY <1>1, EscalationStep, PTL DEF EscalationSpec

\* Every field of a unit under escalation has its type, the controller's before
\* any conductor held one too.
THEOREM EscalationTypeCorrect == EscalationSpec => []EscalationTypeOK
<1> DEFINE Flags == live \in BOOLEAN /\ saved \in BOOLEAN
<1>1. EscalationInv /\ Flags => EscalationTypeOK
  BY DEF EscalationInv, EscalationTypeOK, Earned, ControllerRecord
<1>2. EscalationInit => Flags
  BY Zenon DEF EscalationInit
<1>3. Flags /\ [EscalationNext]_escalationVars => Flags'
  <2> SUFFICES ASSUME Flags, [EscalationNext]_escalationVars PROVE Flags'
    OBVIOUS
  <2>1. CASE AssignAttempt \/ FinishUnrecorded
    BY <2>1, Zenon DEF AssignAttempt, FinishUnrecorded, Hold
  <2>2. ASSUME NEW a, FinishAttempt(a) PROVE Flags'
    BY <2>2, Zenon DEF FinishAttempt, Hold
  <2>3. ASSUME NEW by \in Returner, ReturnForChanges(by) PROVE Flags'
    BY <2>3, Zenon DEF ReturnForChanges
  <2>4. CASE MergeAttempted \/ ExecuteResume \/ \E n \in 0..MaxGrants : PlanResume(n)
    BY <2>4, Zenon DEF MergeAttempted, ExecuteResume, PlanResume
  <2>5. CASE RestartConductor \/ HealGrant
    BY <2>5, Zenon DEF RestartConductor, HealGrant
  <2>6. CASE UNCHANGED escalationVars
    BY <2>6 DEF escalationVars
  <2> QED
    BY <2>1, <2>2, <2>3, <2>4, <2>5, <2>6 DEF EscalationNext
<1> QED
  BY <1>1, <1>2, <1>3, EscalationAlways, PTL DEF EscalationSpec

\* A unit works at a higher tier only as far as failures recorded as objective
\* took it, a review's return among them.
THEOREM TiersAreEarned == EscalationSpec => []TierEarned
<1>1. EscalationInv => TierEarned
  BY HeldEarned DEF TierEarned, Earned, Objective
<1> QED
  BY <1>1, EscalationAlways, PTL

\* With a first attempt that fits the budget, a replay is never left stopped with
\* a grant in reserve.
LEMMA Rebuilt ==
  ASSUME NEW est \in Costs, est[0] <= MaxCost, NEW granted \in Nat, NEW s \in Seq(Attempt)
  PROVE  /\ Replay(s, granted, est) = Replayed(s, granted, est)
         /\ Replayed(Replay(s, granted, est).history, granted, est) = Replay(s, granted, est)
         /\ Replay(s, granted, est).action = "stop" => Replay(s, granted, est).reserve = 0
<1>1. PICK c : c = Replayed(s, granted, est)
  OBVIOUS
<1>2. Earned(c) /\ (c.action = "stop" => c.reserve = 0)
  BY <1>1, ReplayGoesOn, ReplayOfHistory
<1>3. SpendReserve(c) = c
  BY <1>2, ReserveSpent
<1>4. Replay(s, granted, est) = c
  BY <1>1, <1>3 DEF Replay
<1> QED
  BY <1>1, <1>2, <1>4, ReplayOfHistory

LEMMA RebuiltStep ==
  ASSUME FirstAttemptFits, EscalationInv, RebuiltInv, [EscalationNext]_escalationVars
  PROVE  RebuiltInv'
<1>1. /\ attempts \in Seq(Attempt) /\ estimate \in Costs /\ grant \in Nat /\ known \in Nat
      /\ estimate \in TierCosts /\ estimate[0] <= MaxCost
  BY DEF EscalationInv, RebuiltInv, FirstAttemptFits
\* The controller that is used, and the grant it was built with.
<1>2. PICK c, g : /\ c = Controller /\ g = IF live THEN known ELSE grant
  OBVIOUS
<1>3. /\ g \in Nat /\ Earned(c) /\ c.history \in Seq(Attempt)
      /\ Replayed(c.history, g, estimate) = c
      /\ c.action = "stop" => c.reserve = 0
      /\ saved \/ ~live => Replayed(attempts, g, estimate) = c
  <2>1. Earned(c) /\ c.history \in Seq(Attempt)
    BY <1>2, HeldEarned DEF Earned, ControllerRecord
  <2>2. CASE live
    BY <1>1, <1>2, <2>1, <2>2 DEF Controller, RebuiltInv
  <2>3. CASE ~live
    <3>1. c = Replay(attempts, grant, estimate) /\ g = grant
      BY <1>2, <2>3 DEF Controller
    <3> QED
      BY <1>1, <2>1, <3>1, Rebuilt
  <2> QED
    BY <2>2, <2>3
<1>4. CASE AssignAttempt \/ FinishUnrecorded
  <2>1. /\ live' = TRUE /\ ctrl' = c /\ known' = g
        /\ UNCHANGED <<attempts, saved, estimate>>
    BY <1>2, <1>4 DEF AssignAttempt, FinishUnrecorded, Hold
  <2> QED
    BY <1>1, <1>3, <2>1 DEF RebuiltInv
<1>5. ASSUME NEW p \in BOOLEAN, NEW o \in BOOLEAN, NEW k \in AttemptCosts,
             FinishAttempt([passed |-> p, objective |-> o /\ ~p, cost |-> k, returned |-> "no"])
      PROVE  RebuiltInv'
  <2>1. PICK a : a = [passed |-> p, objective |-> o /\ ~p, cost |-> k, returned |-> "no"]
    OBVIOUS
  <2>2. a \in Attempt
    BY <2>1 DEF Attempt
  <2>3. FinishAttempt(a)
    BY <1>5, <2>1
  <2>4. PICK d : d = Record(c, a, estimate)
    OBVIOUS
  <2>5. d.history = Append(c.history, a) /\ (d.action = "stop" => d.reserve = 0)
    BY <1>1, <1>3, <2>2, <2>4, Recorded
  <2>6. Replayed(d.history, g, estimate) = d
    <3>1. Replayed(Append(c.history, a), g, estimate) = ReplayOne(c, a, estimate)
      BY <1>1, <1>3, <2>2, ReplayGoesOn
    <3>2. ~Finished(c)
      BY <1>2, <2>3 DEF FinishAttempt
    <3> QED
      BY <2>4, <2>5, <3>1, <3>2 DEF ReplayOne
  <2>7. /\ live' = TRUE /\ ctrl' = d /\ known' = g
        /\ (attempts' = d.history /\ saved' = TRUE) \/ saved' = FALSE
        /\ UNCHANGED estimate
    BY <1>2, <2>3, <2>4 DEF FinishAttempt, Hold
  <2> QED
    BY <1>1, <2>5, <2>6, <2>7 DEF RebuiltInv
<1>6. ASSUME NEW by \in Returner, ReturnForChanges(by) PROVE RebuiltInv'
  <2>1. attempts' \in Seq(Attempt)
    BY <1>1, <1>6, ReturnedAttempts DEF ReturnForChanges
  <2>2. PICK s : s = attempts'
    OBVIOUS
  <2>3. PICK d : d = Replay(s, grant, estimate)
    OBVIOUS
  <2>4. /\ Replayed(s, grant, estimate) = d /\ Replayed(d.history, grant, estimate) = d
        /\ d.action = "stop" => d.reserve = 0
    BY <1>1, <2>1, <2>2, <2>3, Rebuilt
  <2>5. /\ known' = grant /\ (live' => ctrl' = d) /\ attempts' = s /\ UNCHANGED estimate
    BY <1>6, <2>2, <2>3 DEF ReturnForChanges, ControllerRebuilt
  <2> QED
    BY <1>1, <2>4, <2>5 DEF RebuiltInv
<1>7. CASE RestartConductor \/ HealGrant
  BY <1>1, <1>7 DEF RestartConductor, HealGrant, RebuiltInv
<1>8. CASE UNCHANGED <<attempts, live, ctrl, known, saved, estimate>>
  BY <1>8 DEF RebuiltInv
<1>9. CASE MergeAttempted \/ ExecuteResume \/ UNCHANGED escalationVars
  BY <1>8, <1>9 DEF MergeAttempted, ExecuteResume, escalationVars
<1>10. ASSUME NEW n \in 0..MaxGrants, PlanResume(n) PROVE RebuiltInv'
  BY <1>8, <1>10 DEF PlanResume
<1> QED
  BY <1>4, <1>5, <1>6, <1>7, <1>9, <1>10 DEF EscalationNext

\* As long as the first attempt fits the budget, a conductor that restarts decides
\* as the one before would have.
THEOREM RestartsDecideAlike ==
  FirstAttemptFits => (EscalationSpec => []RestartKeepsDecision)
<1> SUFFICES ASSUME FirstAttemptFits PROVE EscalationSpec => []RestartKeepsDecision
  OBVIOUS
<1>1. EscalationInit => RebuiltInv
  BY DEF EscalationInit, RebuiltInv
<1>2. EscalationInv /\ RebuiltInv => RestartKeepsDecision
  <2> SUFFICES ASSUME EscalationInv, RebuiltInv, live, saved
               PROVE  Replay(attempts, known, estimate) = ctrl
    BY DEF RestartKeepsDecision
  <2>1. /\ attempts \in Seq(Attempt) /\ estimate \in Costs /\ known \in Nat
        /\ estimate[0] <= MaxCost /\ Replayed(attempts, known, estimate) = ctrl
    BY DEF EscalationInv, RebuiltInv, FirstAttemptFits
  <2> QED
    BY <2>1, Rebuilt
<1>3. EscalationInv /\ RebuiltInv /\ [EscalationNext]_escalationVars => RebuiltInv'
  BY RebuiltStep
<1> QED
  BY <1>1, <1>2, <1>3, EscalationAlways, PTL DEF EscalationSpec

(************************* The work of an attempt **************************)

USE AttemptAssumption

\* A valid handoff of the current attempt, naming a commit there is.
HandoffHolds ==
  /\ record.handoff.valid /\ record.handoff.attempt = record.attempts
  /\ record.handoff.head \in 1..newest.n

\* The last verification is of the newest commit, and found it good.
Verified ==
  LET v == record.verification IN
  /\ v.passed /\ v.head = newest.n
  /\ newest.ok /\ newest.inScope
  /\ v.gates = {"runnable"}
  /\ HandoffHolds

\* Where a verified unit can be: what is true of it there, nothing works on it.
ReviewInv ==
  /\ record.handoff.valid => record.handoff.head \in 1..newest.n
  /\ at = "check" => HandoffHolds
  /\ at = "pass" => Verified
  /\ record.state = "reviewing" => at \in {"idle", "return"} /\ Verified
  /\ record.reason = "stall" => at = "idle" /\ record.state = "needs_user" /\ Verified

\* A judged attempt has been noted, but for the runner's own failure, and a unit
\* that is ready again knows that it is a retry.
BriefInv ==
  /\ ended = "judged" => record.attempts > 0
  /\ ended = "judged" /\ at # "note" => record.failure = record.attempts
  /\ record.attempts = 0 => record.state = "ready"
  /\ record.state = "ready" /\ record.attempts > 0 => record.reason = "retry"
  /\ at = "runner" => ended # "judged"
  /\ at # "idle" => record.state # "ready"
  /\ at = "note" => record.state # "running"

(******************************** Parts of a step ***************************)

\* The steps in which something works in the worktree or on the target.
Worktree == StartAttempt \/ RunnerWorks \/ RepairHandoff \/ SkillsPass \/ TargetMoves

\* All others leave branch, worktree and target as they are.
Others ==
  \/ RunnerFailed \/ RunnerStopped \/ NoteAfter \/ StoppedSilently \/ RunnerSucceeded
  \/ HandoffMissing \/ RecordHandoff \/ HandoffInvalid \/ AskUser
  \/ BeginVerify \/ WorkUncommitted \/ GatesRan \/ VerifiedFail \/ GatesPassed
  \/ FailNoted \/ Outcome
  \/ SendBack \/ SentBack \/ ReviewStalls \/ Resumed \/ Dies

LEMMA NextSplit == AttemptNext => Worktree \/ Others
  BY DEF AttemptNext, Worktree, Others

\* The gates pass only when each can be run, and then on a clean worktree the
\* commit passes.
LEMMA PassedGates ==
  ASSUME NEW gates \in GatePlans, NEW result \in Results, GatesPass(gates, result)
  PROVE  gates = {"runnable"} /\ (~tree.dirty => newest.ok)
<1>1. \A kind \in gates : kind = "runnable" /\ result.exit = 0
  <2> SUFFICES ASSUME NEW kind \in gates PROVE kind = "runnable" /\ result.exit = 0
    OBVIOUS
  <2>1. GateStatus(kind, result) = "passed" /\ kind \in GateKinds
    BY DEF GatesPass
  <2> QED
    BY <2>1 DEF GateStatus, GateKinds
<1>2. gates # {}
  BY DEF GatesPass
<1> QED
  BY <1>1, <1>2 DEF Results

(*************************** Type correctness *******************************)

LEMMA NotedTyped == ASSUME record \in UnitRecord PROVE NoteFailure(record) \in UnitRecord
  BY DEF NoteFailure, UnitRecord

LEMMA MovedTyped ==
  ASSUME record \in UnitRecord,
         NEW s \in {"ready", "running", "verifying", "reviewing", "failed", "needs_user", "interrupted"},
         NEW why \in {"retry", "stall", "other"}
  PROVE  [record EXCEPT !.state = s, !.reason = why] \in UnitRecord
  BY DEF UnitRecord

LEMMA WorksTyped ==
  ASSUME AttemptTypeOK, Works, Writes
  PROVE  /\ newest' \in [n : 1..MaxCommits, ok : BOOLEAN, inScope : BOOLEAN, base : 0..MaxTips]
         /\ tree' \in [dirty : BOOLEAN, merging : 0..MaxTips] /\ (tree'.merging > 0 => tree'.dirty)
         /\ handoff' \in [kind : HandoffKinds, head : 0..MaxCommits]
         /\ newest'.n >= newest.n
<1>1. /\ newest' \in [n : 1..MaxCommits, ok : BOOLEAN, inScope : BOOLEAN, base : 0..MaxTips]
      /\ newest'.n >= newest.n
      /\ tree' \in [dirty : BOOLEAN, merging : 0..MaxTips] /\ (tree'.merging > 0 => tree'.dirty)
  <2>1. CASE UNCHANGED <<newest, tree>>
    BY <2>1 DEF AttemptTypeOK
  <2>2. CASE newest.n < MaxCommits /\ \E ok, inScope, left \in BOOLEAN :
               /\ newest' = [n |-> newest.n + 1, ok |-> ok, inScope |-> inScope,
                              base |-> IF tree.merging > 0 THEN tree.merging ELSE newest.base]
               /\ tree' = [Clean EXCEPT !.dirty = left]
    <3>1. PICK ok, inScope, left \in BOOLEAN :
            /\ newest' = [n |-> newest.n + 1, ok |-> ok, inScope |-> inScope,
                           base |-> IF tree.merging > 0 THEN tree.merging ELSE newest.base]
            /\ tree' = [Clean EXCEPT !.dirty = left]
      BY <2>2
    <3>2. newest.n \in 1..MaxCommits /\ newest.n + 1 \in 1..MaxCommits
      BY <2>2 DEF AttemptTypeOK
    <3> QED
      BY <3>1, <3>2 DEF AttemptTypeOK, Clean
  <2>3. CASE tree' \in {Clean, [tree EXCEPT !.dirty = TRUE]} /\ UNCHANGED newest
    <3>1. CASE tree' = Clean
      BY <2>3, <3>1 DEF AttemptTypeOK, Clean
    <3>2. CASE tree' = [tree EXCEPT !.dirty = TRUE]
      <4>1. tree' = [dirty |-> TRUE, merging |-> tree.merging] /\ tree.merging \in 0..MaxTips
        BY <3>2 DEF AttemptTypeOK
      <4> QED
        BY <2>3, <4>1 DEF AttemptTypeOK
    <3> QED
      BY <2>3, <3>1, <3>2
  <2> QED
    BY <2>1, <2>2, <2>3 DEF Works
<1>2. handoff' \in [kind : HandoffKinds, head : 0..MaxCommits]
  BY <1>1 DEF AttemptTypeOK, Writes
<1> QED
  BY <1>1, <1>2

LEMMA TypeInitially == AttemptInit => AttemptTypeOK
  BY DEF AttemptInit, AttemptTypeOK, Clean, NoHandoff, HandoffKinds, UnitRecord

LEMMA OthersLeaveWorktree ==
  Others /\ ~RecordHandoff => UNCHANGED <<newest, tree, tips, handoff, repairs>>
<1>1. ASSUME NEW next, NEW how, NEW rec, Conduct(next, how, rec)
      PROVE  UNCHANGED <<newest, tree, tips, handoff, repairs>>
  BY <1>1 DEF Conduct
<1>2. CASE RunnerFailed \/ RunnerStopped \/ NoteAfter \/ StoppedSilently \/ RunnerSucceeded
  BY <1>1, <1>2 DEF RunnerFailed, RunnerStopped, NoteAfter, StoppedSilently, RunnerSucceeded
<1>3. CASE HandoffMissing \/ HandoffInvalid \/ WorkUncommitted \/ VerifiedFail
  BY <1>1, <1>3 DEF HandoffMissing, HandoffInvalid, WorkUncommitted, VerifiedFail, FailAttempt
<1>4. CASE AskUser \/ BeginVerify \/ GatesPassed \/ FailNoted \/ Outcome
  BY <1>1, <1>4 DEF AskUser, BeginVerify, GatesPassed, FailNoted, Outcome
<1>5. CASE SendBack \/ SentBack \/ ReviewStalls \/ Resumed \/ Dies
  BY <1>1, <1>5 DEF SendBack, SentBack, ReviewStalls, Resumed, Dies
<1>6. CASE GatesRan
  BY <1>1, <1>6 DEF GatesRan
<1> QED
  BY <1>2, <1>3, <1>4, <1>5, <1>6 DEF Others

LEMMA TypeInductive == AttemptTypeOK /\ [AttemptNext]_attemptVars => AttemptTypeOK'
<1> SUFFICES ASSUME AttemptTypeOK, AttemptNext PROVE AttemptTypeOK'
  BY DEF attemptVars, AttemptTypeOK
<1>1. CASE StartAttempt
  <2>1. /\ newest' \in [n : 1..MaxCommits, ok : BOOLEAN, inScope : BOOLEAN, base : 0..MaxTips]
        /\ tree' \in [dirty : BOOLEAN, merging : 0..MaxTips] /\ (tree'.merging > 0 => tree'.dirty)
    <3>1. CASE newest.n < MaxCommits /\ (\E ok \in BOOLEAN : newest' = TargetMerged(ok)) /\ UNCHANGED tree
      <4>1. PICK ok \in BOOLEAN : newest' = TargetMerged(ok)
        BY <3>1
      <4>2. newest.n + 1 \in 1..MaxCommits
        BY <3>1 DEF AttemptTypeOK
      <4> QED
        BY <3>1, <4>1, <4>2 DEF TargetMerged, AttemptTypeOK
    <3>2. CASE tree' = [dirty |-> TRUE, merging |-> tips] /\ UNCHANGED newest
      BY <3>2 DEF AttemptTypeOK
    <3>3. CASE UNCHANGED <<newest, tree>>
      BY <3>3 DEF AttemptTypeOK
    <3> QED
      BY <1>1, <3>1, <3>2, <3>3 DEF StartAttempt, Sync
  <2>2. record' \in UnitRecord
    <3>1. record' = [record EXCEPT !.state = "running", !.attempts = record.attempts + 1]
      BY <1>1 DEF StartAttempt
    <3>2. record.attempts + 1 \in 0..MaxAttempts + 1
      BY <1>1 DEF StartAttempt, AttemptTypeOK, UnitRecord
    <3> QED
      BY <3>1, <3>2 DEF AttemptTypeOK, UnitRecord
  <2> QED
    BY <1>1, <2>1, <2>2 DEF StartAttempt, AttemptTypeOK, NoHandoff, HandoffKinds
<1>2. CASE RunnerWorks \/ RepairHandoff
  BY <1>2, WorksTyped DEF RunnerWorks, RepairHandoff, AttemptTypeOK
<1>3. CASE SkillsPass
  <2>1. CASE UNCHANGED <<newest, tree>>
    BY <1>3, <2>1 DEF SkillsPass, AttemptTypeOK
  <2>2. CASE Works
    BY <1>3, <2>2, WorksTyped DEF SkillsPass, AttemptTypeOK, Writes
  <2> QED
    BY <1>3, <2>1, <2>2 DEF SkillsPass
<1>4. CASE TargetMoves
  BY <1>4 DEF TargetMoves, AttemptTypeOK
<1>5. CASE RecordHandoff
  <2>1. record' \in UnitRecord
    <3> DEFINE valid == handoff.kind = "good" /\ handoff.head = newest.n
    <3>1. record' = [record EXCEPT !.handoff =
                       [attempt |-> record.attempts, head |-> newest.n, valid |-> valid]]
      BY <1>5 DEF RecordHandoff
    <3>2. valid \in BOOLEAN
      OBVIOUS
    <3> HIDE DEF valid
    <3> QED
      BY <3>1, <3>2 DEF AttemptTypeOK, UnitRecord
  <2> QED
    BY <1>5, <2>1 DEF RecordHandoff, AttemptTypeOK, NoHandoff, HandoffKinds
<1>6. CASE GatesRan
  <2>1. record' \in UnitRecord /\ UNCHANGED <<newest, tree, tips, handoff, repairs>>
    <3>1. PICK gates \in GatePlans, result \in Results, classified \in BOOLEAN :
            record' = [record EXCEPT !.verification =
              [head |-> newest.n, passed |-> GatesPass(gates, result) /\ newest.inScope /\ classified,
               gates |-> gates]]
      BY <1>6, Zenon DEF GatesRan, Conduct
    <3>2. GatesPass(gates, result) \in BOOLEAN /\ newest.inScope \in BOOLEAN
      BY DEF GatesPass, AttemptTypeOK
    <3>3. UNCHANGED <<newest, tree, tips, handoff, repairs>>
      BY <1>6, Zenon DEF GatesRan, Conduct
    <3> QED
      BY <3>1, <3>2, <3>3 DEF AttemptTypeOK, UnitRecord
  <2> QED
    BY <2>1 DEF AttemptTypeOK
<1>7. CASE Others /\ ~RecordHandoff /\ ~GatesRan
  <2>1. UNCHANGED <<newest, tree, tips, handoff, repairs>>
    BY <1>7, OthersLeaveWorktree
  <2>2. record' \in UnitRecord
    BY <1>7, NotedTyped, MovedTyped DEF AttemptTypeOK, Others, RunnerFailed, RunnerStopped, NoteAfter,
         StoppedSilently, RunnerSucceeded, HandoffMissing, HandoffInvalid, AskUser, BeginVerify,
         WorkUncommitted, VerifiedFail, GatesPassed, FailNoted, Outcome, SendBack, SentBack,
         ReviewStalls, Resumed, Dies, FailAttempt, Conduct, To
  <2> QED
    BY <2>1, <2>2 DEF AttemptTypeOK
<1> QED
  BY <1>1, <1>2, <1>3, <1>4, <1>5, <1>6, <1>7, NextSplit DEF Worktree

(******************************* What is reviewed ***************************)

LEMMA ReviewInitially == AttemptInit => ReviewInv
  BY DEF AttemptInit, ReviewInv

\* Steps in the worktree: no unit is in review or waits for it, and the branch
\* only grows.
LEMMA WorktreeKeepsReviewed == AttemptTypeOK /\ ReviewInv /\ Worktree => ReviewInv'
<1> SUFFICES ASSUME AttemptTypeOK, ReviewInv, Worktree PROVE ReviewInv'
  OBVIOUS
<1>1. newest.n \in Nat /\ newest'.n \in Nat
  BY TypeInductive DEF AttemptTypeOK, Worktree, AttemptNext
<1>2. CASE TargetMoves
  BY <1>2 DEF TargetMoves, ReviewInv, Verified, HandoffHolds
<1>3. CASE StartAttempt
  <2>1. newest'.n >= newest.n
    <3>1. UNCHANGED newest \/ \E ok : newest' = TargetMerged(ok)
      BY <1>3 DEF StartAttempt, Sync
    <3>2. ASSUME NEW ok, newest' = TargetMerged(ok) PROVE newest'.n = newest.n + 1
      BY <3>2 DEF TargetMerged, AttemptTypeOK
    <3> QED
      BY <1>1, <3>1, <3>2
  <2>2. /\ record.state = "ready" /\ record'.state = "running" /\ at' = "runner"
        /\ record'.reason = record.reason /\ record'.handoff = record.handoff
    BY <1>3 DEF StartAttempt, AttemptTypeOK, UnitRecord
  <2> QED
    BY <1>1, <2>1, <2>2 DEF ReviewInv
<1>4. CASE RunnerWorks \/ RepairHandoff \/ SkillsPass
  <2>1. newest'.n >= newest.n
    BY <1>1, <1>4 DEF RunnerWorks, RepairHandoff, SkillsPass, Works
  <2>2. UNCHANGED record /\ at \notin {"idle", "return"} /\ at' \in {"exited", "repaired", "verify"}
    BY <1>4 DEF RunnerWorks, RepairHandoff, SkillsPass
  <2> QED
    BY <1>1, <2>1, <2>2 DEF ReviewInv
<1> QED
  BY <1>2, <1>3, <1>4 DEF Worktree

LEMMA OthersKeepReviewed == AttemptTypeOK /\ ReviewInv /\ Others => ReviewInv'
<1> SUFFICES ASSUME AttemptTypeOK, ReviewInv, Others PROVE ReviewInv'
  OBVIOUS
<1>0. newest.n \in Nat \ {0} /\ record \in UnitRecord
  BY DEF AttemptTypeOK
<1>1. ASSUME NEW next, NEW how, NEW rec, Conduct(next, how, rec),
             rec.handoff = record.handoff, rec.verification = record.verification,
             rec.attempts = record.attempts, next \notin {"check", "pass"},
             rec.state = "reviewing" => next \in {"idle", "return"} /\ Verified,
             rec.reason = "stall" => next = "idle" /\ rec.state = "needs_user" /\ Verified
      PROVE  ReviewInv'
  <2>1. record' = rec /\ at' = next /\ UNCHANGED newest
    BY <1>1 DEF Conduct
  <2>2. Verified' = Verified
    BY <1>1, <2>1 DEF Verified, HandoffHolds
  <2> QED
    BY <1>1, <2>1, <2>2 DEF ReviewInv
<1>2. NoteFailure(record).handoff = record.handoff /\ NoteFailure(record).verification = record.verification
      /\ NoteFailure(record).attempts = record.attempts /\ NoteFailure(record).state = record.state
      /\ NoteFailure(record).reason = record.reason
  BY <1>0 DEF NoteFailure, UnitRecord
<1> DEFINE Retry == [record EXCEPT !.state = "ready", !.reason = "retry"]
           Stall == [record EXCEPT !.state = "needs_user", !.reason = "stall"]
           Holds(rec) == /\ rec.handoff = record.handoff /\ rec.verification = record.verification
                        /\ rec.attempts = record.attempts
<1>3. /\ \A s : Holds(To(record, s)) /\ To(record, s).state = s /\ To(record, s).reason = "other"
      /\ Holds(Retry) /\ Retry.state = "ready" /\ Retry.reason = "retry"
      /\ Holds(Stall) /\ Stall.state = "needs_user" /\ Stall.reason = "stall"
  BY <1>0 DEF UnitRecord, To
<1>4. CASE RunnerFailed \/ RunnerStopped \/ StoppedSilently \/ AskUser \/ FailNoted
  BY <1>1, <1>3, <1>4 DEF RunnerFailed, RunnerStopped, StoppedSilently, AskUser, FailNoted
<1>5. CASE NoteAfter \/ HandoffMissing \/ HandoffInvalid \/ WorkUncommitted \/ VerifiedFail \/ SendBack
  BY <1>1, <1>2, <1>5 DEF NoteAfter, HandoffMissing, ToRecord, HandoffInvalid, WorkUncommitted, VerifiedFail,
       FailAttempt, SendBack, ReviewInv
<1>6. CASE RunnerSucceeded
  BY <1>1, <1>6 DEF RunnerSucceeded, ReviewInv
<1>7. CASE Outcome \/ SentBack
  <2>1. \/ Conduct("idle", ended, Retry) \/ Conduct("idle", ended, To(record, "needs_user"))
        \/ Conduct("idle", ended, record) /\ at = "outcome"
    BY <1>7, Zenon DEF Outcome, SentBack
  <2> HIDE DEF Retry
  <2> QED
    BY <1>1, <1>3, <2>1 DEF ReviewInv
<1>8. CASE ReviewStalls
  <2>1. Conduct("idle", ended, Stall) /\ record.state = "reviewing"
    BY <1>8, Zenon DEF ReviewStalls
  <2> HIDE DEF Stall
  <2> QED
    BY <1>1, <1>3, <2>1 DEF ReviewInv
<1>9. CASE Resumed
  <2>1. \/ Conduct("idle", ended, To(record, "reviewing")) /\ record.reason = "stall"
        \/ Conduct("idle", ended, Retry)
    BY <1>9 DEF Resumed
  <2> HIDE DEF Retry
  <2> QED
    BY <1>1, <1>3, <2>1 DEF ReviewInv
<1>10. CASE Dies
  <2>1. PICK how : Conduct("idle", how, record) \/ Conduct("idle", how, To(record, "interrupted"))
    BY <1>10 DEF Dies
  <2>2. at # "idle"
    BY <1>10 DEF Dies
  <2> QED
    BY <1>1, <1>3, <2>1, <2>2 DEF ReviewInv
<1>11. CASE RecordHandoff
  <2> DEFINE valid == handoff.kind = "good" /\ handoff.head = newest.n
             rec == [record EXCEPT !.handoff =
                       [attempt |-> record.attempts, head |-> newest.n, valid |-> valid]]
  <2>1. record' = rec /\ at' \notin {"check", "pass"} /\ UNCHANGED newest /\ at \in {"accept", "repaired"}
    BY <1>11 DEF RecordHandoff, ToRecord
  <2>2. rec.handoff.head = newest.n /\ rec.state = record.state /\ rec.reason = record.reason
    BY <1>0 DEF UnitRecord
  <2> QED
    BY <1>0, <2>1, <2>2 DEF ReviewInv
<1>12. CASE BeginVerify
  <2>1. record' = To(record, "verifying") /\ at' = "check" /\ UNCHANGED newest /\ HandoffHolds
    BY <1>12 DEF BeginVerify, Conduct, ReviewInv, HandoffHolds
  <2> QED
    BY <1>3, <2>1 DEF To, ReviewInv, HandoffHolds
<1>13. CASE GatesRan
  <2>1. PICK gates \in GatePlans, result \in Results, classified \in BOOLEAN :
          /\ record' = [record EXCEPT !.verification =
              [head |-> newest.n, passed |-> GatesPass(gates, result) /\ newest.inScope /\ classified,
               gates |-> gates]]
          /\ at' = (IF ~newest.inScope THEN "verified_fail"
                    ELSE IF ~classified THEN "ask"
                    ELSE IF ~GatesPass(gates, result) THEN "verified_fail" ELSE "pass")
    BY <1>13, Zenon DEF GatesRan, Conduct
  <2>2. UNCHANGED newest /\ at = "check" /\ ~tree.dirty /\ HandoffHolds
    BY <1>13 DEF GatesRan, Conduct, Verifiable, ReviewInv
  <2>3. /\ record'.handoff = record.handoff /\ record'.attempts = record.attempts
        /\ record'.state = record.state /\ record'.reason = record.reason
        /\ record'.verification.head = newest.n /\ record'.verification.gates = gates
        /\ record'.verification.passed = (GatesPass(gates, result) /\ newest.inScope /\ classified)
    BY <1>0, <2>1 DEF UnitRecord
  <2>4. HandoffHolds'
    BY <2>2, <2>3 DEF HandoffHolds
  <2>5. at' = "pass" => Verified'
    <3> SUFFICES ASSUME at' = "pass" PROVE Verified'
      OBVIOUS
    <3>1. newest.inScope /\ classified /\ GatesPass(gates, result)
      BY <2>1
    <3>2. gates = {"runnable"} /\ newest.ok
      BY <2>2, <3>1, PassedGates
    <3> QED
      BY <2>2, <2>3, <2>4, <3>1, <3>2 DEF Verified
  <2>6. at' # "check" /\ record'.handoff.head \in 1..newest'.n
    BY <2>1, <2>2, <2>4 DEF HandoffHolds
  <2> QED
    BY <2>2, <2>3, <2>5, <2>6 DEF ReviewInv
<1>14. CASE GatesPassed
  <2>1. record' = To(record, "reviewing") /\ at' = "idle" /\ UNCHANGED newest /\ Verified
    BY <1>14 DEF GatesPassed, Conduct, ReviewInv
  <2>2. Verified'
    BY <1>3, <2>1 DEF To, Verified, HandoffHolds
  <2> QED
    BY <1>3, <2>1, <2>2 DEF To, ReviewInv
<1> QED
  BY <1>4, <1>5, <1>6, <1>7, <1>8, <1>9, <1>10, <1>11, <1>12, <1>13, <1>14 DEF Others

LEMMA ReviewInductive == AttemptTypeOK /\ ReviewInv /\ [AttemptNext]_attemptVars => ReviewInv'
<1> SUFFICES ASSUME AttemptTypeOK, ReviewInv, [AttemptNext]_attemptVars PROVE ReviewInv'
  OBVIOUS
<1>1. CASE AttemptNext
  BY <1>1, NextSplit, WorktreeKeepsReviewed, OthersKeepReviewed
<1>2. CASE UNCHANGED attemptVars
  BY <1>2 DEF attemptVars, ReviewInv, Verified, HandoffHolds
<1> QED
  BY <1>1, <1>2

(****************************** What the brief tells *************************)

LEMMA BriefInitially == AttemptInit => BriefInv
  BY DEF AttemptInit, BriefInv

LEMMA BriefInductive == AttemptTypeOK /\ BriefInv /\ [AttemptNext]_attemptVars => BriefInv'
<1> SUFFICES ASSUME AttemptTypeOK, BriefInv, AttemptNext PROVE BriefInv'
  BY DEF attemptVars, BriefInv
<1>0. record \in UnitRecord /\ record.attempts \in Nat
  BY DEF AttemptTypeOK, UnitRecord
<1> DEFINE Retry == [record EXCEPT !.state = "ready", !.reason = "retry"]
           Stall == [record EXCEPT !.state = "needs_user", !.reason = "stall"]
           Holds(rec) == rec.failure = record.failure /\ rec.attempts = record.attempts
           Noted == NoteFailure(record)
\* How a step ends that changes no more than where the unit is.
<1>1. ASSUME NEW next, NEW how, NEW rec, Conduct(next, how, rec),
             rec.attempts = record.attempts, next # "runner",
             rec.state = "ready" => rec.reason = "retry" /\ next = "idle",
             next = "note" => rec.state # "running",
             record.attempts = 0 => rec.state = "ready",
             how = "judged" => record.attempts > 0 /\ (rec.failure = rec.attempts \/ next = "note")
      PROVE  BriefInv'
  BY <1>0, <1>1 DEF Conduct, BriefInv
<1>2. /\ Noted.failure = record.attempts /\ Noted.attempts = record.attempts
      /\ Noted.state = record.state /\ Noted.reason = record.reason
  BY <1>0 DEF NoteFailure, UnitRecord
<1>3. /\ \A s : Holds(To(record, s)) /\ To(record, s).state = s
      /\ Holds(Retry) /\ Retry.state = "ready" /\ Retry.reason = "retry"
      /\ Holds(Stall) /\ Stall.state = "needs_user"
  BY <1>0 DEF UnitRecord, To
<1> HIDE DEF Retry, Stall, Noted
<1>4. at # "idle" \/ record.state # "ready" => record.attempts > 0
  BY <1>0 DEF BriefInv
<1>5. CASE StartAttempt
  <2>1. /\ record'.state = "running" /\ record'.attempts = record.attempts + 1
        /\ at' = "runner" /\ ended' = "none"
    BY <1>5 DEF StartAttempt, AttemptTypeOK, UnitRecord
  <2> QED
    BY <1>0, <2>1 DEF BriefInv
<1>6. CASE RunnerWorks \/ RepairHandoff \/ SkillsPass \/ TargetMoves
  BY <1>6 DEF RunnerWorks, RepairHandoff, SkillsPass, TargetMoves, BriefInv
<1>7. CASE RunnerFailed \/ RunnerStopped \/ StoppedSilently \/ AskUser \/ BeginVerify \/ GatesPassed
  BY <1>1, <1>3, <1>4, <1>7 DEF RunnerFailed, RunnerStopped, StoppedSilently, AskUser, BeginVerify,
       GatesPassed, BriefInv
<1>8. CASE FailNoted \/ RunnerSucceeded
  BY <1>1, <1>3, <1>4, <1>8 DEF FailNoted, RunnerSucceeded, BriefInv
<1>9. CASE HandoffMissing \/ HandoffInvalid \/ WorkUncommitted \/ VerifiedFail \/ SendBack
  <2>1. PICK next \in {"fail", "return"} : Conduct(next, "judged", Noted)
    BY <1>9 DEF HandoffMissing, HandoffInvalid, WorkUncommitted, VerifiedFail, SendBack, FailAttempt, Noted
  <2>2. record.state # "ready"
    BY <1>9 DEF HandoffMissing, ToRecord, HandoffInvalid, WorkUncommitted, VerifiedFail, SendBack, BriefInv
  <2> QED
    BY <1>1, <1>2, <1>4, <2>1, <2>2
<1>10. CASE NoteAfter
  <2>1. at = "note" /\ \E next \in {"outcome", "idle"} : Conduct(next, ended, Noted)
    BY <1>10 DEF NoteAfter, Noted
  <2>2. record.state # "ready"
    BY <2>1 DEF BriefInv
  <2> QED
    BY <1>1, <1>2, <1>4, <2>1, <2>2 DEF BriefInv
<1>11. CASE Outcome \/ SentBack
  <2>1. /\ at \in {"outcome", "return"}
        /\ \E rec \in {Retry, To(record, "needs_user"), record} : Conduct("idle", ended, rec)
    BY <1>11 DEF Outcome, SentBack, Retry
  <2> QED
    BY <1>1, <1>3, <1>4, <2>1 DEF BriefInv
<1>12. CASE ReviewStalls
  <2>1. at = "idle" /\ record.state = "reviewing" /\ Conduct("idle", ended, Stall)
    BY <1>12, Zenon DEF ReviewStalls, Stall
  <2> QED
    BY <1>1, <1>3, <1>4, <2>1 DEF BriefInv
<1>13. CASE Resumed
  <2>1. /\ at = "idle" /\ record.state # "ready"
        /\ \E rec \in {Retry, To(record, "reviewing")} : Conduct("idle", ended, rec)
    BY <1>13 DEF Resumed, Retry
  <2> QED
    BY <1>1, <1>3, <1>4, <2>1 DEF BriefInv
<1>14. CASE Dies
  <2>1. /\ at # "idle"
        /\ \E rec \in {record, To(record, "interrupted")} :
             Conduct("idle", IF at \in {"exited", "note"} THEN "dead" ELSE ended, rec)
    BY <1>14 DEF Dies
  <2> QED
    BY <1>1, <1>3, <1>4, <2>1 DEF BriefInv
<1>15. CASE RecordHandoff
  <2>1. /\ at \in {"accept", "repaired"} /\ at' \in {"skills", "ask", "reject"} /\ UNCHANGED ended
    BY <1>15 DEF RecordHandoff, ToRecord
  <2>2. Holds(record') /\ record'.state = record.state /\ record'.reason = record.reason
    BY <1>0, <1>15 DEF RecordHandoff, UnitRecord
  <2> QED
    BY <2>1, <2>2 DEF BriefInv
<1>16. CASE GatesRan
  <2>1. /\ at = "check" /\ at' \in {"verified_fail", "ask", "pass"} /\ UNCHANGED ended
    BY <1>16 DEF GatesRan, Conduct
  <2>2. \E v : record' = [record EXCEPT !.verification = v]
    BY <1>16, Zenon DEF GatesRan, Conduct
  <2>3. Holds(record') /\ record'.state = record.state /\ record'.reason = record.reason
    BY <1>0, <2>2 DEF UnitRecord
  <2> QED
    BY <2>1, <2>3 DEF BriefInv
<1> QED
  BY <1>5, <1>6, <1>7, <1>8, <1>9, <1>10, <1>11, <1>12, <1>13, <1>14, <1>15, <1>16, NextSplit
     DEF Worktree, Others

\* Only StartAttempt gives the runner its turn.
LEMMA OnlyStartsRunner == ASSUME AttemptNext, at = "idle", at' = "runner" PROVE StartAttempt
<1>1. ASSUME NEW next, NEW how, NEW rec, Conduct(next, how, rec) PROVE at' = next
  BY <1>1 DEF Conduct
<1>2. CASE Others
  <2>1. CASE SendBack \/ ReviewStalls \/ Resumed
    BY <1>1, <2>1 DEF SendBack, ReviewStalls, Resumed
  <2>2. CASE ~(SendBack \/ ReviewStalls \/ Resumed)
    BY <1>2, <2>2 DEF Others, RunnerFailed, RunnerStopped, NoteAfter, StoppedSilently, RunnerSucceeded,
         HandoffMissing, ToRecord, RecordHandoff, HandoffInvalid, AskUser, BeginVerify, WorkUncommitted,
         GatesRan, VerifiedFail, GatesPassed, FailNoted, Outcome, SentBack, Dies
  <2> QED
    BY <2>1, <2>2
<1>3. CASE Worktree /\ ~StartAttempt
  BY <1>3 DEF Worktree, RunnerWorks, RepairHandoff, SkillsPass, TargetMoves
<1> QED
  BY <1>2, <1>3, NextSplit

\* Every step of an attempt, its verification, its handoff and its death keeps the
\* unit record, the handoff and the worktree well formed.
THEOREM AttemptTyped == AttemptSpec => []AttemptTypeOK
  BY TypeInitially, TypeInductive, PTL DEF AttemptSpec

\* Only what was verified goes to review, whatever turns worked in the worktree
\* and wherever the conductor died, for every set of gate plans, number of
\* repair turns and length of history.
THEOREM OnlyVerifiedReviewed == AttemptSpec => []ReviewedWorkPassed
<1>1. AttemptTypeOK /\ ReviewInv => ReviewedWorkPassed
  BY DEF ReviewInv, ReviewedWorkPassed, Verified, HandoffHolds
<1>2. AttemptSpec => [](AttemptTypeOK /\ ReviewInv)
  BY TypeInitially, TypeInductive, ReviewInitially, ReviewInductive, PTL DEF AttemptSpec
<1> QED
  BY <1>1, <1>2, PTL

\* The prompt of a new attempt speaks of the last one whenever that one was
\* judged, for every number of attempts.
THEOREM LastFailureTold == AttemptSpec => BriefTellsLastFailure
<1>1. BriefInv /\ AttemptNext =>
        (at = "idle" /\ at' = "runner" /\ ended = "judged" => Brief = record.attempts)
  <2> SUFFICES ASSUME BriefInv, AttemptNext, at = "idle", at' = "runner", ended = "judged"
               PROVE  Brief = record.attempts
    OBVIOUS
  <2>1. record.state = "ready"
    BY OnlyStartsRunner DEF StartAttempt
  <2> QED
    BY <2>1 DEF BriefInv, Brief
<1>2. UNCHANGED attemptVars => ~(at = "idle" /\ at' = "runner")
  BY DEF attemptVars
<1>3. AttemptSpec => [](AttemptTypeOK /\ BriefInv)
  BY TypeInitially, TypeInductive, BriefInitially, BriefInductive, PTL DEF AttemptSpec
<1> QED
  BY <1>1, <1>2, <1>3, PTL DEF AttemptSpec, BriefTellsLastFailure

(************************** The shared git state ***************************)

\* t goes on from s.
Continues(s, t) == Len(s) <= Len(t) /\ \A i \in 1..Len(s) : t[i] = s[i]

LEMMA PrefixContinues ==
  ASSUME NEW s \in History, NEW t \in History
  PROVE  IsPrefix(s, t) <=> Continues(s, t)
<1>1. /\ SubSeq(s, 1, Len(s)) \in History /\ Len(SubSeq(s, 1, Len(s))) = Len(s)
      /\ \A i \in 1..Len(s) : SubSeq(s, 1, Len(s))[i] = s[i]
  BY SubSeqProperties DEF History
<1>2. ASSUME Len(s) <= Len(t)
      PROVE  /\ SubSeq(t, 1, Len(s)) \in History /\ Len(SubSeq(t, 1, Len(s))) = Len(s)
             /\ \A i \in 1..Len(s) : SubSeq(t, 1, Len(s))[i] = t[i]
  BY <1>2, SubSeqProperties DEF History
<1>3. ASSUME Len(s) <= Len(t)
      PROVE  SubSeq(s, 1, Len(s)) = SubSeq(t, 1, Len(s)) <=> \A i \in 1..Len(s) : t[i] = s[i]
  <2> DEFINE a == SubSeq(s, 1, Len(s))
             b == SubSeq(t, 1, Len(s))
  <2>1. a \in History /\ b \in History /\ Len(a) = Len(b) /\ Len(a) = Len(s)
    BY <1>1, <1>2, <1>3
  <2>2. a = b <=> \A i \in 1..Len(s) : a[i] = b[i]
    <3>1. ASSUME \A i \in 1..Len(s) : a[i] = b[i] PROVE a = b
      <4> HIDE DEF a, b
      <4>1. a \in Seq(TargetCommit) /\ b \in Seq(TargetCommit) /\ Len(a) = Len(b)
        BY <2>1 DEF History
      <4>2. \A i \in 1..Len(a) : a[i] = b[i]
        BY <2>1, <3>1
      <4> QED
        BY <4>1, <4>2, SeqEqual
    <3> QED
      BY <3>1
  <2> QED
    BY <1>1, <1>2, <1>3, <2>2
<1> QED
  BY <1>3 DEF IsPrefix, Continues

Target == repo.refs["target"]

RepositoryTyped(r) ==
  /\ DOMAIN r = {"refs", "packed", "config"} /\ DOMAIN r.refs = Refs
  /\ r.refs["target"] \in History

GuardTyped ==
  /\ RepositoryTyped(repo)
  /\ guarded \in [Guarded -> {"ready", "running", "stopped", "reviewing", "queued", "merged"}]
  /\ moves \in Nat
  /\ merge # NoMerge => merge \in MergeRecord /\ guarded[merge.unit] = "queued"

\* Commits are told apart by their numbers.
Numbered ==
  /\ \A i \in DOMAIN Target : Target[i].n \in 1..moves
  /\ \A i, j \in DOMAIN Target : Target[i].n = Target[j].n => i = j

\* The merge under way adds its unit's commit, and no unit is merged twice.
MergedOnce ==
  /\ merge # NoMerge =>
       \E c \in TargetCommit :
         merge.new = Append(merge.old, c) /\ c.merged /\ c.area = merge.unit
  /\ \A i \in DOMAIN Target : Target[i].merged =>
       /\ Target[i].area \in Guarded
       /\ \/ guarded[Target[i].area] = "merged"
          \/ merge # NoMerge /\ merge.unit = Target[i].area
  /\ \A i, j \in DOMAIN Target :
       Target[i].merged /\ Target[j].merged /\ Target[i].area = Target[j].area => i = j

\* old became new by nothing but merges of the queue.
OnlyMerges(old, new) ==
  /\ Continues(old, new)
  /\ \A i \in Len(old) + 1..Len(new) : new[i].merged

\* The baseline of a unit whose runner is at work is the repository it found there,
\* but for merges that went on meanwhile.
Baseline(u) ==
  /\ RepositoryTyped(before[u]) /\ RepositoryTyped(began[u])
  /\ before[u].config = began[u].config /\ before[u].packed = began[u].packed
  /\ \A r \in Refs \ {"target"} : before[u].refs[r] = began[u].refs[r]
  /\ OnlyMerges(began[u].refs["target"], before[u].refs["target"])

Baselines ==
  /\ DOMAIN before = Guarded /\ DOMAIN began = Guarded
  /\ \A u \in Guarded : guarded[u] = "running" => Baseline(u)

SharedInv == GuardTyped /\ Numbered /\ MergedOnce /\ Baselines

LEMMA SharedInitially == GuardInit => SharedInv
<1> SUFFICES ASSUME GuardInit PROVE SharedInv
  OBVIOUS
<1>1. /\ DOMAIN repo = {"refs", "packed", "config"}
      /\ repo.refs = [r \in Refs |-> IF r = "target" THEN << >> ELSE 0]
  BY DEF GuardInit
<1>2. DOMAIN repo.refs = Refs /\ Target = << >>
  BY <1>1 DEF Target, Refs
<1>3. << >> \in History /\ DOMAIN Target = {} /\ "target" \in Refs
  BY <1>2 DEF History, Refs
<1>4. GuardTyped
  BY <1>1, <1>2, <1>3 DEF GuardInit, GuardTyped, RepositoryTyped, Target
<1>5. Numbered /\ MergedOnce
  BY <1>3 DEF GuardInit, Numbered, MergedOnce
<1>6. Baselines
  BY DEF GuardInit, Baselines
<1> QED
  BY <1>4, <1>5, <1>6 DEF SharedInv

LEMMA StaysPut ==
  ASSUME NEW s \in History PROVE OnlyMerges(s, s)
BY DEF OnlyMerges, Continues, History

\* One more commit keeps the numbers apart.
LEMMA CommitNumbered ==
  ASSUME SharedInv, NEW area \in Guarded \cup {Elsewhere}, NEW merged \in BOOLEAN,
         moves' = moves + 1, Target' = Commit(area, merged)
  PROVE  /\ Target' \in History /\ Numbered'
         /\ Len(Target') = Len(Target) + 1
         /\ \A i \in 1..Len(Target) : Target'[i] = Target[i]
         /\ Target'[Len(Target) + 1] = [n |-> moves + 1, area |-> area, merged |-> merged]
         /\ Target' = Append(Target, [n |-> moves + 1, area |-> area, merged |-> merged])
         /\ [n |-> moves + 1, area |-> area, merged |-> merged] \in TargetCommit
<1> DEFINE c == [n |-> moves + 1, area |-> area, merged |-> merged]
<1>1. c \in TargetCommit /\ c.n = moves + 1 /\ moves \in Nat
  BY DEF TargetCommit, SharedInv, GuardTyped
<1>2. Target \in Seq(TargetCommit) /\ Target' = Append(Target, c)
  BY DEF SharedInv, GuardTyped, RepositoryTyped, History, Target, Commit
<1> HIDE DEF c
<1>3. /\ Target' \in Seq(TargetCommit) /\ Len(Target') = Len(Target) + 1 /\ Len(Target) \in Nat
      /\ DOMAIN Target' = 1..Len(Target) + 1 /\ DOMAIN Target = 1..Len(Target)
      /\ \A i \in 1..Len(Target) : Target'[i] = Target[i]
      /\ Target'[Len(Target) + 1] = c
  BY <1>1, <1>2
<1>4. Numbered'
  <2>1. \A i \in DOMAIN Target' : Target'[i].n \in 1..moves'
    BY <1>1, <1>3 DEF SharedInv, Numbered
  <2>2. \A i \in DOMAIN Target : Target'[i].n # c.n
    BY <1>1, <1>3 DEF SharedInv, Numbered
  <2>3. \A i, j \in DOMAIN Target' : Target'[i].n = Target'[j].n => i = j
    BY <1>3, <2>2 DEF SharedInv, Numbered
  <2> QED
    BY <2>1, <2>3 DEF Numbered
<1> QED
  BY <1>1, <1>2, <1>3, <1>4 DEF History, c

\* A change that is no merge.
LEMMA OtherChange ==
  ASSUME SharedInv, RepositoryTyped(repo'), Numbered', moves' = moves + 1,
         UNCHANGED <<guarded, before, notes, merge, began>>,
         \A i \in DOMAIN Target' : Target'[i].merged =>
           i \in DOMAIN Target /\ Target'[i] = Target[i]
  PROVE  SharedInv'
<1>1. GuardTyped'
  BY DEF SharedInv, GuardTyped
<1>2. MergedOnce'
  BY DEF SharedInv, MergedOnce
<1>3. Baselines'
  BY DEF SharedInv, Baselines, Baseline
<1> QED
  BY <1>1, <1>2, <1>3 DEF SharedInv

LEMMA ChangesKeep ==
  ASSUME SharedInv, ResetTarget \/ PackRefs \/ Configure
                      \/ (\E area \in Guarded \cup {Elsewhere} : CommitOnTarget(area))
                      \/ (\E r \in Refs \ {"target"} : MoveRef(r))
  PROVE  SharedInv'
<1>1. /\ DOMAIN repo = {"refs", "packed", "config"} /\ DOMAIN repo.refs = Refs /\ "target" \in Refs
      /\ Target \in Seq(TargetCommit) /\ moves \in Nat
  BY DEF SharedInv, GuardTyped, RepositoryTyped, Refs, History, Target
<1>2. moves' = moves + 1 /\ UNCHANGED <<guarded, before, notes, merge, began>>
  BY DEF ResetTarget, PackRefs, Configure, CommitOnTarget, MoveRef, Change
<1>3. ASSUME Target' = Target, RepositoryTyped(repo') PROVE SharedInv'
  <2>1. Numbered'
    BY <1>1, <1>2, <1>3 DEF SharedInv, Numbered
  <2> QED
    BY <1>2, <1>3, <2>1, OtherChange
<1>4. CASE PackRefs \/ Configure
  <2>1. repo'.refs = repo.refs /\ DOMAIN repo' = DOMAIN repo
    BY <1>1, <1>4 DEF PackRefs, Configure, Change
  <2> QED
    BY <1>1, <1>3, <2>1 DEF Target, RepositoryTyped, History
<1>5. ASSUME NEW r \in Refs \ {"target"}, MoveRef(r) PROVE SharedInv'
  <2>1. repo'.refs = [repo.refs EXCEPT ![r] = 1] /\ DOMAIN repo' = DOMAIN repo
    BY <1>1, <1>5 DEF MoveRef, Change
  <2>2. DOMAIN repo'.refs = Refs /\ repo'.refs["target"] = Target
    BY <1>1, <1>5, <2>1 DEF Target
  <2> QED
    BY <1>1, <1>3, <2>1, <2>2 DEF Target, RepositoryTyped, History
<1>6. ASSUME NEW new, repo' = [repo EXCEPT !.refs["target"] = new]
      PROVE  Target' = new /\ DOMAIN repo' = DOMAIN repo /\ DOMAIN repo'.refs = Refs
  BY <1>1, <1>6 DEF Target
<1>7. ASSUME NEW area \in Guarded \cup {Elsewhere}, CommitOnTarget(area) PROVE SharedInv'
  <2>1. Target' = Commit(area, FALSE) /\ DOMAIN repo' = DOMAIN repo /\ DOMAIN repo'.refs = Refs
    BY <1>6, <1>7 DEF CommitOnTarget, Change
  <2>2. /\ Target' \in History /\ Numbered' /\ Len(Target') = Len(Target) + 1
        /\ \A i \in 1..Len(Target) : Target'[i] = Target[i]
        /\ Target'[Len(Target) + 1] = [n |-> moves + 1, area |-> area, merged |-> FALSE]
    <3>1. FALSE \in BOOLEAN
      OBVIOUS
    <3> QED
      BY <1>2, <1>7, <2>1, <3>1, CommitNumbered
  <2>3. DOMAIN Target' = 1..Len(Target) + 1 /\ DOMAIN Target = 1..Len(Target) /\ Len(Target) \in Nat
    BY <1>1, <2>2 DEF History
  <2>4. RepositoryTyped(repo')
    BY <1>1, <2>1, <2>2 DEF RepositoryTyped, Target
  <2>5. \A i \in DOMAIN Target' : Target'[i].merged => i \in DOMAIN Target /\ Target'[i] = Target[i]
    <3>1. ~Target'[Len(Target) + 1].merged
      BY <2>2
    <3> QED
      BY <2>2, <2>3, <3>1
  <2> QED
    BY <1>2, <2>2, <2>4, <2>5, OtherChange
<1>8. CASE ResetTarget
  <2>1. /\ Target # << >> /\ Target' = Front(Target)
        /\ DOMAIN repo' = DOMAIN repo /\ DOMAIN repo'.refs = Refs
    BY <1>1, <1>8 DEF ResetTarget, Change, Target
  <2>2. /\ Target' \in History /\ DOMAIN Target' = 1..Len(Target) - 1
        /\ DOMAIN Target = 1..Len(Target) /\ Len(Target) \in Nat
        /\ \A i \in DOMAIN Target' : i \in DOMAIN Target /\ Target'[i] = Target[i]
    <3>1. Len(Target) \in Nat \ {0} /\ DOMAIN Target = 1..Len(Target)
      BY <1>1, <2>1
    <3>2. /\ SubSeq(Target, 1, Len(Target) - 1) \in Seq(TargetCommit)
          /\ Len(SubSeq(Target, 1, Len(Target) - 1)) = Len(Target) - 1
          /\ \A i \in 1..Len(Target) - 1 : SubSeq(Target, 1, Len(Target) - 1)[i] = Target[i]
      BY <1>1, <3>1, SubSeqProperties
    <3> QED
      BY <2>1, <3>1, <3>2 DEF Front, History
  <2>3. Numbered'
    BY <1>1, <1>2, <2>2 DEF SharedInv, Numbered
  <2> QED
    BY <1>1, <1>2, <2>1, <2>2, <2>3, OtherChange DEF RepositoryTyped, Target
<1> QED
  BY <1>4, <1>5, <1>7, <1>8


LEMMA RunnerStepsKeep ==
  ASSUME SharedInv, NEW u \in Guarded,
         StartRunner(u) \/ FinishRunner(u) \/ QueueUnit(u) \/ RetryStopped(u, TRUE)
           \/ RetryStopped(u, FALSE)
  PROVE  SharedInv'
<1>1. /\ guarded \in [Guarded -> {"ready", "running", "stopped", "reviewing", "queued", "merged"}]
      /\ DOMAIN before = Guarded /\ DOMAIN began = Guarded
      /\ repo' = repo /\ merge' = merge /\ moves' = moves
  BY DEF SharedInv, GuardTyped, Baselines, StartRunner, FinishRunner, QueueUnit, RetryStopped
<1>2. PICK state \in {"ready", "running", "stopped", "reviewing", "queued"} :
        /\ guarded' = [guarded EXCEPT ![u] = state]
        /\ state = "running" =>
             before' = [before EXCEPT ![u] = repo] /\ began' = [began EXCEPT ![u] = repo]
        /\ guarded[u] # "merged" /\ (guarded[u] = "queued" => state = "queued")
  BY DEF StartRunner, FinishRunner, QueueUnit, RetryStopped
<1>3. /\ DOMAIN before' = Guarded /\ DOMAIN began' = Guarded
      /\ \A w \in Guarded \ {u} : before'[w] = before[w] /\ began'[w] = began[w]
  BY <1>1 DEF StartRunner, FinishRunner, QueueUnit, RetryStopped
<1>4. /\ guarded' \in [Guarded -> {"ready", "running", "stopped", "reviewing", "queued", "merged"}]
      /\ guarded'[u] = state /\ \A w \in Guarded \ {u} : guarded'[w] = guarded[w]
  BY <1>1, <1>2
<1>5. merge # NoMerge => merge \in MergeRecord /\ merge.unit \in Guarded
                           /\ guarded'[merge.unit] = "queued"
  BY <1>2, <1>4 DEF SharedInv, GuardTyped, MergeRecord
<1>6. GuardTyped' /\ Numbered'
  BY <1>1, <1>4, <1>5 DEF SharedInv, GuardTyped, Numbered, Target
<1>7. MergedOnce'
  <2>1. \A w \in Guarded : guarded[w] = "merged" => guarded'[w] = "merged"
    BY <1>2, <1>4
  <2> QED
    BY <1>1, <2>1 DEF SharedInv, MergedOnce, Target
<1>8. Baselines'
  <2>1. ASSUME NEW w \in Guarded, guarded'[w] = "running", w # u PROVE Baseline(w)'
    BY <1>3, <1>4, <2>1 DEF SharedInv, Baselines, Baseline
  <2>2. ASSUME guarded'[u] = "running" PROVE Baseline(u)'
    <3>1. before'[u] = repo /\ began'[u] = repo
      BY <1>1, <1>2, <1>4, <2>2
    <3>2. RepositoryTyped(repo) /\ OnlyMerges(Target, Target)
      BY StaysPut DEF SharedInv, GuardTyped, RepositoryTyped, Target
    <3> QED
      BY <3>1, <3>2 DEF Baseline, Target
  <2> QED
    BY <1>3, <2>1, <2>2 DEF Baselines
<1> QED
  BY <1>6, <1>7, <1>8 DEF SharedInv

LEMMA FastForwardKeeps ==
  ASSUME SharedInv, NEW u \in Guarded, NEW own \in BOOLEAN, FastForward(u, own)
  PROVE  SharedInv'
<1> DEFINE c == [n |-> moves + 1, area |-> u, merged |-> TRUE]
           m == [unit |-> u, old |-> Target, new |-> Commit(u, TRUE),
                 at |-> IF own THEN "note" ELSE "mark"]
<1>1. /\ DOMAIN repo = {"refs", "packed", "config"} /\ DOMAIN repo.refs = Refs /\ "target" \in Refs
      /\ Target \in Seq(TargetCommit) /\ moves \in Nat
  BY DEF SharedInv, GuardTyped, RepositoryTyped, Refs, History, Target
<1>2. /\ guarded[u] = "queued" /\ merge = NoMerge /\ moves' = moves + 1 /\ merge' = m
      /\ repo' = [repo EXCEPT !.refs["target"] = Commit(u, TRUE)]
      /\ guarded' = guarded /\ before' = before /\ began' = began
  BY DEF FastForward, Target
<1>3. Target' = Commit(u, TRUE) /\ DOMAIN repo' = DOMAIN repo /\ DOMAIN repo'.refs = Refs
  BY <1>1, <1>2 DEF Target
<1>4. /\ Target' \in History /\ Numbered' /\ Len(Target') = Len(Target) + 1
      /\ \A i \in 1..Len(Target) : Target'[i] = Target[i]
      /\ Target'[Len(Target) + 1] = c /\ Target' = Append(Target, c) /\ c \in TargetCommit
  <2>1. TRUE \in BOOLEAN /\ u \in Guarded \cup {Elsewhere}
    OBVIOUS
  <2> QED
    BY <1>2, <1>3, <2>1, CommitNumbered
<1>5. RepositoryTyped(repo')
  BY <1>1, <1>3, <1>4 DEF RepositoryTyped, Target
<1>6. m \in MergeRecord /\ m.unit = u /\ m.new = Append(m.old, c) /\ m # NoMerge
  <2>1. Target \in History /\ Commit(u, TRUE) \in History
    BY <1>1, <1>3, <1>4 DEF History
  <2>2. m \in MergeRecord
    BY <2>1 DEF MergeRecord
  <2> QED
    BY <1>3, <1>4, <2>2, GuardAssumption
<1> HIDE DEF m
<1>7. GuardTyped'
  BY <1>1, <1>2, <1>5, <1>6 DEF SharedInv, GuardTyped
<1>8. DOMAIN Target' = 1..Len(Target) + 1 /\ DOMAIN Target = 1..Len(Target) /\ Len(Target) \in Nat
  BY <1>1, <1>4 DEF History
<1>9. \A i \in DOMAIN Target : Target[i].merged => Target[i].area \in Guarded /\ Target[i].area # u
  BY <1>2 DEF SharedInv, MergedOnce
<1>10. c.merged /\ c.area = u
  OBVIOUS
<1> HIDE DEF c
<1>11. MergedOnce'
  <2>1. \E d \in TargetCommit : m.new = Append(m.old, d) /\ d.merged /\ d.area = m.unit
    BY <1>4, <1>6, <1>10
  <2>2. \A i \in DOMAIN Target' : Target'[i].merged =>
          /\ Target'[i].area \in Guarded
          /\ guarded[Target'[i].area] = "merged" \/ m.unit = Target'[i].area
    <3>1. \A i \in DOMAIN Target : Target[i].merged =>
            Target[i].area \in Guarded /\ guarded[Target[i].area] = "merged"
      BY <1>2 DEF SharedInv, MergedOnce
    <3> QED
      BY <1>4, <1>6, <1>8, <1>10, <3>1
  <2>3. \A i, j \in DOMAIN Target' :
          Target'[i].merged /\ Target'[j].merged /\ Target'[i].area = Target'[j].area => i = j
    <3>1. \A i, j \in DOMAIN Target :
            Target[i].merged /\ Target[j].merged /\ Target[i].area = Target[j].area => i = j
      BY DEF SharedInv, MergedOnce
    <3> QED
      BY <1>4, <1>8, <1>9, <1>10, <3>1
  <2> QED
    BY <1>2, <1>6, <2>1, <2>2, <2>3 DEF MergedOnce
<1>12. Baselines'
  BY <1>2 DEF SharedInv, Baselines, Baseline
<1> QED
  BY <1>4, <1>7, <1>11, <1>12 DEF SharedInv

\* A baseline that showed the target as it was before a merge shows it after.
LEMMA AdvanceKeeps ==
  ASSUME SharedInv, merge # NoMerge, NEW old \in History, OnlyMerges(old, merge.old)
  PROVE  OnlyMerges(old, merge.new)
<1>1. PICK c \in TargetCommit : merge.new = Append(merge.old, c) /\ c.merged
  BY DEF SharedInv, MergedOnce
<1>2. merge.old \in Seq(TargetCommit) /\ old \in Seq(TargetCommit)
  BY DEF SharedInv, GuardTyped, MergeRecord, History
<1>3. /\ Len(merge.new) = Len(merge.old) + 1 /\ Len(merge.old) \in Nat /\ Len(old) \in Nat
      /\ \A i \in 1..Len(merge.old) : merge.new[i] = merge.old[i]
      /\ merge.new[Len(merge.old) + 1] = c
  BY <1>1, <1>2
<1> QED
  BY <1>1, <1>3 DEF OnlyMerges, Continues

LEMMA MergeStepsKeep ==
  ASSUME SharedInv, NoteOwnRefMove \/ MarkMerged \/ LoseBaselines
  PROVE  SharedInv'
<1>1. /\ guarded \in [Guarded -> {"ready", "running", "stopped", "reviewing", "queued", "merged"}]
      /\ DOMAIN before = Guarded /\ DOMAIN began = Guarded /\ repo' = repo /\ moves' = moves
      /\ merge # NoMerge => merge \in MergeRecord /\ merge.unit \in Guarded
                              /\ guarded[merge.unit] = "queued"
  BY DEF SharedInv, GuardTyped, MergeRecord, Baselines, NoteOwnRefMove, MarkMerged, LoseBaselines
<1>2. Numbered'
  BY <1>1 DEF SharedInv, Numbered, Target
<1>3. ASSUME merge # NoMerge, merge' = [merge EXCEPT !.at = "mark"]
      PROVE  /\ merge' \in MergeRecord /\ merge' # NoMerge
             /\ merge'.unit = merge.unit /\ merge'.old = merge.old /\ merge'.new = merge.new
  <2>1. merge' \in MergeRecord
    BY <1>1, <1>3 DEF MergeRecord
  <2> QED
    BY <1>1, <1>3, <2>1, GuardAssumption DEF MergeRecord
<1> DEFINE Staying ==
              /\ guarded' \in
                   [Guarded -> {"ready", "running", "stopped", "reviewing", "queued", "merged"}]
              /\ \A w \in Guarded : guarded[w] \in {"queued", "merged"} => guarded'[w] = guarded[w]
           Marked ==
              \/ merge = NoMerge /\ merge' = NoMerge
              \/ merge # NoMerge /\ merge' = [merge EXCEPT !.at = "mark"]
<1>4. ASSUME Staying, Marked
      PROVE  GuardTyped' /\ MergedOnce'
  <2>1. CASE merge = NoMerge /\ merge' = NoMerge
    <3>1. GuardTyped'
      BY <1>1, <1>4, <2>1 DEF SharedInv, GuardTyped
    <3>2. MergedOnce'
      BY <1>1, <1>4, <2>1 DEF SharedInv, MergedOnce, Target
    <3> QED
      BY <3>1, <3>2
  <2>2. CASE merge # NoMerge /\ merge' = [merge EXCEPT !.at = "mark"]
    <3>1. GuardTyped'
      BY <1>1, <1>3, <1>4, <2>2 DEF SharedInv, GuardTyped
    <3>2. MergedOnce'
      BY <1>1, <1>3, <1>4, <2>2 DEF SharedInv, MergedOnce, Target
    <3> QED
      BY <3>1, <3>2
  <2> QED
    BY <1>4, <2>1, <2>2
<1>5. CASE NoteOwnRefMove
  <2>1. /\ merge # NoMerge /\ merge' = [merge EXCEPT !.at = "mark"] /\ guarded' = guarded
        /\ began' = began
        /\ before' = [w \in Guarded |->
             IF w \in InWindow /\ before[w].refs["target"] = merge.old
             THEN [before[w] EXCEPT !.refs["target"] = merge.new] ELSE before[w]]
    BY <1>5 DEF NoteOwnRefMove, Advance
  <2>2. GuardTyped' /\ MergedOnce'
    <3>1. Staying /\ Marked
      BY <1>1, <2>1
    <3> HIDE DEF Staying, Marked
    <3> QED
      BY <1>4, <3>1
  <2>3. ASSUME NEW w \in Guarded, guarded'[w] = "running" PROVE Baseline(w)'
    <3>1. Baseline(w) /\ began'[w] = began[w]
      BY <2>1, <2>3 DEF SharedInv, Baselines
    <3>2. CASE w \in InWindow /\ before[w].refs["target"] = merge.old
      <4>1. before'[w] = [before[w] EXCEPT !.refs["target"] = merge.new]
        BY <2>1, <3>2
      <4>2. /\ DOMAIN before[w] = {"refs", "packed", "config"} /\ DOMAIN before[w].refs = Refs
            /\ "target" \in Refs
        BY <3>1 DEF Baseline, RepositoryTyped, Refs
      <4>3. /\ DOMAIN before'[w] = DOMAIN before[w] /\ DOMAIN before'[w].refs = Refs
            /\ before'[w].refs["target"] = merge.new
            /\ before'[w].config = before[w].config /\ before'[w].packed = before[w].packed
            /\ \A r \in Refs \ {"target"} : before'[w].refs[r] = before[w].refs[r]
        BY <4>1, <4>2
      <4>4. began[w].refs["target"] \in History /\ merge.new \in History
        BY <1>1, <2>1, <3>1 DEF Baseline, RepositoryTyped, MergeRecord
      <4>5. OnlyMerges(began[w].refs["target"], merge.new)
        BY <2>1, <3>1, <3>2, <4>4, AdvanceKeeps DEF Baseline
      <4> QED
        BY <3>1, <4>2, <4>3, <4>4, <4>5 DEF Baseline, RepositoryTyped
    <3>3. CASE ~(w \in InWindow /\ before[w].refs["target"] = merge.old)
      <4>1. before'[w] = before[w]
        BY <2>1, <3>3
      <4> QED
        BY <3>1, <4>1 DEF Baseline
    <3> QED
      BY <3>2, <3>3
  <2>4. Baselines'
    BY <1>1, <2>1, <2>3 DEF Baselines
  <2> QED
    BY <1>2, <2>2, <2>4 DEF SharedInv
<1>6. CASE MarkMerged
  <2>1. /\ merge # NoMerge /\ merge' = NoMerge /\ before' = before /\ began' = began
        /\ guarded' = [guarded EXCEPT ![merge.unit] = "merged"]
    BY <1>6 DEF MarkMerged
  <2>2. /\ guarded'[merge.unit] = "merged"
        /\ \A w \in Guarded \ {merge.unit} : guarded'[w] = guarded[w]
        /\ guarded' \in [Guarded -> {"ready", "running", "stopped", "reviewing", "queued", "merged"}]
    BY <1>1, <2>1
  <2>3. GuardTyped'
    BY <1>1, <2>1, <2>2 DEF SharedInv, GuardTyped
  <2>4. MergedOnce'
    BY <1>1, <2>1, <2>2 DEF SharedInv, MergedOnce, Target
  <2>5. \A w \in Guarded : guarded'[w] = "running" => guarded[w] = "running"
    BY <1>1, <2>1, <2>2
  <2>6. Baselines'
    BY <2>1, <2>5 DEF SharedInv, Baselines, Baseline
  <2> QED
    BY <1>2, <2>3, <2>4, <2>6 DEF SharedInv
<1>7. CASE LoseBaselines
  <2>1. /\ guarded' = [w \in Guarded |-> IF guarded[w] = "running" THEN "ready" ELSE guarded[w]]
        /\ DOMAIN before' = Guarded /\ DOMAIN began' = Guarded
        /\ merge' = IF merge = NoMerge THEN NoMerge ELSE [merge EXCEPT !.at = "mark"]
    BY <1>7 DEF LoseBaselines
  <2>2. /\ guarded' \in [Guarded -> {"ready", "running", "stopped", "reviewing", "queued", "merged"}]
        /\ \A w \in Guarded : guarded'[w] # "running"
        /\ \A w \in Guarded : guarded[w] \in {"queued", "merged"} => guarded'[w] = guarded[w]
    BY <1>1, <2>1
  <2>3. GuardTyped' /\ MergedOnce'
    <3>1. Staying
      BY <2>2
    <3>2. Marked
      BY <2>1
    <3> HIDE DEF Staying, Marked
    <3> QED
      BY <1>4, <3>1, <3>2
  <2>4. Baselines'
    BY <2>1, <2>2 DEF Baselines
  <2> QED
    BY <1>2, <2>3, <2>4 DEF SharedInv
<1> QED
  BY <1>5, <1>6, <1>7

\* The guard's invariant.
LEMMA SharedStays == GuardSpec => []SharedInv
<1>1. SharedInv /\ [GuardNext]_guardVars => SharedInv'
  <2> SUFFICES ASSUME SharedInv, [GuardNext]_guardVars PROVE SharedInv'
    OBVIOUS
  <2>1. CASE UNCHANGED guardVars
    BY <2>1 DEF guardVars, SharedInv, GuardTyped, Numbered, MergedOnce, Baselines, Baseline,
       Target
  <2>2. ASSUME NEW u \in Guarded,
               StartRunner(u) \/ FinishRunner(u) \/ QueueUnit(u)
                 \/ \E b \in BOOLEAN : RetryStopped(u, b)
        PROVE  SharedInv'
    BY <2>2, RunnerStepsKeep
  <2>3. ASSUME NEW u \in Guarded, NEW b \in BOOLEAN, FastForward(u, b) PROVE SharedInv'
    BY <2>3, FastForwardKeeps
  <2>4. CASE NoteOwnRefMove \/ MarkMerged \/ LoseBaselines
    BY <2>4, MergeStepsKeep
  <2>5. CASE ResetTarget \/ PackRefs \/ Configure
               \/ (\E area \in Guarded \cup {Elsewhere} : CommitOnTarget(area))
               \/ (\E r \in Refs \ {"target"} : MoveRef(r))
    BY <2>5, ChangesKeep
  <2> QED
    BY <2>1, <2>2, <2>3, <2>4, <2>5 DEF GuardNext
<1> QED
  BY <1>1, SharedInitially, PTL DEF GuardSpec

\* A unit has a baseline while its runner is at work and at no other time.
Snapshots ==
  /\ repo \in Repository
  /\ before \in [Guarded -> Repository \cup {NoSnapshot}]
  /\ \A u \in Guarded : before[u] = NoSnapshot <=> guarded[u] # "running"

LEMMA SnapshotsInitially == GuardInit => Snapshots
<1> SUFFICES ASSUME GuardInit PROVE Snapshots
  OBVIOUS
<1>1. PICK ends : ends = [r \in Refs |-> IF r = "target" THEN << >> ELSE 0]
  OBVIOUS
<1>2. ends \in RefTips
  BY <1>1 DEF RefTips, History
<1>3. repo = [refs |-> ends, packed |-> {}, config |-> 0]
  BY <1>1 DEF GuardInit
<1>4. repo \in Repository
  BY <1>2, <1>3 DEF Repository
<1> QED
  BY <1>4 DEF GuardInit, Snapshots

\* Whatever happens to the repository leaves one.
LEMMA RepositoryStays ==
  ASSUME SharedInv', repo \in Repository, GuardNext PROVE repo' \in Repository
<1>1. /\ repo.refs \in RefTips /\ repo.packed \in SUBSET RefTips /\ repo.config \in {0, 1}
      /\ repo = [refs |-> repo.refs, packed |-> repo.packed, config |-> repo.config]
  BY DEF Repository
<1>2. Target' \in History
  BY DEF SharedInv, GuardTyped, RepositoryTyped, Target
<1>3. ASSUME NEW new, repo' = [repo EXCEPT !.refs["target"] = new] PROVE repo' \in Repository
  <2>1. PICK ends : ends = [repo.refs EXCEPT !["target"] = new]
    OBVIOUS
  <2>2. repo' = [repo EXCEPT !.refs = ends]
    BY <1>3, <2>1
  <2>3. "target" \in Refs /\ repo'.refs = ends
    BY <1>1, <2>2 DEF Refs
  <2>4. ends["target"] \in History
    BY <1>2, <2>3 DEF Target
  <2>5. ends \in RefTips
    BY <1>1, <2>1, <2>3, <2>4 DEF RefTips
  <2> QED
    BY <1>1, <2>2, <2>5 DEF Repository
<1>4. CASE ResetTarget \/ \E area \in Guarded \cup {Elsewhere} : CommitOnTarget(area)
  BY <1>3, <1>4 DEF ResetTarget, CommitOnTarget, Change
<1>5. CASE \E u \in Guarded, b \in BOOLEAN : FastForward(u, b)
  BY <1>3, <1>5 DEF FastForward
<1>6. ASSUME NEW r \in Refs \ {"target"}, MoveRef(r) PROVE repo' \in Repository
  <2>1. PICK ends : ends = [repo.refs EXCEPT ![r] = 1]
    OBVIOUS
  <2>2. ends \in RefTips
    BY <1>1, <2>1 DEF RefTips
  <2>3. repo' = [repo EXCEPT !.refs = ends]
    BY <1>6, <2>1 DEF MoveRef, Change
  <2> QED
    BY <1>1, <2>2, <2>3 DEF Repository
<1>7. CASE PackRefs
  <2>1. repo' = [repo EXCEPT !.packed = {repo.refs}]
    BY <1>7 DEF PackRefs, Change
  <2> QED
    BY <1>1, <2>1 DEF Repository
<1>8. CASE Configure
  BY <1>1, <1>8 DEF Configure, Change, Repository
<1>9. CASE repo' = repo
  BY <1>9
<1> QED
  BY <1>4, <1>5, <1>6, <1>7, <1>8, <1>9
     DEF GuardNext, StartRunner, FinishRunner, QueueUnit, RetryStopped, NoteOwnRefMove,
         MarkMerged, LoseBaselines

LEMMA SnapshotsStay ==
  ASSUME SharedInv, SharedInv', Snapshots, [GuardNext]_guardVars PROVE Snapshots'
<1>1. CASE UNCHANGED guardVars
  BY <1>1 DEF guardVars, Snapshots
<1> SUFFICES ASSUME GuardNext PROVE Snapshots'
  BY <1>1
<1>2. /\ guarded \in [Guarded -> {"ready", "running", "stopped", "reviewing", "queued", "merged"}]
      /\ before \in [Guarded -> Repository \cup {NoSnapshot}]
      /\ \A u \in Guarded : before[u] = NoSnapshot <=> guarded[u] # "running"
      /\ repo \in Repository /\ NoSnapshot \notin Repository
      /\ merge # NoMerge => merge \in MergeRecord /\ merge.unit \in Guarded
                              /\ guarded[merge.unit] = "queued"
  BY GuardAssumption DEF SharedInv, GuardTyped, Snapshots, MergeRecord
<1>3. repo' \in Repository
  BY <1>2, RepositoryStays
<1>4. ASSUME NEW u \in Guarded, StartRunner(u) \/ FinishRunner(u) PROVE Snapshots'
  <2>1. PICK state, shot :
          /\ guarded' = [guarded EXCEPT ![u] = state] /\ before' = [before EXCEPT ![u] = shot]
          /\ \/ state = "running" /\ shot \in Repository
             \/ state # "running" /\ shot = NoSnapshot
    <3>1. CASE StartRunner(u)
      BY <1>2, <3>1 DEF StartRunner
    <3>2. CASE FinishRunner(u)
      <4>1. PICK state \in {"reviewing", "stopped"} : guarded' = [guarded EXCEPT ![u] = state]
        BY <3>2 DEF FinishRunner
      <4>2. before' = [before EXCEPT ![u] = NoSnapshot]
        BY <3>2 DEF FinishRunner
      <4> QED
        BY <4>1, <4>2
    <3> QED
      BY <1>4, <3>1, <3>2
  <2> QED
    BY <1>2, <1>3, <2>1 DEF Snapshots
<1>5. ASSUME NEW u \in Guarded, QueueUnit(u) \/ \E b \in BOOLEAN : RetryStopped(u, b)
      PROVE  Snapshots'
  <2>1. PICK state : /\ guarded' = [guarded EXCEPT ![u] = state] /\ before' = before
                     /\ state # "running" /\ guarded[u] # "running"
    BY <1>5 DEF QueueUnit, RetryStopped
  <2> QED
    BY <1>2, <1>3, <2>1 DEF Snapshots
<1>6. CASE before' = before /\ guarded' = guarded
  BY <1>2, <1>3, <1>6 DEF Snapshots
<1>7. CASE NoteOwnRefMove
  <2>1. /\ guarded' = guarded /\ merge \in MergeRecord
        /\ before' = [w \in Guarded |->
             IF w \in InWindow /\ before[w].refs["target"] = merge.old
             THEN [before[w] EXCEPT !.refs["target"] = merge.new] ELSE before[w]]
    BY <1>2, <1>7 DEF NoteOwnRefMove, Advance
  <2>2. ASSUME NEW w \in Guarded, w \in InWindow
        PROVE  [before[w] EXCEPT !.refs["target"] = merge.new] \in Repository
    <3>1. PICK shot \in Repository : shot = before[w]
      BY <1>2, <2>2 DEF InWindow
    <3>2. PICK ends : ends = [shot.refs EXCEPT !["target"] = merge.new]
      OBVIOUS
    <3>3. ends \in RefTips
      BY <2>1, <3>1, <3>2 DEF Repository, RefTips, MergeRecord
    <3>4. [shot EXCEPT !.refs = ends] \in Repository
      BY <3>1, <3>3 DEF Repository
    <3> QED
      BY <3>1, <3>2, <3>4
  <2>3. /\ before' \in [Guarded -> Repository \cup {NoSnapshot}]
        /\ \A w \in Guarded : before'[w] = NoSnapshot <=> before[w] = NoSnapshot
    BY <1>2, <2>1, <2>2 DEF InWindow
  <2> QED
    BY <1>2, <1>3, <2>1, <2>3 DEF Snapshots
<1>8. CASE MarkMerged
  <2>1. guarded' = [guarded EXCEPT ![merge.unit] = "merged"] /\ before' = before /\ merge # NoMerge
    BY <1>8 DEF MarkMerged
  <2> QED
    BY <1>2, <1>3, <2>1 DEF Snapshots
<1>9. CASE LoseBaselines
  <2>1. /\ before' = [u \in Guarded |-> NoSnapshot]
        /\ guarded' = [u \in Guarded |-> IF guarded[u] = "running" THEN "ready" ELSE guarded[u]]
    BY <1>9 DEF LoseBaselines
  <2> QED
    BY <1>3, <2>1 DEF Snapshots
<1> QED
  BY <1>4, <1>5, <1>6, <1>7, <1>8, <1>9
     DEF GuardNext, FastForward, CommitOnTarget, MoveRef, ResetTarget, PackRefs, Configure, Change

\* A baseline is there exactly while a runner works, every commit of the target
\* was numbered by a move, and a merge under way is of a queued unit.
THEOREM GuardTypeCorrect == GuardSpec => []GuardTypeOK
<1>1. GuardInit => Snapshots
  BY SnapshotsInitially
<1>2. SharedInv /\ SharedInv' /\ Snapshots /\ [GuardNext]_guardVars => Snapshots'
  BY SnapshotsStay
<1>3. SharedInv /\ Snapshots => GuardTypeOK
  BY DEF SharedInv, GuardTyped, RepositoryTyped, Numbered, Target, Snapshots, GuardTypeOK, Range
<1> QED
  BY <1>1, <1>2, <1>3, SharedStays, PTL DEF GuardSpec


\* What a runner's end is judged by: Continues and the numbers stand for prefixes.
LEMMA FinishIsRight ==
  ASSUME SharedInv, NEW u \in Guarded, FinishRunner(u)
  PROVE  /\ guarded'[u] = "reviewing" => LeftAlone(u)
         /\ guarded'[u] = "stopped" => Disturbed(u)
<1> DEFINE A == began[u].refs["target"]
           B == before[u].refs["target"]
           diff == DiffShared(before[u], repo, Allowed(u, B, Target))
<1>1. /\ guarded \in [Guarded -> {"ready", "running", "stopped", "reviewing", "queued", "merged"}]
      /\ guarded[u] = "running" /\ Baseline(u)
      /\ guarded' = [guarded EXCEPT ![u] = IF diff = {} THEN "reviewing" ELSE "stopped"]
  BY DEF SharedInv, GuardTyped, Baselines, FinishRunner, Target
<1>2. guarded'[u] = IF diff = {} THEN "reviewing" ELSE "stopped"
  <2> HIDE DEF diff
  <2> QED
    BY <1>1
<1>3. /\ A \in History /\ B \in History /\ Target \in History
      /\ Continues(A, B) /\ \A i \in Len(A) + 1..Len(B) : B[i].merged
      /\ before[u].config = began[u].config /\ before[u].packed = began[u].packed
      /\ before[u].refs["tag"] = began[u].refs["tag"]
  BY <1>1 DEF Baseline, RepositoryTyped, OnlyMerges, SharedInv, GuardTyped, Target, Refs
<1>4. /\ "tag" \notin Guarded /\ "target" \notin Guarded /\ Elsewhere \notin Guarded
      /\ "tag" # "target"
  BY GuardAssumption
<1>5. Len(A) \in Nat /\ Len(B) \in Nat /\ Len(Target) \in Nat
      /\ DOMAIN A = 1..Len(A) /\ DOMAIN B = 1..Len(B) /\ DOMAIN Target = 1..Len(Target)
  BY <1>3 DEF History
<1>6. /\ IsPrefix(A, Target) <=> Continues(A, Target)
      /\ IsPrefix(B, Target) <=> Continues(B, Target)
  BY <1>3, PrefixContinues
<1> HIDE DEF A, B
<1>7. ASSUME diff = {} PROVE LeftAlone(u)
  <2>1. /\ repo.config = before[u].config
        /\ \A r \in Refs : before[u].refs[r] # repo.refs[r] => r \in Allowed(u, B, Target)
    BY <1>7 DEF DiffShared
  <2>2. repo.refs["tag"] = before[u].refs["tag"]
    BY <1>4, <2>1 DEF Allowed, Refs
  <2>3. B = Target \/ ~TouchesScope(u, B, Target)
    BY <1>4, <2>1 DEF Allowed, Refs, B, Target
  <2>4. Continues(B, Target) /\ \A i \in Len(B) + 1..Len(Target) : Target[i].area # u
    <3>1. CASE B = Target
      BY <1>5, <3>1 DEF Continues
    <3>2. CASE ~TouchesScope(u, B, Target) /\ B # Target
      <4>1. IsPrefix(B, Target) /\ u \notin MovedPaths(B, Target)
        BY <3>2 DEF TouchesScope, IsStrictPrefix
      <4> QED
        BY <1>6, <4>1 DEF MovedPaths
    <3> QED
      BY <2>3, <3>1, <3>2
  <2>5. Continues(A, Target)
    BY <1>3, <1>5, <2>4 DEF Continues
  <2>6. ASSUME NEW c \in NewCommits(u) PROVE c.area # u
    <3>1. c \in Range(Target) /\ c \notin Range(A) /\ ~c.merged
      BY <2>6 DEF NewCommits, Target, A
    <3>2. PICK i \in 1..Len(Target) : c = Target[i]
      BY <1>5, <3>1 DEF Range
    <3>3. i \notin 1..Len(A)
      BY <1>5, <2>5, <3>1, <3>2 DEF Range, Continues
    <3>4. i \notin Len(A) + 1..Len(B)
      BY <1>3, <1>5, <2>4, <3>1, <3>2 DEF Continues
    <3>5. i \in Len(B) + 1..Len(Target)
      BY <1>5, <3>2, <3>3, <3>4
    <3> QED
      BY <2>4, <3>2, <3>5
  <2>7. ~Rewritten(u)
    BY <1>6, <2>5 DEF Rewritten, A, Target
  <2> QED
    BY <1>3, <2>1, <2>2, <2>6, <2>7 DEF LeftAlone
<1>8. ASSUME ~Disturbed(u) PROVE diff = {}
  <2>1. /\ repo.config = before[u].config /\ repo.packed = before[u].packed
        /\ repo.refs["tag"] = before[u].refs["tag"]
        /\ IsPrefix(B, Target) /\ IsPrefix(A, Target) /\ ~Unnoted(u)
        /\ \A c \in NewCommits(u) : c.area = Elsewhere
    BY <1>3, <1>8 DEF Disturbed, Rewritten, A, B, Target
  <2>2. Continues(A, Target) /\ Continues(B, Target)
    BY <1>6, <2>1
  <2>3. ASSUME NEW i \in Len(B) + 1..Len(Target), Target[i].area \in Guarded
        PROVE  Target[i].area # u /\ ~Active(Target[i].area)
    <3>1. i \in DOMAIN Target /\ i \notin 1..Len(A) /\ i \notin 1..Len(B)
      BY <1>3, <1>5 DEF Continues
    <3>2. Target[i].merged
      <4> SUFFICES ASSUME ~Target[i].merged PROVE FALSE
        OBVIOUS
      <4>1. Target[i] \in Range(A)
        BY <1>4, <2>1, <2>3, <3>1 DEF NewCommits, Range, Target, A
      <4>2. PICK j \in 1..Len(A) : Target[i] = A[j]
        BY <1>5, <4>1 DEF Range
      <4>3. j \in DOMAIN Target /\ Target[j] = Target[i]
        BY <1>5, <2>2, <4>2 DEF Continues
      <4> QED
        BY <3>1, <4>2, <4>3 DEF SharedInv, Numbered
    <3>3. guarded[Target[i].area] = "merged" \/ (merge # NoMerge /\ merge.unit = Target[i].area)
      <4>1. \A k \in DOMAIN Target : Target[k].merged =>
              guarded[Target[k].area] = "merged" \/ (merge # NoMerge /\ merge.unit = Target[k].area)
        BY DEF SharedInv, MergedOnce
      <4> HIDE DEF diff
      <4> QED
        BY <3>1, <3>2, <4>1
    <3>4. ~(merge # NoMerge /\ merge.unit = Target[i].area)
      <4> SUFFICES ASSUME merge # NoMerge, merge.unit = Target[i].area PROVE FALSE
        OBVIOUS
      <4>1. PICK c \in TargetCommit : merge.new = Append(merge.old, c) /\ c.merged /\ c.area = merge.unit
        BY DEF SharedInv, MergedOnce
      <4>2. merge.old \in Seq(TargetCommit) /\ B = merge.new
        BY <2>1 DEF SharedInv, GuardTyped, MergeRecord, History, Unnoted, B
      <4>3. Len(B) \in 1..Len(B) /\ B[Len(B)] = c
        BY <4>1, <4>2
      <4>4. Len(B) \in DOMAIN Target /\ Target[Len(B)] = c
        BY <1>5, <2>2, <4>3 DEF Continues
      <4>5. c.merged /\ c.area = Target[i].area
        BY <4>1
      <4>6. \A k, j \in DOMAIN Target :
              Target[k].merged /\ Target[j].merged /\ Target[k].area = Target[j].area => k = j
        BY DEF SharedInv, MergedOnce
      <4>7. Len(B) = i
        BY <3>1, <3>2, <4>4, <4>5, <4>6
      <4> QED
        BY <3>1, <4>3, <4>7
    <3> QED
      BY <1>1, <3>3, <3>4 DEF Active
  <2>4. B # Target => ~TouchesScope(u, B, Target)
    BY <2>1, <2>3 DEF TouchesScope, IsStrictPrefix, MovedPaths
  <2>5. \A r \in Refs : before[u].refs[r] # repo.refs[r] => r \in Allowed(u, B, Target)
    BY <2>1, <2>4 DEF Refs, Allowed, B, Target
  <2> QED
    BY <2>1, <2>5 DEF DiffShared
<1> QED
  BY <1>2, <1>7, <1>8

\* However merges, their notes and changes of others interleave, for any number of
\* units and commits: work passes the guard only if its time left the shared state
\* alone, and a unit is stopped only if it was disturbed or a merge is not noted yet
\* (docs/runtime.md:326-335; worktrees/guard.py).
THEOREM GuardJudgesRight == GuardSpec => GuardIsRight
<1>1. SharedInv /\ [GuardNext]_guardVars =>
        [\A u \in Guarded : guarded[u] = "running" =>
           /\ guarded'[u] = "reviewing" => LeftAlone(u)
           /\ guarded'[u] = "stopped" => Disturbed(u)]_guardVars
  <2> SUFFICES ASSUME SharedInv, GuardNext, NEW u \in Guarded, guarded[u] = "running"
               PROVE  /\ guarded'[u] = "reviewing" => LeftAlone(u)
                      /\ guarded'[u] = "stopped" => Disturbed(u)
    OBVIOUS
  <2>1. /\ guarded \in [Guarded -> {"ready", "running", "stopped", "reviewing", "queued", "merged"}]
        /\ merge # NoMerge => guarded[merge.unit] = "queued"
    BY DEF SharedInv, GuardTyped
  <2>2. CASE FinishRunner(u)
    BY <2>2, FinishIsRight
  <2>3. ASSUME NEW w \in Guarded,
               StartRunner(w) \/ QueueUnit(w) \/ (FinishRunner(w) /\ w # u)
                 \/ \E b \in BOOLEAN : RetryStopped(w, b)
        PROVE  guarded'[u] = guarded[u]
    BY <2>1, <2>3 DEF StartRunner, QueueUnit, FinishRunner, RetryStopped
  <2>4. CASE MarkMerged \/ LoseBaselines
    BY <2>1, <2>4 DEF MarkMerged, LoseBaselines
  <2>5. CASE NoteOwnRefMove \/ (\E w \in Guarded, b \in BOOLEAN : FastForward(w, b))
               \/ ResetTarget \/ PackRefs \/ Configure
               \/ (\E area \in Guarded \cup {Elsewhere} : CommitOnTarget(area))
               \/ (\E r \in Refs \ {"target"} : MoveRef(r))
    BY <2>5 DEF NoteOwnRefMove, FastForward, ResetTarget, PackRefs, Configure, CommitOnTarget,
       MoveRef, Change
  <2> QED
    BY <2>2, <2>3, <2>4, <2>5 DEF GuardNext
<1> QED
  BY <1>1, SharedStays, PTL DEF GuardSpec, GuardIsRight

================================================================================
