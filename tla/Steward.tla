------------------------------- MODULE Steward --------------------------------
(***************************************************************************)
(* The practices steward (team/learning.py): lessons are appended to a log,*)
(* and a drive now and then has an agent turn the new ones into changes of *)
(* the practice files, which are reviewed, gated and put on the target.    *)
(* What the steward has seen is in the drive's state file, written only    *)
(* when a pass is over; the drive may die at any point.                    *)
(*                                                                         *)
(* A lesson is kept by the persona that reviews what is made of it.        *)
(***************************************************************************)
EXTENDS Integers, FiniteSets, SequencesExt

CONSTANTS
  AfterMerged,  \* after_merged_units
  MinLessons,   \* min_new_lessons
  MaxLessons, MaxTarget  \* bounds

VARIABLES
  lessons,    \* lessons/<run>.jsonl: the reviewers its lines call for
  torn,       \* a line of it cannot be read
  learning,   \* the learning part of the drive's state file
  branches,   \* the practices-n branches there are
  tip,        \* the target's commits
  mergedUnits,\* units merged
  pass        \* the steward in the drive that runs, if one does

stewardVars == <<lessons, torn, learning, branches, tip, mergedUnits, pass>>

\* REVIEWER_FOR: everybody else's lessons go to pr_reviewer.
Reviewers == {"pr_reviewer", "architect"}
NoPass == [at |-> "off"]

\* A pass on the target: number, lessons, those who approved, the files it
\* changes, and the target's commits its gates ran with.
PassCommit ==
  [n : Nat, from : Nat, to : Nat, approved : SUBSET Reviewers, outside : BOOLEAN, on : Nat]
UnitCommit == [n |-> 0, from |-> 0, to |-> 0, approved |-> {}, outside |-> FALSE, on |-> 0]

StewardTypeOK ==
  /\ lessons \in Seq(Reviewers)
  /\ \A i \in DOMAIN tip : tip[i] \in PassCommit
  /\ learning.seen <= Len(lessons) /\ learning.mergedAt <= mergedUnits
  /\ branches \subseteq 1..Len(learning.runs) + 1

StewardInit ==
  /\ lessons = << >> /\ torn = FALSE
  /\ learning = [runs |-> << >>, seen |-> 0, mergedAt |-> 0]
  /\ branches = {} /\ tip = << >> /\ mergedUnits = 0
  /\ pass = NoPass

(***************************** Lessons and units ***************************)

\* Lessons.add: of findings, failures and notes.
AddLesson(reviewer) ==
  /\ Len(lessons) < MaxLessons
  /\ lessons' = Append(lessons, reviewer)
  /\ UNCHANGED <<torn, learning, branches, tip, mergedUnits, pass>>

\* A process dies while it appends: what follows is glued to the fragment.
TearLine ==
  /\ ~torn
  /\ torn' = TRUE
  /\ UNCHANGED <<lessons, learning, branches, tip, mergedUnits, pass>>

\* Lessons.all is empty when one line cannot be read.
ReadableLessons(log) == IF torn THEN << >> ELSE log
Pending == SubSeq(ReadableLessons(lessons), learning.seen + 1, Len(ReadableLessons(lessons)))

LandUnit ==
  /\ Len(tip) < MaxTarget
  /\ tip' = Append(tip, UnitCommit)
  /\ mergedUnits' = mergedUnits + 1
  /\ UNCHANGED <<lessons, torn, learning, branches, pass>>

(******************************** The pass *********************************)

StartLoop ==
  /\ pass.at = "off"
  /\ pass' = [at |-> "loop"]
  /\ UNCHANGED <<lessons, torn, learning, branches, tip, mergedUnits>>

\* due
IsDue(final) ==
  /\ Pending # << >>
  /\ ~final => mergedUnits - learning.mergedAt >= AfterMerged /\ Len(Pending) >= MinLessons

Number == Len(learning.runs) + 1

\* run: the lessons are taken, in memory; a branch of that number ends the drive.
BeginPass(final) ==
  /\ pass.at = "loop" /\ IsDue(final)
  /\ IF Number \in branches THEN pass' = NoPass
     ELSE pass' = [at |-> "turn", from |-> learning.seen, to |-> learning.seen + Len(Pending),
                   mergedAt |-> mergedUnits, missing |-> Range(Pending), approved |-> {},
                   outside |-> FALSE, old |-> tip]
  /\ branches' = branches \cup {Number}
  /\ UNCHANGED <<lessons, torn, learning, tip, mergedUnits>>

\* _record
RecordPass(status) ==
  /\ learning' = [runs |-> Append(learning.runs, [from |-> pass.from, to |-> pass.to, status |-> status]),
                  seen |-> pass.to, mergedAt |-> pass.mergedAt]
  /\ pass' = [at |-> "loop"]
  /\ UNCHANGED <<lessons, torn, branches, tip, mergedUnits>>

\* No coding runner for the steward, which takes no branch.
SkipPass ==
  /\ pass.at = "loop" /\ \E final \in BOOLEAN : IsDue(final)
  /\ learning' = [runs |-> Append(learning.runs,
                             [from |-> learning.seen, to |-> learning.seen + Len(Pending), status |-> "skipped"]),
                  seen |-> learning.seen + Len(Pending), mergedAt |-> mergedUnits]
  /\ UNCHANGED <<lessons, torn, branches, tip, mergedUnits, pass>>

GoOn(next) == pass' = next /\ UNCHANGED <<lessons, torn, learning, branches, tip, mergedUnits>>

\* The steward's turn fails, changes nothing, or leaves a change, which may
\* touch no other files than those of its lessons' roles.
EndTurn ==
  /\ pass.at = "turn"
  /\ \/ RecordPass("no change")
     \/ \E outside \in BOOLEAN :
          IF outside THEN RecordPass("rejected") ELSE GoOn([pass EXCEPT !.at = "review"])

ReviewPass(reviewer) ==
  /\ pass.at = "review" /\ reviewer \in pass.missing
  /\ \/ GoOn([pass EXCEPT !.missing = @ \ {reviewer}, !.approved = @ \cup {reviewer}])
     \/ RecordPass("not approved")

\* _merge: into a checkout of the target's tip, where the gates run.
BeginMerge ==
  /\ pass.at = "review" /\ pass.missing = {}
  /\ GoOn([pass EXCEPT !.at = "gates", !.old = tip]) \/ RecordPass("conflict")

\* Mutant of LandPass: the target need not be what it was.
LandAnyway ==
  /\ pass.at = "gates" /\ Len(tip) < MaxTarget
  /\ tip' = Append(tip, [n |-> Number, from |-> pass.from, to |-> pass.to, approved |-> pass.approved,
                         outside |-> pass.outside, on |-> Len(pass.old)])
  /\ pass' = [pass EXCEPT !.at = "landed"]
  /\ UNCHANGED <<lessons, torn, learning, branches, mergedUnits>>

\* _fast_forward
LandPass ==
  /\ pass.at = "gates" /\ tip = pass.old
  /\ Len(tip) < MaxTarget
  /\ tip' = Append(tip, [n |-> Number, from |-> pass.from, to |-> pass.to, approved |-> pass.approved,
                         outside |-> pass.outside, on |-> Len(pass.old)])
  /\ pass' = [pass EXCEPT !.at = "landed"]
  /\ UNCHANGED <<lessons, torn, learning, branches, mergedUnits>>

\* The gates fail, the target's checkout has changes, or the target has moved.
NotLanded == pass.at = "gates" /\ RecordPass("not merged")

RecordLanded == pass.at = "landed" /\ RecordPass("merged")

DriveDies ==
  /\ pass.at # "off"
  /\ pass' = NoPass
  /\ UNCHANGED <<lessons, torn, learning, branches, tip, mergedUnits>>

StewardNext ==
  \/ \E r \in Reviewers : AddLesson(r) \/ ReviewPass(r)
  \/ TearLine \/ LandUnit \/ StartLoop \/ SkipPass
  \/ \E final \in BOOLEAN : BeginPass(final)
  \/ EndTurn \/ BeginMerge \/ LandPass \/ NotLanded \/ RecordLanded \/ DriveDies

StewardSpec == StewardInit /\ [][StewardNext]_stewardVars

(******************************* Properties ********************************)

Landed == {i \in DOMAIN tip : tip[i] # UnitCommit}

\* Lessons reach the practice files once and as agreed (team/learning.py:1-15):
\* the passes on file took the lessons in order, none left out and none twice;
\* and a pass that landed was approved by every reviewer of its lessons, changed
\* practice files alone, landed on the very target its gates ran on, and shares
\* no lesson with another that landed, although the drive dies between any two
\* steps and lessons and units go on arriving.
LessonsTakenOnce ==
  /\ LET runs == learning.runs
     IN \A i \in DOMAIN runs :
          /\ runs[i].from = IF i = 1 THEN 0 ELSE runs[i - 1].to
          /\ runs[i].from < runs[i].to /\ runs[i].to <= learning.seen
  /\ \A i \in Landed :
       /\ {lessons[l] : l \in tip[i].from + 1..tip[i].to} \subseteq tip[i].approved
       /\ ~tip[i].outside
       /\ tip[i].on = i - 1
       /\ \A j \in Landed : i < j => tip[i].to <= tip[j].from

==============================================================================
