--------------------------- MODULE ApprovedTarget ----------------------------
(***************************************************************************)
(* What the merge queue and the approvals promise together: the target     *)
(* branch only grows, somebody else's commits are kept, and the queue adds *)
(* a unit's commit to it only when a merge of exactly that commit was      *)
(* approved, and only once.  Whatever else happens is invisible.           *)
(***************************************************************************)
EXTENDS Sequences, SequencesExt

CONSTANTS
  UnitCommit,   \* commits of units
  OtherCommit   \* everybody else's

VARIABLES
  approved,   \* the commits whose merge was approved
  target      \* the commits of the target branch

Init == approved = {} /\ target = << >>

Approve(c) == approved' = approved \cup {c} /\ UNCHANGED target

Merge(c) ==
  /\ c \in approved
  /\ ~Contains(target, c)
  /\ target' = Append(target, c)
  /\ UNCHANGED approved

Move(c) == target' = Append(target, c) /\ UNCHANGED approved

Next ==
  \/ \E c \in UnitCommit : Approve(c) \/ Merge(c)
  \/ \E c \in OtherCommit : Move(c)

Spec == Init /\ [][Next]_<<approved, target>>

==============================================================================
