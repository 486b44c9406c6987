----------------------------- MODULE Worktrees -------------------------------
(***************************************************************************)
(* A unit's branch and checkout, from their creation to their cleanup:     *)
(* worktrees/manager.py, and the parts of the conductor and of the command *)
(* line that call it.                                                      *)
(*                                                                         *)
(* Of the repository only what cleanup is about is kept: pieces of work,   *)
(* each a commit on the unit's branch, a commit made with a detached HEAD, *)
(* or an ignored file, and where each can be found. An archive is taken to *)
(* hold the commits it was made of; that a bundle holds their ancestors as *)
(* well would only be more. Creation and cleanup are sequences of git      *)
(* commands and file writes, and their process may die between any two. An *)
(* archive is a file named after the branch's tip.                         *)
(***************************************************************************)
EXTENDS Integers, FiniteSets

CONSTANTS
  Commits, Detached, Ignored,   \* pieces of work, by kind
  NoWork,
  MaxOrphans,   \* MAX_ORPHANS
  MaxMerges,    \* bound: merges into the target
  MaxCrashes    \* bound

ASSUME WorktreeAssumption ==
  /\ NoWork \notin Commits \cup Detached \cup Ignored
  /\ IsFiniteSet(Detached)
  /\ MaxOrphans \in Nat \ {0}
  /\ {MaxMerges, MaxCrashes} \subseteq Nat

Work == Commits \cup Detached \cup Ignored

\* A branch tip: a unit's commit, or the target's tip it was begun from.
Tip == [commit : Commits \cup {NoWork}, base : 0..MaxMerges]

VARIABLES
  done,       \* history: work that was done
  target,     \* the target branch: number of merges, unit commits it has
  branch,     \* the unit's branch: there or not, its commits, its tip
  checkout,   \* its worktree: there or not, changes not committed, ignored
              \* files, commits only its HEAD has visited
  owned,      \* the ownership marker is there
  recorded,   \* the run knows the unit's workspace
  active,     \* the unit's state occupies the checkout, and a runner works in it
  archived,   \* archived[n]: what the archive file named n holds
  archiveRefs,\* commits under refs/ecc-archive
  task,       \* the process that creates or cleans up, and what it has seen
  overtaken,  \* history: the unit was started while a cleanup was under way
  overwritten,\* history: work that only a replaced archive held
  dropped,    \* history: commits that an amend or a reset took off the branch
  cut,        \* history: orphans over MaxOrphans, gone with their checkout
  diedAt      \* history: crashes

worktreeVars ==
  <<done, target, branch, checkout, owned, recorded, active, archived, archiveRefs,
    task, overtaken, overwritten, dropped, cut, diedAt>>

NoBranch == [there |-> FALSE, commits |-> {}, tip |-> [commit |-> NoWork, base |-> 0]]

NoCheckout == [there |-> FALSE, dirty |-> FALSE, ignored |-> {}, visited |-> {}]

NoTask ==
  [at |-> "none", unique |-> {}, orphans |-> {}, unlisted |-> {}, ignored |-> {},
   tip |-> NoBranch.tip]

ArchiveName == [kind : {"bundle", "ignored"}, tip : Tip]

WorktreeTypeOK ==
  /\ done \subseteq Work
  /\ target \in [merges : 0..MaxMerges, commits : SUBSET Commits]
  /\ branch \in [there : BOOLEAN, commits : SUBSET Commits, tip : Tip]
  /\ checkout \in [there : BOOLEAN, dirty : BOOLEAN, ignored : SUBSET Ignored,
                   visited : SUBSET Detached]
  /\ {owned, recorded, active, overtaken} \subseteq BOOLEAN
  /\ archived \in [ArchiveName -> SUBSET Work]
  /\ archiveRefs \subseteq Detached
  /\ task \in [at : {"none", "added", "marked", "ignored", "bundle", "remove", "branch",
                     "marker"},
               unique : SUBSET Commits, orphans : SUBSET Detached, unlisted : SUBSET Detached,
               ignored : SUBSET Ignored, tip : Tip]
  /\ overwritten \subseteq Work /\ dropped \subseteq Commits /\ cut \subseteq Detached
  /\ diedAt \in 0..MaxCrashes

WorktreeInit ==
  /\ done = {} /\ target = [merges |-> 0, commits |-> {}]
  /\ branch = NoBranch /\ checkout = NoCheckout
  /\ owned = FALSE /\ recorded = FALSE /\ active = FALSE
  /\ archived = [n \in ArchiveName |-> {}] /\ archiveRefs = {}
  /\ task = NoTask
  /\ overtaken = FALSE /\ overwritten = {} /\ dropped = {} /\ cut = {} /\ diedAt = 0

historyVars == <<overtaken, overwritten, dropped, cut, diedAt>>

(******************************** Creation *********************************)

\* WorktreeManager.create, its checks and `git worktree add -b`.  It starts
\* from the target's tip.
AddWorktree ==
  /\ ~active /\ task.at = "none"
  /\ ~branch.there /\ ~checkout.there /\ ~owned
  /\ branch' = [there |-> TRUE, commits |-> {},
                tip |-> [commit |-> NoWork, base |-> target.merges]]
  /\ checkout' = [NoCheckout EXCEPT !.there = TRUE]
  /\ task' = [NoTask EXCEPT !.at = "added"]
  /\ UNCHANGED <<done, target, owned, recorded, active, archived, archiveRefs, historyVars>>

WriteMarker ==
  /\ task.at = "added"
  /\ owned' = TRUE
  /\ task' = [task EXCEPT !.at = "marked"]
  /\ UNCHANGED <<done, target, branch, checkout, recorded, active, archived, archiveRefs,
                 historyVars>>

\* start_unit: record_workspace, and the unit runs.
RecordWorkspace ==
  /\ task.at = "marked"
  /\ recorded' = TRUE /\ active' = TRUE
  /\ task' = NoTask
  /\ UNCHANGED <<done, target, branch, checkout, owned, archived, archiveRefs, historyVars>>

Creating == task.at \in {"added", "marked"}

\* start_unit finds the checkout: it brings the target in, and the unit runs,
\* with the workspace that was recorded, if one was.  Nothing keeps a cleanup
\* out, which holds no lease.
RunAgain ==
  /\ ~active /\ ~Creating
  /\ checkout.there
  /\ active' = TRUE
  /\ branch' =
       IF checkout.dirty \/ ~branch.there THEN branch
       ELSE [branch EXCEPT !.tip = IF branch.commits = {}
                                   THEN [commit |-> NoWork, base |-> target.merges] ELSE @]
  /\ overtaken' = (overtaken \/ task.at # "none")
  /\ UNCHANGED <<done, target, checkout, owned, recorded, archived, archiveRefs, task,
                 overwritten, dropped, cut, diedAt>>

(******************************** The runner *******************************)

Produce(w) ==
  /\ active /\ checkout.there
  /\ w \notin done
  /\ done' = done \cup {w}
  /\ UNCHANGED <<target, owned, recorded, active, archived, archiveRefs, task, historyVars>>

CommitWork(w) ==
  /\ w \in Commits /\ branch.there
  /\ Produce(w)
  /\ branch' = [branch EXCEPT !.commits = @ \cup {w}, !.tip = [@ EXCEPT !.commit = w]]
  /\ UNCHANGED checkout

\* `git commit --amend`, or a reset: the branch's last commit is no longer on it.
\* Only the reflogs, which go with the branch and the checkout, still have it.
DropTip(t) ==
  /\ active /\ checkout.there /\ branch.there
  /\ branch.tip.commit \in branch.commits
  /\ LET w == branch.tip.commit IN
       /\ t \in IF branch.commits = {w} THEN {NoWork} ELSE branch.commits \ {w}
       /\ branch' = [branch EXCEPT !.commits = @ \ {w}, !.tip = [@ EXCEPT !.commit = t]]
       /\ dropped' = dropped \cup {w}
  /\ UNCHANGED <<done, target, checkout, owned, recorded, active, archived, archiveRefs, task,
                 overtaken, overwritten, cut, diedAt>>

\* A commit made while HEAD was detached: the branch never had it.
CommitDetached(w) ==
  /\ w \in Detached
  /\ Produce(w)
  /\ checkout' = [checkout EXCEPT !.visited = @ \cup {w}]
  /\ UNCHANGED branch

LeaveIgnored(w) ==
  /\ w \in Ignored
  /\ Produce(w)
  /\ checkout' = [checkout EXCEPT !.ignored = @ \cup {w}]
  /\ UNCHANGED branch

\* Changes that are not committed, or are committed after all.
Touch ==
  /\ active /\ checkout.there
  /\ checkout' = [checkout EXCEPT !.dirty = ~@]
  /\ UNCHANGED <<done, target, branch, owned, recorded, active, archived, archiveRefs,
                 task, historyVars>>

\* The attempt ends: the unit is stopped, or waits for its review and merge.
StopUnit ==
  /\ active
  /\ active' = FALSE
  /\ UNCHANGED <<done, target, branch, checkout, owned, recorded, archived, archiveRefs,
                 task, historyVars>>

MergeUnit ==
  /\ ~active /\ branch.there /\ branch.commits \ target.commits # {}
  /\ target.merges < MaxMerges
  /\ target' = [merges |-> target.merges + 1, commits |-> target.commits \cup branch.commits]
  /\ UNCHANGED <<done, branch, checkout, owned, recorded, active, archived, archiveRefs,
                 task, historyVars>>

(********************************* Cleanup *********************************)

\* unique_commits: what the branch has and the target has not.
Unique == IF branch.there THEN branch.commits \ target.commits ELSE {}

\* Mutant of Orphans: commits of a detached HEAD are not looked for.
OrphansUnseen == {}

\* _orphaned_commits, before its list is cut: what only this checkout's HEAD has
\* visited and what never was the branch's tip (not what DropTip took off it).
\* With the checkout its reflog is gone.
Orphans == IF checkout.there THEN checkout.visited ELSE {}

\* orphans[:MAX_ORPHANS].  Which of more the list keeps depends on the reflog's
\* order, which is not kept here.
Listed(orphans) ==
  IF Cardinality(orphans) <= MaxOrphans THEN {orphans}
  ELSE {kept \in SUBSET orphans : Cardinality(kept) = MaxOrphans}

IgnoredFiles == IF checkout.there THEN checkout.ignored ELSE {}

\* plan_cleanup and inspect(): the unit is stopped, the checkout is the unit's
\* and has nothing uncommitted, and work nobody else has is to be archived.
BeginCleanup(archive, orphans) ==
  /\ ~active /\ task.at = "none"
  /\ owned
  /\ checkout.there => ~checkout.dirty
  /\ orphans \in Listed(Orphans)
  /\ archive \/ (Unique = {} /\ orphans = {} /\ IgnoredFiles = {})
  /\ task' = [at |-> "ignored", unique |-> Unique, orphans |-> orphans,
              unlisted |-> Orphans \ orphans, ignored |-> IgnoredFiles,
              tip |-> IF branch.there THEN branch.tip ELSE NoBranch.tip]
  /\ UNCHANGED <<done, target, branch, checkout, owned, recorded, active, archived,
                 archiveRefs, historyVars>>

\* The file of that name, if there is one, is replaced.
ReplaceFile(n, content) ==
  /\ archived' = [archived EXCEPT ![n] = content]
  /\ overwritten' =
       overwritten \cup {w \in archived[n] \ content :
                           \A m \in ArchiveName \ {n} : w \notin archived[m]}

\* _archive_ignored
ArchiveIgnored ==
  /\ task.at = "ignored"
  /\ task' = [task EXCEPT !.at = "bundle"]
  /\ IF task.ignored = {}
     THEN UNCHANGED <<archived, overwritten>>
     ELSE ReplaceFile([kind |-> "ignored", tip |-> task.tip], task.ignored \cap checkout.ignored)
  /\ UNCHANGED <<done, target, branch, checkout, owned, recorded, active, archiveRefs,
                 overtaken, dropped, cut, diedAt>>

\* Orphans get a ref, which must be new; then the bundle is made of the branch
\* and these refs, and verified, and the refs are deleted again.  An error
\* leaves everything in place.
BundleWork ==
  /\ task.at = "bundle"
  /\ archiveRefs' = {}
  /\ IF task.unique = {} /\ task.orphans = {}
     THEN task' = [task EXCEPT !.at = "remove"] /\ UNCHANGED <<archived, overwritten>>
     ELSE IF task.orphans \cap archiveRefs # {}
     THEN task' = NoTask /\ UNCHANGED <<archived, overwritten>>
     ELSE /\ task' = [task EXCEPT !.at = "remove"]
          /\ ReplaceFile([kind |-> "bundle", tip |-> task.tip],
                     task.orphans \cup (IF task.unique = {} THEN {} ELSE Unique))
  /\ UNCHANGED <<done, target, branch, checkout, owned, recorded, active, overtaken,
                 dropped, cut, diedAt>>

\* `git worktree remove` without force refuses changes that are not committed;
\* ignored files and the reflog go with the checkout.
RemoveCheckout ==
  /\ task.at = "remove"
  /\ IF checkout.dirty
     THEN task' = NoTask /\ UNCHANGED <<checkout, cut>>
     ELSE /\ task' = [task EXCEPT !.at = "branch"]
          /\ checkout' = NoCheckout
          /\ cut' = cut \cup task.unlisted
  /\ UNCHANGED <<done, target, branch, owned, recorded, active, archived, archiveRefs,
                 overtaken, overwritten, dropped, diedAt>>

\* `git branch -D`
DeleteBranch ==
  /\ task.at = "branch"
  /\ branch' = NoBranch
  /\ task' = [task EXCEPT !.at = "marker"]
  /\ UNCHANGED <<done, target, checkout, owned, recorded, active, archived, archiveRefs,
                 historyVars>>

RemoveMarker ==
  /\ task.at = "marker"
  /\ owned' = FALSE
  /\ task' = NoTask
  /\ UNCHANGED <<done, target, branch, checkout, recorded, active, archived, archiveRefs,
                 historyVars>>

\* The process dies between two steps, or with the orphans' refs made.
TaskDies ==
  /\ task.at # "none" /\ diedAt < MaxCrashes
  /\ diedAt' = diedAt + 1
  /\ archiveRefs' \in {archiveRefs} \cup (IF task.at = "bundle" THEN {task.orphans} ELSE {})
  /\ task' = NoTask
  /\ UNCHANGED <<done, target, branch, checkout, owned, recorded, active, archived,
                 overtaken, overwritten, dropped, cut>>

(**************************** The specification ****************************)

CleanupStep ==
  \/ \E archive \in BOOLEAN, orphans \in SUBSET Detached : BeginCleanup(archive, orphans)
  \/ ArchiveIgnored \/ BundleWork \/ RemoveCheckout \/ DeleteBranch \/ RemoveMarker

RunnerStep ==
  \/ \E w \in Work : CommitWork(w) \/ CommitDetached(w) \/ LeaveIgnored(w)
  \/ \E t \in Commits \cup {NoWork} : DropTip(t)
  \/ Touch \/ StopUnit

WorktreeNext ==
  \/ AddWorktree \/ WriteMarker \/ RecordWorkspace \/ RunAgain
  \/ RunnerStep \/ MergeUnit
  \/ CleanupStep \/ TaskDies

WorktreeSpec == WorktreeInit /\ [][WorktreeNext]_worktreeVars

(******************************* Properties ********************************)

\* Where a piece of work can still be found.
Kept ==
  (IF branch.there THEN branch.commits ELSE {})
  \cup target.commits
  \cup (IF checkout.there THEN checkout.visited \cup checkout.ignored ELSE {})
  \cup UNION {archived[n] : n \in ArchiveName}

\* Whatever step of a cleanup its process dies at, and however often a unit is
\* cleaned up and run again, its work is lost only where a later archive takes
\* an earlier one's name, where the unit took a commit off its own branch, where
\* there were more orphans than cleanup lists, or where the unit was started
\* under a cleanup.  Within that number no orphan is left out.
LossesAccounted ==
  \/ overtaken
  \/ /\ done \subseteq Kept \cup overwritten \cup dropped \cup cut
     /\ cut # {} => Cardinality(Detached) > MaxOrphans

\* "cleanup never loses unique work ... unless those commits are archived to a
\* verified bundle first" (docs/runtime.md:47), when no unit is started while
\* its cleanup is under way.  What the unit itself took off its branch is not
\* unique work (docs/runtime.md:562).
WorkKept == overtaken \/ done \subseteq Kept \cup dropped

==============================================================================
