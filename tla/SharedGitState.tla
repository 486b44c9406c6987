---------------------------- MODULE SharedGitState ----------------------------
(***************************************************************************)
(* The guard over what all worktrees of a repository share                 *)
(* (worktrees/guard.py) and the conductor's use of it: a snapshot before a *)
(* runner starts, a comparison after it exits, and a baseline that follows *)
(* the conductor's own merges.  Runners, the owner and other processes     *)
(* change the repository at any time; who did it is not recorded there.    *)
(*                                                                         *)
(* A commit is numbered and names whose scope its files lie in, so that the*)
(* target is the sequence of its commits and a rewrite is whatever does not*)
(* extend it.  Scopes are disjoint.                                        *)
(***************************************************************************)
EXTENDS Integers, SequencesExt

CONSTANTS
  Guarded,    \* the run's units
  NoSnapshot,
  NoMerge,
  MaxMoves  \* bound: changes made to the repository

Elsewhere == "elsewhere"
Refs == Guarded \cup {"target", "tag"}

\* A commit of the target, and a merge that is under way.
TargetCommit == [n : Nat, area : Guarded \cup {Elsewhere}, merged : BOOLEAN]
History == Seq(TargetCommit)
MergeRecord == [unit : Guarded, old : History, new : History, at : {"note", "mark"}]
\* What a snapshot holds: where each ref points, the tips packed-refs was written
\* from, and the version of config, hooks and info/.
RefTips == [Refs -> History \cup {0, 1}]
Repository == [refs : RefTips, packed : SUBSET RefTips, config : {0, 1}]

ASSUME GuardAssumption ==
  /\ Guarded \cap {"target", "tag", Elsewhere} = {}
  /\ NoMerge \notin MergeRecord /\ NoSnapshot \notin Repository
  /\ MaxMoves \in Nat

VARIABLES
  repo,    \* refs, packed-refs, and config with hooks and info/
  guarded, \* state of each unit; "ready" is what is not under way
  before,  \* _git_before
  notes,   \* what a stop noted: refs_only and touches_scope
  merge,   \* process_merge_queue between the fast-forward and the new state
  moves, \* bound: changes made so far
  began    \* history: the repository when the unit's runner started

guardVars == <<repo, guarded, before, notes, merge, moves, began>>

NoNote == [refsOnly |-> FALSE, touches |-> FALSE]

GuardInit ==
  /\ repo = [refs |-> [r \in Refs |-> IF r = "target" THEN << >> ELSE 0],
             packed |-> {}, config |-> 0]
  /\ guarded = [u \in Guarded |-> "ready"]
  /\ before = [u \in Guarded |-> NoSnapshot] /\ began = before
  /\ notes = [u \in Guarded |-> NoNote]
  /\ merge = NoMerge
  /\ moves = 0

GuardTypeOK ==
  /\ DOMAIN repo = {"refs", "packed", "config"} /\ DOMAIN repo.refs = Refs
  /\ repo.refs["target"] \in History
  /\ guarded \in [Guarded -> {"ready", "running", "stopped", "reviewing", "queued", "merged"}]
  /\ \A u \in Guarded : before[u] = NoSnapshot <=> guarded[u] # "running"
  /\ \A c \in Range(repo.refs["target"]) : c.n \in 1..moves
  /\ merge # NoMerge => merge \in MergeRecord /\ guarded[merge.unit] = "queued"

(****************************** The comparison *****************************)

Active(u) == guarded[u] \in {"running", "reviewing", "queued"}

\* target_move_paths: whose files the commits after `old` change.  The code takes
\* the net difference, which is the same as long as no commit undoes another.
MovedPaths(old, new) == {new[i].area : i \in Len(old) + 1..Len(new)}

\* _target_move's touches_scope
TouchesScope(u, old, new) ==
  old # new /\ (IsStrictPrefix(old, new) => \E w \in MovedPaths(old, new) \cap Guarded : w = u \/ Active(w))

\* _allowed_refs, like remote-tracking refs, and a target that moved elsewhere.
Allowed(u, old, new) ==
  Guarded \cup (IF TouchesScope(u, old, new) THEN {} ELSE {"target"})

\* diff_shared_git_state: packed-refs may change with refs that are allowed to.
DiffShared(old, new, allowed) ==
  LET moved == {r \in Refs : old.refs[r] # new.refs[r]}
      repacked == old.packed # new.packed /\ ~(moved # {} /\ moved \subseteq allowed)
  IN  (moved \ allowed) \cup (IF repacked THEN {"packed"} ELSE {})
        \cup (IF old.config # new.config THEN {"config"} ELSE {})

RefsOnly(diff) == diff # {} /\ "config" \notin diff

(************************** The conductor's steps **************************)

StartRunner(u) ==
  /\ guarded[u] = "ready"
  /\ guarded' = [guarded EXCEPT ![u] = "running"]
  /\ before' = [before EXCEPT ![u] = repo]
  /\ began' = [began EXCEPT ![u] = repo]
  /\ UNCHANGED <<repo, notes, merge, moves>>

\* _complete: the work goes on to its review, or the unit is stopped.
FinishRunner(u) ==
  LET old == before[u].refs["target"]
      new == repo.refs["target"]
      diff == DiffShared(before[u], repo, Allowed(u, old, new))
  IN /\ guarded[u] = "running"
     /\ guarded' = [guarded EXCEPT ![u] = IF diff = {} THEN "reviewing" ELSE "stopped"]
     /\ notes' = [notes EXCEPT ![u] =
          [refsOnly |-> RefsOnly(diff), touches |-> diff # {} /\ TouchesScope(u, old, new)]]
     /\ before' = [before EXCEPT ![u] = NoSnapshot]
     /\ began' = [began EXCEPT ![u] = NoSnapshot]
     /\ UNCHANGED <<repo, merge, moves>>

\* Drive.heal, when only refs moved and none into a scope, or the owner.
RetryStopped(u, healed) ==
  /\ guarded[u] = "stopped"
  /\ healed => notes[u].refsOnly /\ ~notes[u].touches
  /\ guarded' = [guarded EXCEPT ![u] = "ready"]
  /\ notes' = [notes EXCEPT ![u] = NoNote]
  /\ UNCHANGED <<repo, before, merge, moves, began>>

QueueUnit(u) ==
  /\ guarded[u] = "reviewing"
  /\ guarded' = [guarded EXCEPT ![u] = "queued"]
  /\ UNCHANGED <<repo, before, notes, merge, moves, began>>

Commit(area, merged) ==
  Append(repo.refs["target"], [n |-> moves + 1, area |-> area, merged |-> merged])

\* The queue puts the unit on the target, for this conductor or another process.
FastForward(u, own) ==
  /\ guarded[u] = "queued" /\ merge = NoMerge /\ moves < MaxMoves
  /\ repo' = [repo EXCEPT !.refs["target"] = Commit(u, TRUE)]
  /\ merge' = [unit |-> u, old |-> repo.refs["target"], new |-> Commit(u, TRUE),
               at |-> IF own THEN "note" ELSE "mark"]
  /\ moves' = moves + 1
  /\ UNCHANGED <<guarded, before, notes, began>>

Advance(baselines) ==
  before' = [u \in Guarded |->
    IF u \in baselines THEN [before[u] EXCEPT !.refs["target"] = merge.new] ELSE before[u]]

InWindow == {u \in Guarded : before[u] # NoSnapshot}

\* Mutant of NoteOwnRefMove: every baseline is advanced.
NoteAnyRefMove ==
  /\ merge # NoMerge /\ merge.at = "note"
  /\ Advance(InWindow)
  /\ merge' = [merge EXCEPT !.at = "mark"]
  /\ UNCHANGED <<repo, guarded, notes, moves, began>>

\* _note_own_ref_move: a baseline that still shows the target as it was.
NoteOwnRefMove ==
  /\ merge # NoMerge /\ merge.at = "note"
  /\ Advance({u \in InWindow : before[u].refs["target"] = merge.old})
  /\ merge' = [merge EXCEPT !.at = "mark"]
  /\ UNCHANGED <<repo, guarded, notes, moves, began>>

MarkMerged ==
  /\ merge # NoMerge /\ merge.at = "mark"
  /\ guarded' = [guarded EXCEPT ![merge.unit] = "merged"]
  /\ merge' = NoMerge
  /\ UNCHANGED <<repo, before, notes, moves, began>>

\* The baselines live in memory; the units are retried, and the queue finds the
\* item it had merged.
LoseBaselines ==
  /\ InWindow # {}
  /\ before' = [u \in Guarded |-> NoSnapshot] /\ began' = before'
  /\ guarded' = [u \in Guarded |-> IF guarded[u] = "running" THEN "ready" ELSE guarded[u]]
  /\ merge' = IF merge = NoMerge THEN NoMerge ELSE [merge EXCEPT !.at = "mark"]
  /\ UNCHANGED <<repo, notes, moves>>

(********************** What happens to the repository *********************)

Change(new) ==
  /\ moves < MaxMoves
  /\ repo' = new
  /\ moves' = moves + 1
  /\ UNCHANGED <<guarded, before, notes, merge, began>>

CommitOnTarget(area) == Change([repo EXCEPT !.refs["target"] = Commit(area, FALSE)])
ResetTarget ==
  repo.refs["target"] # << >> /\ Change([repo EXCEPT !.refs["target"] = Front(@)])
MoveRef(r) == repo.refs[r] = 0 /\ Change([repo EXCEPT !.refs[r] = 1])
PackRefs ==
  LET tips == {repo.refs}
  IN repo.packed # tips /\ Change([repo EXCEPT !.packed = tips])
Configure == repo.config = 0 /\ Change([repo EXCEPT !.config = 1])

GuardNext ==
  \/ \E u \in Guarded :
       \/ StartRunner(u) \/ FinishRunner(u) \/ QueueUnit(u)
       \/ \E b \in BOOLEAN : RetryStopped(u, b) \/ FastForward(u, b)
  \/ NoteOwnRefMove \/ MarkMerged \/ LoseBaselines
  \/ \E area \in Guarded \cup {Elsewhere} : CommitOnTarget(area)
  \/ \E r \in Refs \ {"target"} : MoveRef(r)
  \/ ResetTarget \/ PackRefs \/ Configure

GuardSpec == GuardInit /\ [][GuardNext]_guardVars

(******************************* Properties ********************************)

\* The commits that came onto the target while the unit's runner ran, without
\* those of the merge queue, and whether one that was there is gone.
NewCommits(u) ==
  {c \in Range(repo.refs["target"]) \ Range(began[u].refs["target"]) : ~c.merged}
Rewritten(u) == ~IsPrefix(began[u].refs["target"], repo.refs["target"])

\* A merge on the target that this baseline does not show yet.
Unnoted(u) == merge # NoMerge /\ before[u].refs["target"] # merge.new

\* The runner's time left config, hooks, other refs and what was on the target
\* alone, and put nothing of the unit's scope there.
LeftAlone(u) ==
  /\ repo.config = began[u].config /\ repo.refs["tag"] = began[u].refs["tag"]
  /\ ~Rewritten(u)
  /\ \A c \in NewCommits(u) : c.area # u

\* Something other than a branch, a fetch, a commit elsewhere or a merge
\* happened, or a merge is not noted yet.
Disturbed(u) ==
  \/ repo.config # began[u].config \/ repo.refs["tag"] # began[u].refs["tag"]
  \/ repo.packed # began[u].packed
  \/ ~IsPrefix(before[u].refs["target"], repo.refs["target"])
  \/ Rewritten(u) \/ \E c \in NewCommits(u) : c.area # Elsewhere
  \/ Unnoted(u)

\* The guard judges an attempt by what it and others did to the repository and
\* not by the merges that went on meanwhile (docs/runtime.md:326-335).  Work is
\* accepted only if the shared state was left alone, however merges and their
\* notes interleave; and a unit is stopped only if it was disturbed.
GuardIsRight ==
  [][\A u \in Guarded : guarded[u] = "running" =>
       /\ guarded'[u] = "reviewing" => LeftAlone(u)
       /\ guarded'[u] = "stopped" => Disturbed(u)]_guardVars

==============================================================================
