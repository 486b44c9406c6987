-------------------------------- MODULE Scopes -------------------------------
(***************************************************************************)
(* Scope entries and what they cover: tasks/scope.py, the overlap test of  *)
(* merge_queue/conflicts.py and that of runs/plan_lint.py.                 *)
(*                                                                         *)
(* A path is the sequence of its segments.  A wildcard stands for a whole  *)
(* segment: "*" for one, "**" for any number of them.  Unsafe and unusual  *)
(* spellings of a path, which are normalized or refused, are left out.     *)
(***************************************************************************)
EXTENDS Integers, Sequences, SequencesExt

Wild == {"*", "**"}
IsGlob(entry) == \E i \in 1..Len(entry) : entry[i] \in Wild

\* The fixed part before the first wildcard.
FixedPart(entry) ==
  SubSeq(entry, 1, Cardinality({i \in 1..Len(entry) : \A j \in 1..i : entry[j] \notin Wild}))

\* Where each segment of the entry ends in the path.
Splits(path, entry) ==
  {cut \in [0..Len(entry) -> 0..Len(path)] :
     /\ cut[0] = 0 /\ cut[Len(entry)] = Len(path)
     /\ \A i \in 1..Len(entry) : cut[i - 1] <= cut[i]}

Literal(path, entry, cut, i) ==
  cut[i] = cut[i - 1] + 1 /\ path[cut[i]] = entry[i]

\* glob_match: a "*" never crosses a "/", a "**" may also match nothing.
GlobMatch(path, entry) ==
  \E cut \in Splits(path, entry) : \A i \in 1..Len(entry) :
    CASE entry[i] = "*" -> cut[i] = cut[i - 1] + 1
      [] entry[i] = "**" -> i = Len(entry) => cut[i] > cut[i - 1]
      [] OTHER -> Literal(path, entry, cut, i)

\* fnmatch.fnmatchcase: any wildcard crosses "/", and none matches nothing
\* between two of them.
FnMatch(path, entry) ==
  \E cut \in Splits(path, entry) : \A i \in 1..Len(entry) :
    IF entry[i] \in Wild THEN cut[i] > cut[i - 1] ELSE Literal(path, entry, cut, i)

Under(path, directory) == IsPrefix(directory, path)

\* scope_contains: a literal entry covers what is beneath it, an empty scope
\* everything.
ScopeContains(path, scope) ==
  scope = {} \/ \E entry \in scope :
    GlobMatch(path, entry) \/ (~IsGlob(entry) /\ Under(path, entry))

Beneath(entry) == Append(entry, "x")

\* patterns_overlap
PatternsOverlap(a, b) ==
  \/ a = b
  \/ ~IsGlob(a) /\ ~IsGlob(b) /\ (Under(a, b) \/ Under(b, a))
  \/ /\ IsGlob(a) /\ IsGlob(b)
     /\ IsPrefix(FixedPart(a), FixedPart(b)) \/ IsPrefix(FixedPart(b), FixedPart(a))
  \/ /\ IsGlob(a) # IsGlob(b)
     /\ LET literal == IF IsGlob(a) THEN b ELSE a
            glob == IF IsGlob(a) THEN a ELSE b
        IN \/ FnMatch(literal, glob)
           \/ FixedPart(glob) # << >> /\ Under(FixedPart(glob), literal)
           \/ FnMatch(Beneath(literal), glob)

\* scope_overlaps
ScopesOverlap(s, t) ==
  s = {} \/ t = {} \/ \E a \in s, b \in t : PatternsOverlap(a, b)

(******************************* Plan lint *********************************)

\* _glob_witnesses: paths that match a glob, with "x" for its wildcards.
GlobWitnesses(glob) ==
  LET filled(dropped) == [i \in 1..Len(glob) |->
        CASE i \in dropped -> << >>
          [] i \notin dropped /\ glob[i] \in Wild -> <<"x">>
          [] OTHER -> <<glob[i]>>]
      optional == {i \in 1..(Len(glob) - 1) : glob[i] = "**"}
  IN {w \in {FlattenSeq(filled(d)) : d \in SUBSET optional} : GlobMatch(w, glob)}

\* _patterns_overlap of the lint, given the paths of the target tree.
LintOverlap(left, right, tree) ==
  \/ \E p \in tree : ScopeContains(p, left) /\ ScopeContains(p, right)
  \/ \E a \in left, b \in right :
       CASE ~IsGlob(a) /\ ~IsGlob(b) -> Under(a, b) \/ Under(b, a)
         [] ~IsGlob(a) /\ IsGlob(b) -> GlobMatch(a, b) \/ GlobMatch(Beneath(a), b)
         [] IsGlob(a) /\ ~IsGlob(b) -> GlobMatch(b, a) \/ GlobMatch(Beneath(b), a)
         [] OTHER -> (\E w \in GlobWitnesses(a) : GlobMatch(w, b))
                       \/ (\E w \in GlobWitnesses(b) : GlobMatch(w, a))

==============================================================================
