---------------------------- MODULE MCMergeQueue -----------------------------
(***************************************************************************)
(* Instances of MergeQueue for TLC.                                        *)
(***************************************************************************)
EXTENDS MergeQueue, TLC

\* Nothing tells sessions apart.
Symmetry == Permutations(Sessions)

==============================================================================
