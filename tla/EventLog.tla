------------------------------ MODULE EventLog -------------------------------
(***************************************************************************)
(* What a run store promises: a run is the events written since its plan   *)
(* was fixed, each of them written at once and never lost.  Whatever else  *)
(* happens to the files is invisible.                                      *)
(***************************************************************************)
EXTENDS Sequences

CONSTANT Event

VARIABLE run    \* << >> as long as there is no run

Init == run = << >>

Create == run = << >> /\ \E e \in Event : run' = <<e>>

Write == run # << >> /\ \E e \in Event : run' = Append(run, e)

\* Another plan takes the run's place: its history starts over.
Replan == run # << >> /\ \E e \in Event : run' = <<e>>

Next == Create \/ Write \/ Replan

Spec == Init /\ [][Next]_run

==============================================================================
